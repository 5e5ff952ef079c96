---------------------------- MODULE ThreadsProofs -----------------------------
(***************************************************************************)
(* Proofs about threads, for object tables of any size and any number of      *)
(* priorities: kernel objects belong to who created them, and on one           *)
(* processor the pointers and bit maps of the kernel are a ready table.         *)
(***************************************************************************)
EXTENDS Threads, Sequences, FiniteSetTheorems, WellFoundedInduction, TLAPS

\* An index is a number.
LEMMA HalfNat == Half \in Nat /\ Half - 1 \in Nat
  BY DEF Half

\* The low half of a word is its index.
LEMMA HalfMod ==
    ASSUME NEW k \in Int, NEW i \in Int, 0 <= i, i < Half
    PROVE  (k * Half + i) % Half = i
  BY DEF Half

\* A class and an index that fit into one word are found in it again.
LEMMA WordParts ==
    ASSUME NEW k \in 1 .. 255, NEW i \in 0 .. Half - 1
    PROVE  /\ k * Half + i \in Nat \ {0} /\ (k * Half + i) % Half = i
           /\ ((k * Half + i) \div Half) % 256 = k
<1>1. k * Half \in Nat /\ k * Half >= 1  BY DEF Half
<1>2. k * Half + i \in Nat \ {0}  BY <1>1, HalfNat
<1>3. k \in Int /\ i \in Int /\ 0 <= i /\ i < Half  BY HalfNat
<1>4. (k * Half + i) % Half = i  BY <1>3, HalfMod
<1>5. (k * Half + i) \div Half = k  BY DEF Half
<1>6. k % 256 = k  OBVIOUS
<1> QED  BY <1>2, <1>4, <1>5, <1>6

\* The parts of the id of an object are its class and its index.
LEMMA IdParts ==
    ASSUME NEW k \in Class, NEW i \in 0 .. MaxOf[k] - 1
    PROVE  /\ ID(<<k, i>>) \in Nat \ {0} /\ i < MaxOf[k]
           /\ ClassOf(ID(<<k, i>>)) = k /\ IndexOf(ID(<<k, i>>)) = i
<1>1. k \in 1 .. 255 /\ MaxOf[k] \in 1 .. Half  BY KobjAssumption
<1>2. i \in 0 .. Half - 1 /\ i < MaxOf[k]  BY <1>1, HalfNat
<1>3. ID(<<k, i>>) = k * Half + i  BY DEF ID
<1>9. k * Half + i \in Nat \ {0}  BY <1>1, <1>2, WordParts
<1>4. ID(<<k, i>>) \in Nat \ {0}  BY <1>3, <1>9
<1>5. ClassOf(ID(<<k, i>>)) = ((k * Half + i) \div Half) % 256  BY <1>3 DEF ClassOf
<1>6. IndexOf(ID(<<k, i>>)) = (k * Half + i) % Half  BY <1>3 DEF IndexOf
<1>7. ClassOf(ID(<<k, i>>)) = k  BY <1>1, <1>2, <1>5, WordParts
<1>8. IndexOf(ID(<<k, i>>)) = i  BY <1>1, <1>2, <1>6, WordParts
<1> QED  BY <1>2, <1>4, <1>7, <1>8

\* An object is a class and an index in its table.
LEMMA Objects ==
    ASSUME NEW o \in Object
    PROVE  \E k \in Class : \E i \in 0 .. MaxOf[k] - 1 : o = <<k, i>>
<1>1. PICK k \in Class : o \in {k} \X (0 .. MaxOf[k] - 1)  BY DEF Object
<1> QED  BY <1>1

\* kobjGet and kobjCheck of the id of an object find that object and its class, and
\* kobjGet of the invalid id finds none: what kobjAlloc returns names what it took.
THEOREM GetID ==
    /\ \A k \in Class : \A i \in 0 .. MaxOf[k] - 1 :
           /\ Get(ID(<<k, i>>)) = <<k, i>>
           /\ \A l \in Class : Check(ID(<<k, i>>), l) <=> l = k
    /\ Get(INVALID) = Null
<1>1. ASSUME NEW k \in Class, NEW i \in 0 .. MaxOf[k] - 1
      PROVE  /\ Get(ID(<<k, i>>)) = <<k, i>>
             /\ \A l \in Class : Check(ID(<<k, i>>), l) <=> l = k
  <2>1. ClassOf(ID(<<k, i>>)) = k /\ IndexOf(ID(<<k, i>>)) = i /\ i < MaxOf[k]  BY IdParts
  <2>2. Get(ID(<<k, i>>)) = <<k, i>>  BY <2>1 DEF Get
  <2>3. \A l \in Class : Check(ID(<<k, i>>), l) <=> l = k  BY <2>1 DEF Check
  <2> QED  BY <2>2, <2>3
<1>2. ClassOf(INVALID) = 0  BY DEF ClassOf, INVALID, Half
<1>3. 0 \notin Class  BY KobjAssumption
<1>4. Get(INVALID) = Null  BY <1>2, <1>3 DEF Get
<1> QED  BY <1>1, <1>4

\* kobjGet gives an object or none.
LEMMA GetObject == \A o \in Object : Get(ID(o)) = o /\ o # Null
<1> SUFFICES ASSUME NEW o \in Object PROVE Get(ID(o)) = o /\ o # Null  OBVIOUS
<1>1. PICK k \in Class : \E i \in 0 .. MaxOf[k] - 1 : o = <<k, i>>  BY Objects
<1>2. PICK i \in 0 .. MaxOf[k] - 1 : o = <<k, i>>  BY <1>1
<1>3. Get(ID(<<k, i>>)) = <<k, i>>  BY GetID
<1>4. MaxOf[k] \in 1 .. Half  BY KobjAssumption
<1>5. <<k, i>> \in Class \X Nat  BY <1>4, HalfNat
<1> QED  BY <1>2, <1>3, <1>5, KobjAssumption
-----------------------------------------------------------------------------
\* A creator that looks for a place has a class, and a place it takes is in the table.
StepOK == \A c \in Creator :
    /\ at[c] \in {"look", "take"} => cls[c] \in Class
    /\ at[c] = "take" => Place(c) \in Object
Types == TypeOK /\ StepOK

\* An index in its table is an object.
LEMMA InTable ==
    ASSUME NEW k \in Class, NEW i \in 0 .. Half, i < MaxOf[k]
    PROVE  <<k, i>> \in Object /\ i + 1 \in 0 .. Half
<1>1. MaxOf[k] \in 1 .. Half  BY KobjAssumption
<1>2. i \in 0 .. MaxOf[k] - 1 /\ i + 1 \in 0 .. Half  BY <1>1, HalfNat
<1>3. <<k, i>> \in {k} \X (0 .. MaxOf[k] - 1)  BY <1>2
<1> QED  BY <1>2, <1>3 DEF Object

\* Before its end, the place a creator looks at is one of the table.
LEMMA PlaceInTable ==
    ASSUME Types, NEW c \in Creator, at[c] = "look", ~End(c)
    PROVE  Place(c) \in Object /\ idx[c] + 1 \in 0 .. Half
<1>1. cls[c] \in Class /\ idx[c] \in 0 .. Half  BY DEF Types, StepOK, TypeOK
<1>2. MaxOf[cls[c]] \in 1 .. Half  BY <1>1, KobjAssumption
<1>3. idx[c] < MaxOf[cls[c]]  BY <1>1, <1>2, HalfNat DEF End
<1> QED  BY <1>1, <1>3, InTable DEF Place

\* The typing invariant holds at first ...
LEMMA TypesInit == Init => Types
<1> SUFFICES ASSUME Init PROVE Types  OBVIOUS
<1>1. mode \in Boards /\ used \subseteq Object
  BY BoardsAssumption DEF Init, Board
<1> QED  BY <1>1, HalfNat DEF Init, Types, TypeOK, StepOK

\* Who is at it is a creator.
LEMMA CrewIs == Types => mode.crew \subseteq Creator
  BY BoardsAssumption DEF Types, TypeOK, Board

\* ... and every step keeps it.
LEMMA TypesNext == Types /\ [Next]_vars => Types'
<1> SUFFICES ASSUME Types, [Next]_vars PROVE Types'  OBVIOUS
<1>1. CASE UNCHANGED vars
  BY <1>1 DEF vars, Types, TypeOK, StepOK, Place
<1>2. ASSUME NEW c \in Creator, NEW k \in Class, Alloc(c, k) PROVE Types'
  <2>1. 0 \in 0 .. Half  BY HalfNat
  <2> QED  BY <1>2, <2>1 DEF Alloc, Go, Types, TypeOK, StepOK, Place
<1>3. ASSUME NEW c \in Creator, Look(c) PROVE Types'
  <2>1. idx[c] + 1 \in 0 .. Half  BY <1>3, PlaceInTable DEF Look
  <2>2. TypeOK'  BY <1>3, <2>1 DEF Look, Types, TypeOK
  <2>3. StepOK'  BY <1>3 DEF Look, Types, TypeOK, StepOK, Place
  <2> QED  BY <2>2, <2>3 DEF Types
<1>4. ASSUME NEW c \in Creator, Find(c) PROVE Types'
  <2>1. Place(c) \in Object  BY <1>4, PlaceInTable DEF Find, Go
  <2> QED  BY <1>4, <2>1 DEF Find, Go, Types, TypeOK, StepOK, Place
<1>5. ASSUME NEW c \in Creator, Fail(c) PROVE Types'
  BY <1>5 DEF Fail, Go, Types, TypeOK, StepOK, Place
<1>6. ASSUME NEW c \in Creator, Take(c) PROVE Types'
  <2>1. Place(c) \in Object  BY <1>6 DEF Take, Go, Types, StepOK
  <2> QED  BY <1>6, <2>1 DEF Take, NowUsed, Go, Types, TypeOK, StepOK, Place
<1>7. ASSUME NEW c \in Creator, Create(c) PROVE Types'
  <2>1. Get(id[c]) \in Object \cup {Null}  BY GetID, GetObject DEF Types, TypeOK
  <2>2. 0 \in 0 .. Half  BY HalfNat
  <2> QED  BY <1>7, <2>1, <2>2 DEF Create, Go, Types, TypeOK, StepOK, Place
<1>8. ASSUME NEW c \in Creator, NEW o \in held[c], Free(c, o) PROVE Types'
  BY <1>8 DEF Free, Types, TypeOK, StepOK, Place
<1> QED
  BY <1>1, <1>2, <1>3, <1>4, <1>5, <1>6, <1>7, <1>8, CrewIs DEF Next

\* Every object that is in use, held or asked for is one of a table.
THEOREM TypeCorrect == Spec => []TypeOK
<1>1. Types => TypeOK  BY DEF Types
<1> QED  BY TypesInit, TypesNext, <1>1, PTL DEF Spec
-----------------------------------------------------------------------------
\* What a creator holds, or has the id of.
Pending(c) == IF at[c] = "fill" THEN {Get(id[c])} ELSE {}
Has(c)     == (held[c] \cup Pending(c)) \ (raced \cup {Null})

\* Own, and what makes it inductive: an object that nobody took under the hands of another
\* one is in use as soon as its taker has the id, and no other creator has it.
OwnInv == \A c \in Creator :
    /\ Has(c) \subseteq used
    /\ \A d \in Creator \ {c} : Has(c) \cap Has(d) = {}
    /\ \A o \in held[c] \ (raced \cup {Null}) : owner[o] = c

\* It holds at first ...
LEMMA OwnInit == Init => OwnInv
  BY DEF Init, OwnInv, Has, Pending

\* ... and goes on when nobody has more than before, nothing is given back and no owner
\* changes.
LEMMA OwnLess ==
    ASSUME OwnInv, \A d \in Creator : Has(d)' \subseteq Has(d) /\ held'[d] = held[d],
           used \subseteq used', raced \subseteq raced', owner' = owner
    PROVE  OwnInv'
  BY DEF OwnInv

\* Every step keeps it.
LEMMA OwnNext == Types /\ OwnInv /\ [Next]_vars => OwnInv'
<1> SUFFICES ASSUME Types, OwnInv, [Next]_vars PROVE OwnInv'  OBVIOUS
<1>1. CASE UNCHANGED vars
  BY <1>1, OwnLess DEF vars, Has, Pending
<1>2. ASSUME NEW c \in Creator, NEW k \in Class, Alloc(c, k) PROVE OwnInv'
  BY <1>2, OwnLess DEF Alloc, Go, Types, TypeOK, Has, Pending
<1>3. ASSUME NEW c \in Creator, Look(c) PROVE OwnInv'
  BY <1>3, OwnLess DEF Look, Has, Pending
<1>4. ASSUME NEW c \in Creator, Find(c) PROVE OwnInv'
  BY <1>4, OwnLess DEF Find, Go, Types, TypeOK, Has, Pending
<1>5. ASSUME NEW c \in Creator, Fail(c) PROVE OwnInv'
  <2>1. Get(INVALID) = Null  BY GetID
  <2> QED  BY <1>5, <2>1, OwnLess DEF Fail, Go, Types, TypeOK, Has, Pending
<1>6. ASSUME NEW c \in Creator, Take(c) PROVE OwnInv'
  <2>1. Place(c) \in Object  BY <1>6 DEF Take, Go, Types, StepOK
  <2>2. Get(ID(Place(c))) = Place(c)  BY <2>1, GetObject
  <2>3. /\ Has(c)' \subseteq Has(c) \cup ({Place(c)} \ raced')
        /\ \A d \in Creator \ {c} : Has(d)' \subseteq Has(d)
    BY <1>6, <2>2 DEF Take, Go, Types, TypeOK, Has, Pending
  <2>4. /\ used' = used \cup {Place(c)} /\ owner' = owner /\ held' = held
        /\ raced \subseteq raced' /\ (Place(c) \in used => Place(c) \in raced')
    BY <1>6 DEF Take, NowUsed
  <2>5. \A d \in Creator \ {c} : Place(c) \notin raced' => Place(c) \notin Has(d)
    BY <2>4 DEF OwnInv
  <2>6. \A d \in Creator : Has(d)' \subseteq used'  BY <2>3, <2>4 DEF OwnInv
  <2>7. \A d, e \in Creator : d # e => Has(d)' \cap Has(e)' = {}
    <3> SUFFICES ASSUME NEW d \in Creator, NEW e \in Creator, d # e, NEW o \in Has(d)', o \in Has(e)'
                 PROVE  FALSE
      OBVIOUS
    <3>1. CASE d # c /\ e # c  BY <2>3, <3>1 DEF OwnInv
    <3>2. CASE d = c  BY <2>3, <2>5, <3>2 DEF OwnInv
    <3>3. CASE e = c  BY <2>3, <2>5, <3>3 DEF OwnInv
    <3> QED  BY <3>1, <3>2, <3>3
  <2>8. \A d \in Creator : \A o \in held'[d] \ (raced' \cup {Null}) : owner'[o] = d
    BY <2>4 DEF OwnInv
  <2> QED  BY <2>6, <2>7, <2>8 DEF OwnInv
<1>7. ASSUME NEW c \in Creator, Create(c) PROVE OwnInv'
  <2> DEFINE o == Get(id[c])
  <2>1. /\ o \in DOMAIN owner /\ used' = used /\ raced' = raced
        /\ owner' = [owner EXCEPT ![o] = c]
        /\ held'[c] = held[c] \cup {o} /\ \A d \in Creator \ {c} : held'[d] = held[d]
    <3>1. o \in Object \cup {Null}  BY GetID, GetObject DEF Types, TypeOK
    <3> QED  BY <1>7, <3>1 DEF Create, Types, TypeOK
  <2>2. \A d \in Creator : Has(d)' = Has(d)
    BY <1>7, <2>1 DEF Create, Go, Types, TypeOK, Has, Pending
  <2>3. o \in Has(c) \/ o \in raced \cup {Null}
    BY <1>7 DEF Create, Go, Has, Pending
  <2>4. \A d \in Creator \ {c} : o \in held[d] => o \in raced \cup {Null}
    BY <2>3 DEF OwnInv, Has
  <2>5. \A d \in Creator : \A p \in held'[d] \ (raced' \cup {Null}) : owner'[p] = d
    BY <2>1, <2>4 DEF OwnInv
  <2> QED  BY <2>1, <2>2, <2>5 DEF OwnInv
<1>8. ASSUME NEW c \in Creator, NEW o \in held[c], Free(c, o) PROVE OwnInv'
  <2>1. o \in Object /\ o # Null /\ Get(ID(o)) = o  BY <1>8, GetObject DEF Free, Types, TypeOK
  <2>2. /\ used' = used \ {o} /\ raced' = raced /\ owner' = owner
        /\ held'[c] = held[c] \ {o} /\ \A d \in Creator \ {c} : held'[d] = held[d]
    BY <1>8, <2>1 DEF Free, Types, TypeOK
  <2>3. Has(c)' = Has(c) \ {o} /\ \A d \in Creator \ {c} : Has(d)' = Has(d)
    BY <1>8, <2>2 DEF Free, Has, Pending
  <2>4. \A d \in Creator \ {c} : o \notin Has(d)
    BY <2>1 DEF OwnInv, Has
  <2> QED  BY <2>2, <2>3, <2>4 DEF OwnInv
<1> QED
  BY <1>1, <1>2, <1>3, <1>4, <1>5, <1>6, <1>7, <1>8, CrewIs DEF Next

\* It is more than Own says.
LEMMA OwnIs == OwnInv => Own
  BY DEF OwnInv, Own, Has

\* Whatever creators do at once, and whatever the size of the tables: an object that nobody
\* took under the hands of another one has one owner as long as it is held.
THEOREM OwnOK == Spec => []Own
<1>1. Types /\ OwnInv /\ [Next]_vars => OwnInv'  BY OwnNext
<1> QED  BY TypesInit, TypesNext, OwnInit, OwnIs, <1>1, PTL DEF Spec
-----------------------------------------------------------------------------
\* A set of natural numbers has a least one.
LEMMA Least ==
    ASSUME NEW P, P \subseteq Nat, P # {}
    PROVE  \E m \in P : \A n \in P : m <= n
<1> DEFINE R == {ss \in Nat \X Nat : ss[1] < ss[2]}
<1>1. IsWellFoundedOn(R, Nat)  BY NatLessThanWellFounded DEF OpToRel
<1> HIDE DEF R
<1>2. PICK x \in P : \A y \in P : ~ (<<y, x>> \in R)  BY <1>1, WFMin
<1>3. \A y \in P : ~(y < x)  BY <1>2 DEF R
<1> QED  BY <1>3

On(s) == {s[i] : i \in 1 .. Len(s)}

\* A library operator is the same in an instance.
LEMMA CardIs == \A S : Ring!Cardinality(S) = Cardinality(S)
  BY DEF Ring!Cardinality, Cardinality

\* Threads are finite in number.
LEMMA ThreadsFinite ==
    /\ IsFiniteSet(Thread) /\ Null \notin Thread
    /\ Null \notin Ring!Prio /\ Ring!Prio \subseteq Nat
<1>1. VCPUs \in Class /\ MaxOf[VCPUs] \in 1 .. Half  BY ThreadsAssumption, KobjAssumption
<1>2. Thread = {VCPUs} \X (0 .. MaxOf[VCPUs] - 1)
  BY <1>1 DEF Thread, Object
<1>3. MaxOf[VCPUs] - 1 \in Int  BY <1>1, HalfNat
<1>4. IsFiniteSet(0 .. MaxOf[VCPUs] - 1)  BY <1>3, FS_Interval
<1>5. IsFiniteSet(Thread)  BY <1>2, <1>4, FS_Singleton, FS_Product
<1>6. Thread \subseteq Class \X Nat  BY <1>1, <1>2
<1>7. Ring!Prio \subseteq Nat  BY ThreadsAssumption DEF Ring!Prio
<1> QED  BY <1>5, <1>6, <1>7, KobjAssumption, ThreadsAssumption

\* There are as many indices as elements.
LEMMA IntervalCard == ASSUME NEW n \in Nat PROVE Cardinality(1 .. n) = n
<1>1. n \in Int /\ 1 \in Int /\ n - 1 + 1 = n  OBVIOUS
<1>2. Cardinality(1 .. n) = IF 1 > n THEN 0 ELSE n - 1 + 1  BY <1>1, FS_Interval
<1> QED  BY <1>1, <1>2

\* Following next from the header of p on, one meets q and then the header or a thread
\* that does not count.
Chain(p, q) ==
    /\ hdr[p] = IF q = <<>> THEN Null ELSE q[1]
    /\ \A i, j \in 1 .. Len(q) : q[i] = q[j] => i = j
    /\ \A i \in 1 .. Len(q) : q[i] \notin Ring!Moving
    /\ \A i \in 1 .. Len(q) : i < Len(q) => next[q[i]] = q[i + 1]
    /\ q # <<>> => next[q[Len(q)]] \in {hdr[p]} \cup Ring!Moving

\* Then q is the ring the pointers describe.
LEMMA RingOfIs ==
    ASSUME NEW p \in Ring!Prio, NEW q \in Seq(Thread), Chain(p, q)
    PROVE  Ring!RingOf(p) = q
<1> DEFINE N == Cardinality(Thread)
           W(f) == [i \in 1 .. N |-> IF i = 1 THEN hdr[p] ELSE Ring!Follow(p, f[i - 1])]
           w == Ring!Walk(p)
           g == [i \in 1 .. N |-> IF i \in 1 .. Len(q) THEN q[i] ELSE Null]
<1>0. /\ N \in Nat /\ Len(q) \in Nat /\ Len(q) <= N
      /\ \A i \in 1 .. Len(q) : q[i] \in Thread /\ q[i] # Null
  <2>1. N \in Nat /\ IsFiniteSet(Thread) /\ Null \notin Thread  BY ThreadsFinite, FS_CardinalityType
  <2>2. q \in Injection(1 .. Len(q), Thread)  BY DEF Chain, Injection, IsInjective
  <2>6. Len(q) \in Nat /\ Cardinality(1 .. Len(q)) = Len(q)  BY IntervalCard
  <2>4. Len(q) <= N  BY <2>1, <2>2, <2>6, FS_Injection
  <2> QED  BY <2>1, <2>4
<1>1. \A i \in 1 .. N : i # 1 => i - 1 \in 1 .. N  BY <1>0
<1>2. g = W(g)
  <2> SUFFICES ASSUME NEW i \in 1 .. N
               PROVE  (IF i \in 1 .. Len(q) THEN q[i] ELSE Null)
                        = IF i = 1 THEN hdr[p] ELSE Ring!Follow(p, g[i - 1])
    OBVIOUS
  <2>1. CASE i = 1  BY <2>1 DEF Chain
  <2>2. CASE i # 1
    <3>1. PICK j \in 1 .. N : j = i - 1 /\ i = j + 1  BY <1>1, <2>2
    <3>2. CASE j \notin 1 .. Len(q)
      <4>1. i \notin 1 .. Len(q)  BY <1>0, <3>1, <3>2
      <4> QED  BY <2>2, <3>1, <3>2, <4>1 DEF Ring!Follow
    <3>3. CASE j = Len(q) /\ j \in 1 .. Len(q)
      <4>1. i \notin 1 .. Len(q) /\ q # <<>>  BY <1>0, <3>1, <3>3
      <4>2. g[j] = q[Len(q)]  BY <3>3
      <4>3. Ring!Follow(p, g[j]) = Null  BY <4>1, <4>2 DEF Chain, Ring!Follow
      <4> QED  BY <2>2, <3>1, <4>1, <4>3
    <3>4. CASE j < Len(q) /\ j \in 1 .. Len(q)
      <4>1. i \in 1 .. Len(q) /\ 1 \in 1 .. Len(q) /\ q # <<>>  BY <1>0, <3>1, <3>4
      <4>2. g[j] = q[j] /\ next[q[j]] = q[i]  BY <3>1, <3>4 DEF Chain
      <4>3. hdr[p] = q[1] /\ q[i] # q[1] /\ q[i] \notin Ring!Moving  BY <2>2, <4>1 DEF Chain
      <4>4. Ring!Follow(p, g[j]) = q[i]  BY <1>0, <3>4, <4>2, <4>3 DEF Ring!Follow
      <4> QED  BY <2>2, <3>1, <4>1, <4>4
    <3> QED  BY <1>0, <3>2, <3>3, <3>4
  <2> QED  BY <2>1, <2>2
<1>3. w = CHOOSE f : f = W(f)  BY CardIs DEF Ring!Walk
<1> HIDE DEF g, w
<1>4. w = W(w)
  <2>1. \E f : f = W(f)  BY <1>2
  <2> HIDE DEF W
  <2> QED  BY <1>3, <2>1
<1>5. ASSUME NEW n \in 1 .. N, w[n] # g[n] PROVE FALSE
  <2> DEFINE P == {i \in 1 .. N : w[i] # g[i]}
  <2>1. P \subseteq Nat /\ P # {}  BY <1>0, <1>5
  <2>2. PICK m \in P : \A i \in P : m <= i  BY <2>1, Least
  <2>3. m # 1 => w[m - 1] = g[m - 1]  BY <1>0, <1>1, <2>2
  <2>4. W(w)[m] = W(g)[m]  BY <2>3
  <2> QED  BY <1>2, <1>4, <2>2, <2>4
<1>6. DOMAIN w = 1 .. N  BY <1>4
<1>7. {j \in DOMAIN w : w[j] # Null} = 1 .. Len(q)
  <2>1. \A j \in 1 .. N : w[j] = IF j \in 1 .. Len(q) THEN q[j] ELSE Null  BY <1>5 DEF g
  <2> QED  BY <1>0, <1>6, <2>1
<1>8. Cardinality({j \in DOMAIN w : w[j] # Null}) = Len(q)
  <2>1. Cardinality(1 .. Len(q)) = Len(q)  BY IntervalCard
  <2> QED  BY <1>7, <2>1
<1>9. Ring!RingOf(p) = [i \in 1 .. Len(q) |-> w[i]]  BY <1>8, CardIs DEF Ring!RingOf, w
<1>10. \A i \in 1 .. Len(q) : w[i] = q[i]  BY <1>0, <1>5 DEF g
<1> QED  BY <1>9, <1>10
-----------------------------------------------------------------------------
\* A ring for each priority.
RT == [Ring!Prio -> Seq(Thread)]
-----------------------------------------------------------------------------
\* The invariant of ready rings on one processor k: with r the rings, where the processor is
\* says which pointers and bits are not yet set.
Hand(k) == IF rat[k] \in {"read", "link", "left", "right", "self", "head",
                          "unlink", "join", "empty", "clrsub", "test", "clrmap"}
             THEN {thr[k]} ELSE {}
Loose(k)   == IF rat[k] \in {"left", "right", "head", "unlink", "join"} THEN thr[k] ELSE Null
NextGap(k) == IF rat[k] \in {"right", "head", "unlink"} THEN pri[k] ELSE Null
PrevGap(k) == IF rat[k] \in {"head", "unlink", "join"} THEN pri[k] ELSE Null

\* Every thread is new, taken, in the processor's hand, or once in the ring of its priority.
Once(q) == \A i, j \in 1 .. Len(q) : q[i] = q[j] => i = j
Places(k, r) ==
    /\ \A p \in Ring!Prio : Once(r[p])
    /\ \A p \in Ring!Prio : \A i \in 1 .. Len(r[p]) :
           PrioOf[r[p][i]] = p /\ r[p][i] \notin init \cup out \cup Hand(k)
    /\ \A t \in Thread \ (init \cup out \cup Hand(k)) : t \in On(r[PrioOf[t]])
    /\ init \cap out = {} /\ (init \cup out) \cap Hand(k) = {}

\* Pointers close every ring, but for the two that lead to the thread that moves.
Closed(k, r) == \A p \in Ring!Prio :
    /\ hdr[p] = IF r[p] = <<>> THEN Null ELSE r[p][1]
    /\ \A i \in 1 .. Len(r[p]) :
        /\ next[r[p][i]] = IF i < Len(r[p]) THEN r[p][i + 1]
                           ELSE IF NextGap(k) = p THEN thr[k] ELSE r[p][1]
        /\ prev[r[p][i]] = IF i > 1 THEN r[p][i - 1]
                           ELSE IF PrevGap(k) = p THEN thr[k] ELSE r[p][Len(r[p])]
Moved(k, q) == Loose(k) # Null =>
    /\ next[thr[k]] = IF q = <<>> THEN thr[k] ELSE q[1]
    /\ prev[thr[k]] = IF q = <<>> THEN thr[k] ELSE q[Len(q)]
Apart(k, r) == \A t \in Thread :
    t # Loose(k) /\ t \notin On(r[PrioOf[t]]) => next[t] = Null /\ prev[t] = Null

\* Bits say which rings are not empty, but for those the processor is about to change.
Full(r)     == {p \in Ring!Prio : r[p] # <<>>}
Late(k, r)  == {p \in Ring!Prio : p = pri[k] /\ rat[k] \in {"one", "map", "sub"} /\ Len(r[p]) = 1}
Stale(k, r) == {p \in Ring!Prio : p = pri[k] /\ rat[k] \in {"unlink", "join", "empty", "clrsub"}}
Words(k)    == {Ring!Word(p) : p \in sub}
Bits(k, r) ==
    /\ sub = (Full(r) \ Late(k, r)) \cup Stale(k, r)
    /\ map = Words(k) \cup {Ring!Word(p) : p \in {q \in Ring!Prio :
                                q = pri[k] /\ rat[k] \in {"sub", "test", "clrmap"}}}

\* What the processor has read is so.
Facts(k, r) ==
    /\ rat[k] # "lost"
    /\ rat[k] \notin {"idle", "seek", "take"} => thr[k] \in Thread /\ pri[k] = PrioOf[thr[k]]
    /\ rat[k] = "idle" => thr[k] = Null
    /\ rat[k] = "init" => thr[k] \in init
    /\ rat[k] \in {"link", "left", "right"} => r[pri[k]] # <<>> /\ old[k] = r[pri[k]][1]
    /\ rat[k] = "self" => r[pri[k]] = <<>>
    /\ rat[k] \in {"seek", "take", "del"} => pri[k] \in Full(r) /\ \A q \in Full(r) : pri[k] <= q
    /\ rat[k] = "del" => thr[k] = r[pri[k]][1]
    /\ rat[k] \in {"unlink", "join"} => r[pri[k]] # <<>>
    /\ rat[k] \in {"map", "sub"} => Len(r[pri[k]]) = 1
    /\ rat[k] \in {"clrsub", "test", "clrmap"} => r[pri[k]] = <<>>
    /\ rat[k] = "clrmap" => Ring!Word(pri[k]) \notin Words(k)

Good(k, r) ==
    /\ Places(k, r) /\ Closed(k, r) /\ Moved(k, r[pri[k]]) /\ Apart(k, r)
    /\ Bits(k, r) /\ Facts(k, r)
Still == {"idle", "lost", "init", "read", "link", "self", "one", "map", "sub", "seek", "take",
          "del", "empty", "clrsub", "test", "clrmap"}

\* A step at which no thread moves and that writes no pointer leaves them as they are.
LEMMA LinksFrame ==
    ASSUME NEW k \in CPU, NEW r \in RT, Good(k, r), rat[k] \in Still, rat'[k] \in Still,
           Ring!Prio \subseteq Nat, Null \notin Ring!Prio,
           UNCHANGED <<hdr, next, prev>>
    PROVE  Closed(k, r)' /\ Moved(k, r[pri[k]])' /\ Apart(k, r)'
<1>1. Loose(k) = Null /\ NextGap(k) = Null /\ PrevGap(k) = Null  BY DEF Loose, NextGap, PrevGap, Still
<1>2. Loose(k)' = Null /\ NextGap(k)' = Null /\ PrevGap(k)' = Null  BY DEF Loose, NextGap, PrevGap, Still
<1>3. Closed(k, r)'
  <2>1. Closed(k, r)  BY DEF Good
  <2>2. \A p \in Ring!Prio : NextGap(k) # p /\ PrevGap(k) # p  BY <1>1
  <2>3. \A p \in Ring!Prio :
          /\ hdr[p] = IF r[p] = <<>> THEN Null ELSE r[p][1]
          /\ \A i \in 1 .. Len(r[p]) :
              /\ next[r[p][i]] = IF i < Len(r[p]) THEN r[p][i + 1] ELSE r[p][1]
              /\ prev[r[p][i]] = IF i > 1 THEN r[p][i - 1] ELSE r[p][Len(r[p])]
    BY <2>1, <2>2 DEF Closed
  <2>4. \A p \in Ring!Prio : NextGap(k)' # p /\ PrevGap(k)' # p  BY <1>2
  <2> QED  BY <2>3, <2>4 DEF Closed
<1>4. Moved(k, r[pri[k]])'  BY <1>2 DEF Moved
<1>5. Apart(k, r)'  BY <1>1, <1>2 DEF Good, Apart
<1> QED  BY <1>3, <1>4, <1>5

\* A step that keeps who is new, taken or in hand keeps the places.
LEMMA PlacesFrame ==
    ASSUME NEW k \in CPU, NEW r \in RT, Good(k, r), UNCHANGED <<init, out, Hand(k)>>
    PROVE  Places(k, r)'
  BY DEF Good, Places

\* A step that writes no bit, before and after which none is missing, keeps them.
LEMMA BitsFrame ==
    ASSUME NEW k \in CPU, NEW r \in RT, Good(k, r), UNCHANGED <<map, sub>>,
           rat[k] \in {"idle", "init", "read", "link", "left", "right", "self", "seek", "take", "del"},
           rat'[k] \in {"idle", "init", "read", "link", "left", "right", "self", "head",
                        "seek", "take", "del"}
    PROVE  Bits(k, r)'
<1>1. Late(k, r) = {} /\ Stale(k, r) = {}  BY DEF Late, Stale
<1>2. Late(k, r)' = {} /\ Stale(k, r)' = {}  BY DEF Late, Stale
<1>3. Words(k)' = Words(k) BY DEF Words, Ring!Word
<1> QED  BY <1>1, <1>2, <1>3 DEF Good, Bits

\* What a processor that is alone knows, whatever it does.
Alone(k, r) == CPU = {k} /\ r \in RT /\ Ring!TypeOK /\ Good(k, r)

\* What it means for the sets and the parts of the invariant.
LEMMA Kinds ==
    ASSUME NEW k, NEW r, Alone(k, r)
    PROVE  /\ k \in CPU /\ k # Null /\ CPU = {k} /\ r \in RT /\ Good(k, r) /\ Ring!TypeOK
           /\ Ring!Prio \subseteq Nat /\ Null \notin Ring!Prio /\ Null \notin Thread
           /\ \A t \in Thread : PrioOf[t] \in Ring!Prio
  BY ThreadsFinite, ThreadsAssumption DEF Alone, Ring!Prio

\* vcpuStart finds a new thread.
LEMMA StartStep ==
    ASSUME NEW k, NEW r, Alone(k, r), NEW t \in Thread, Ring!Start(k, t)
    PROVE  Alone(k, r)'
<1> USE Kinds
<1>1. /\ rat[k] = "idle" /\ rat'[k] = "init" /\ thr'[k] = t /\ pri'[k] = PrioOf[t] /\ t \in init
      /\ UNCHANGED <<hdr, next, prev, map, sub, init, out, lock, old>>
  BY DEF Ring!Start, Ring!Begin, Ring!Go, Ring!TypeOK, Ring!links, Ring!bits
<1>2. Ring!TypeOK'  BY <1>1 DEF Ring!Start, Ring!Begin, Ring!Go, Ring!TypeOK, Ring!Adding, Ring!Node
<1>3. Closed(k, r)' /\ Moved(k, r[pri[k]])' /\ Apart(k, r)'  BY <1>1, LinksFrame DEF Still
<1>4. UNCHANGED Hand(k)  BY <1>1 DEF Hand
<1>5. Places(k, r)'  BY <1>1, <1>4, PlacesFrame
<1>6. Bits(k, r)'  BY <1>1, BitsFrame
<1>7. Facts(k, r)'  BY <1>1 DEF Facts
<1> QED  BY <1>2, <1>3, <1>5, <1>6, <1>7 DEF Alone, Good

\* vcpuStart: the thread is ready.
LEMMA StartedStep ==
    ASSUME NEW k, NEW r, Alone(k, r), Ring!Started(k)
    PROVE  Alone(k, r)'
<1> USE Kinds
<1>1. /\ rat[k] = "init" /\ rat'[k] = "read" /\ init' = init \ {thr[k]} /\ thr[k] \in init
      /\ thr[k] \in Thread /\ pri[k] = PrioOf[thr[k]]
      /\ UNCHANGED <<hdr, next, prev, map, sub, out, lock, thr, pri, old>>
  BY DEF Ring!Started, Ring!Go, Ring!TypeOK, Ring!links, Ring!bits, Ring!cpu, Good, Facts
<1>2. Ring!TypeOK'  BY <1>1 DEF Ring!Started, Ring!Go, Ring!TypeOK, Ring!Adding, Ring!Node
<1>3. Closed(k, r)' /\ Moved(k, r[pri[k]])' /\ Apart(k, r)'  BY <1>1, LinksFrame DEF Still
<1>4. Hand(k) = {} /\ Hand(k)' = {thr[k]}  BY <1>1 DEF Hand
<1>5. Places(k, r)'  BY <1>1, <1>4 DEF Good, Places
<1>6. Bits(k, r)'  BY <1>1, BitsFrame
<1>7. Facts(k, r)'  BY <1>1 DEF Facts
<1> QED  BY <1>2, <1>3, <1>5, <1>6, <1>7 DEF Alone, Good

\* __candTableClear and the wakeups make a thread ready again.
LEMMA BackStep ==
    ASSUME NEW k, NEW r, Alone(k, r), NEW t \in Thread, Ring!Back(k, t)
    PROVE  Alone(k, r)'
<1> USE Kinds
<1>1. /\ rat[k] = "idle" /\ rat'[k] = "read" /\ thr'[k] = t /\ pri'[k] = PrioOf[t] /\ t \in out
      /\ out' = out \ {t} /\ UNCHANGED <<hdr, next, prev, map, sub, init, old>>
  BY DEF Ring!Back, Ring!Begin, Ring!Go, Ring!TypeOK, Ring!links, Ring!bits
<1>2. Ring!TypeOK'
  BY <1>1 DEF Ring!Back, Ring!Begin, Ring!Go, Ring!TypeOK, Ring!Adding, Ring!Node
<1>3. Closed(k, r)' /\ Moved(k, r[pri[k]])' /\ Apart(k, r)'  BY <1>1, LinksFrame DEF Still
<1>4. Hand(k) = {} /\ Hand(k)' = {t}  BY <1>1 DEF Hand
<1>5. Places(k, r)'  BY <1>1, <1>4 DEF Good, Places
<1>6. Bits(k, r)'  BY <1>1, BitsFrame
<1>7. Facts(k, r)'  BY <1>1 DEF Facts
<1> QED  BY <1>2, <1>3, <1>5, <1>6, <1>7 DEF Alone, Good

\* A larger number has no smaller word.
LEMMA WordMono ==
    ASSUME NEW a \in Nat, NEW b \in Nat, a <= b
    PROVE  Ring!Word(a) <= Ring!Word(b) /\ Ring!Word(a) \in Nat
<1> DEFINE g == Group
<1>1. g \in Nat /\ g > 0  BY ThreadsAssumption
<1>2. \A n \in Nat : n \div g \in Nat /\ n = g * (n \div g) + (n % g) /\ 0 <= n % g /\ n % g < g
  BY <1>1
<1>3. PICK x \in Nat : x = a \div g  BY <1>2
<1>4. PICK y \in Nat : y = b \div g  BY <1>2
<1>5. PICK u \in 0 .. g - 1 : u = a % g  BY <1>1, <1>2
<1>6. PICK v \in 0 .. g - 1 : v = b % g  BY <1>1, <1>2
<1> HIDE DEF g
<1>7. g * x + u <= g * y + v  BY <1>2, <1>3, <1>4, <1>5, <1>6
<1>8. ASSUME y < x PROVE FALSE
  <2>1. PICK d \in Nat : x = y + 1 + d  BY <1>8
  <2>2. g * x = g * y + g + g * d /\ g * d \in Nat /\ g * y \in Nat  BY <1>1, <2>1
  <2> QED  BY <1>1, <1>5, <1>6, <1>7, <2>2
<1> QED  BY <1>3, <1>4, <1>8 DEF Ring!Word, g

\* __candTableFill finds the most urgent ring: no bit of the first level leads nowhere.
LEMMA FillStep ==
    ASSUME NEW k, NEW r, Alone(k, r), Ring!Fill(k)
    PROVE  Alone(k, r)'
<1> USE Kinds
<1>1. /\ rat[k] = "idle" /\ map # {} /\ lock' = k
      /\ UNCHANGED <<hdr, next, prev, map, sub, init, out, old>>
  BY DEF Ring!Fill, Ring!Begin, Ring!Go, Ring!links, Ring!bits
<1>2. sub = Full(r) /\ map = Words(k)
  <2>1. Late(k, r) = {} /\ Stale(k, r) = {}  BY <1>1 DEF Late, Stale
  <2>2. Bits(k, r)  BY DEF Good
  <2> QED  BY <1>1, <2>1, <2>2 DEF Bits
<1>3. PICK w : w = CHOOSE u \in map : \A v \in map : u <= v  OBVIOUS
<1>4. map \subseteq Nat /\ \A p \in Ring!Prio : Ring!Word(p) \in Nat
  <2>1. \A p \in Ring!Prio : Ring!Word(p) \in Nat  BY WordMono
  <2> QED  BY <1>2, <2>1 DEF Words, Full
<1>5. \E u \in map : \A v \in map : u <= v  BY <1>1, <1>4, Least
<1>6. w \in map /\ \A v \in map : w <= v  BY <1>3, <1>5
<1> DEFINE S == {p \in sub : Ring!Word(p) = w}
<1>7. S # {} /\ S \subseteq Nat  BY <1>2, <1>6 DEF Words, Full
<1>8. PICK m \in S : \A q \in S : m <= q  BY <1>7, Least
<1>9. Ring!High(w) \in S /\ \A q \in S : Ring!High(w) <= q  BY <1>8 DEF Ring!High
<1>10. PICK h \in S : h = Ring!High(w) /\ \A q \in S : h <= q  BY <1>9
<1>11. h \in Full(r) /\ \A q \in Full(r) : h <= q
  <2> SUFFICES ASSUME NEW q \in Full(r), ~(h <= q) PROVE FALSE  BY <1>2
  <2>1. q \in Nat /\ h \in Nat /\ q <= h  BY <1>2 DEF Full
  <2>2. Ring!Word(q) <= w  BY <2>1, WordMono
  <2>3. Ring!Word(q) \in map  BY <1>2 DEF Words
  <2>4. w <= Ring!Word(q) /\ w \in Nat /\ Ring!Word(q) \in Nat  BY <1>4, <1>6, <2>3
  <2>5. Ring!Word(q) = w  BY <2>2, <2>4
  <2> QED  BY <1>2, <1>10, <2>5
<1>12. /\ rat' = [rat EXCEPT ![k] = "seek"] /\ thr' = [thr EXCEPT ![k] = Null]
       /\ pri' = [pri EXCEPT ![k] = h]
  BY <1>3, <1>7, <1>10 DEF Ring!Fill, Ring!Begin, Ring!Go
<1> HIDE DEF S
<1>13. rat'[k] = "seek" /\ pri'[k] = h /\ h \in Ring!Prio
  BY <1>11, <1>12 DEF Ring!TypeOK, Full
<1>14. Ring!TypeOK'
  BY <1>1, <1>12, <1>13 DEF Ring!TypeOK, Ring!Taking, Ring!Node
<1>15. Closed(k, r)' /\ Moved(k, r[pri[k]])' /\ Apart(k, r)'  BY <1>1, <1>13, LinksFrame DEF Still
<1>16. UNCHANGED Hand(k)  BY <1>1, <1>13 DEF Hand
<1>17. Places(k, r)'  BY <1>1, <1>16, PlacesFrame
<1>18. Bits(k, r)'  BY <1>1, <1>13, BitsFrame
<1>19. Facts(k, r)'  BY <1>11, <1>13 DEF Facts
<1> QED  BY <1>14, <1>15, <1>17, <1>18, <1>19 DEF Alone, Good

\* The end of an operation puts the processor down.
LEMMA EndFacts ==
    ASSUME NEW k, NEW r, Alone(k, r), Ring!End(k)
    PROVE  /\ rat'[k] = "idle" /\ thr'[k] = Null /\ lock' \in CPU \cup {Null}
           /\ rat' \in [CPU -> {"idle", "lost"} \cup Ring!Adding \cup Ring!Taking]
           /\ thr' \in [CPU -> Ring!Node] /\ pri' \in [CPU -> Ring!Prio \cup {Null}]
           /\ old' \in [CPU -> Ring!Node]
  BY Kinds DEF Ring!End, Ring!TypeOK, Ring!Node

\* A step within an operation.
LEMMA StepFacts ==
    ASSUME NEW k, NEW r, Alone(k, r), NEW a, NEW b \in Ring!Adding \cup Ring!Taking,
           Ring!Step(k, a, b)
    PROVE  /\ rat[k] = a /\ rat'[k] = b /\ UNCHANGED <<init, out, lock, thr, pri, old>>
           /\ rat' \in [CPU -> {"idle", "lost"} \cup Ring!Adding \cup Ring!Taking]
  BY Kinds DEF Ring!Step, Ring!Go, Ring!TypeOK, Ring!cpu

\* At an operation with a thread, its ring is that of its priority.
LEMMA Busy ==
    ASSUME NEW k, NEW r, Alone(k, r), rat[k] \notin {"idle", "seek", "take"}
    PROVE  /\ thr[k] \in Thread /\ pri[k] = PrioOf[thr[k]] /\ pri[k] \in Ring!Prio
           /\ r[pri[k]] \in Seq(Thread)
  BY Kinds DEF Good, Facts, RT

\* _List_Ring_Add_Ahead reads the header.
LEMMA ReadStep ==
    ASSUME NEW k, NEW r, Alone(k, r), Ring!Read(k)
    PROVE  Alone(k, r)'
<1> USE Kinds
<1>1. rat[k] = "read"  BY DEF Ring!Read, Ring!Go
<1>2. PICK p \in Ring!Prio : p = pri[k]  BY <1>1, Busy
<1>3. hdr[p] = IF r[p] = <<>> THEN Null ELSE r[p][1]  BY DEF Good, Closed
<1>4. r[p] # <<>> => r[p][1] # Null  BY DEF RT
<1>5. /\ rat'[k] = IF r[p] = <<>> THEN "self" ELSE "link"
      /\ old'[k] = hdr[p] /\ UNCHANGED <<hdr, next, prev, map, sub, init, out, lock, thr, pri>>
  BY <1>2, <1>3, <1>4 DEF Ring!Read, Ring!Go, Ring!TypeOK, Ring!links, Ring!bits
<1>6. Ring!TypeOK'
  BY <1>5 DEF Ring!Read, Ring!Go, Ring!TypeOK, Ring!Adding, Ring!Node
<1>7. Closed(k, r)' /\ Moved(k, r[pri[k]])' /\ Apart(k, r)'  BY <1>1, <1>5, LinksFrame DEF Still
<1>8. UNCHANGED Hand(k)  BY <1>1, <1>5 DEF Hand
<1>9. Places(k, r)'  BY <1>5, <1>8, PlacesFrame
<1>10. Bits(k, r)'  BY <1>1, <1>5, BitsFrame
<1>11. Facts(k, r)'  BY <1>1, <1>2, <1>3, <1>5 DEF Good, Facts
<1> QED  BY <1>6, <1>7, <1>9, <1>10, <1>11 DEF Alone, Good

\* A ring of one is one whose header is its own next.
LEMMA OneIs ==
    ASSUME NEW k, NEW r, Alone(k, r), rat[k] = "one", NEW p \in Ring!Prio
    PROVE  Ring!IsOne(p) <=> Len(r[p]) = 1
<1> USE Kinds
<1>1. NextGap(k) = Null /\ p # Null  BY DEF NextGap
<1>2. PICK q \in Seq(Thread) : q = r[p]  BY DEF RT
<1>3. hdr[p] = IF q = <<>> THEN Null ELSE q[1]  BY <1>2 DEF Good, Closed
<1>4. \A i \in 1 .. Len(q) : next[q[i]] = IF i < Len(q) THEN q[i + 1] ELSE q[1]
  BY <1>1, <1>2 DEF Good, Closed
<1>5. \A i, j \in 1 .. Len(q) : q[i] = q[j] => i = j  BY <1>2 DEF Good, Places, Once
<1>6. CASE q = <<>>  BY <1>2, <1>3, <1>6 DEF Ring!IsOne
<1>7. CASE q # <<>>
  <2>1. 1 \in 1 .. Len(q) /\ Len(q) \in Nat /\ q[1] \in Thread  BY <1>7
  <2>2. ASSUME Len(q) # 1 PROVE next[q[1]] = q[2] /\ q[2] # q[1]
    <3>1. 2 \in 1 .. Len(q) /\ 1 < Len(q) /\ 1 + 1 = 2
      <4>1. PICK n \in Nat : n = Len(q)  BY <2>1
      <4>2. 1 \in 1 .. n /\ n # 1  BY <2>1, <2>2, <4>1
      <4>3. 2 \in 1 .. n /\ 1 < n /\ 1 + 1 = 2  BY <4>2
      <4> QED  BY <4>1, <4>3
    <3>2. next[q[1]] = q[2]  BY <1>4, <2>1, <3>1
    <3> QED  BY <1>5, <2>1, <3>1, <3>2
  <2>3. Len(q) = 1 => next[q[1]] = q[1]  BY <1>4, <2>1
  <2> QED  BY <1>2, <1>3, <1>7, <2>1, <2>2, <2>3 DEF Ring!IsOne
<1> QED  BY <1>6, <1>7

\* _BitmapAdd is for a thread that is alone in its ring.
LEMMA OneStep ==
    ASSUME NEW k, NEW r, Alone(k, r), Ring!One(k)
    PROVE  Alone(k, r)'
<1> USE Kinds
<1>1. rat[k] = "one"  BY DEF Ring!One
<1>2. PICK p \in Ring!Prio : p = pri[k]  BY <1>1, Busy
<1>3. UNCHANGED <<hdr, next, prev, map, sub, init, out>>
  BY DEF Ring!One, Ring!Step, Ring!links, Ring!bits
<1>4. Hand(k) = {}  BY <1>1 DEF Hand
<1>5. Bits(k, r) /\ Facts(k, r)  BY DEF Good
<1>6. CASE Len(r[p]) = 1
  <2>1. Ring!Step(k, "one", "map")  BY <1>1, <1>2, <1>6, OneIs DEF Ring!One
  <2>2. "map" \in Ring!Adding  BY DEF Ring!Adding
  <2>3. /\ rat'[k] = "map" /\ UNCHANGED <<lock, thr, pri, old>>
        /\ rat' \in [CPU -> {"idle", "lost"} \cup Ring!Adding \cup Ring!Taking]
    BY <2>1, <2>2, StepFacts
  <2>4. Ring!TypeOK'  BY <1>3, <2>3 DEF Ring!TypeOK, Ring!Node
  <2>5. Closed(k, r)' /\ Moved(k, r[pri[k]])' /\ Apart(k, r)'
    BY <1>1, <1>3, <2>3, LinksFrame DEF Still
  <2>6. Hand(k)' = {}  BY <2>3 DEF Hand
  <2>7. Places(k, r)'  BY <1>3, <1>4, <2>6, PlacesFrame
  <2>8. Bits(k, r)'  BY <1>1, <1>3, <1>5, <2>3 DEF Bits, Late, Stale, Words, Ring!Word
  <2>9. Facts(k, r)'  BY <1>1, <1>2, <1>5, <1>6, <2>3 DEF Facts
  <2> QED  BY <2>4, <2>5, <2>7, <2>8, <2>9 DEF Alone, Good
<1>7. CASE Len(r[p]) # 1
  <2>1. Ring!End(k)  BY <1>1, <1>2, <1>7, OneIs DEF Ring!One
  <2>2. rat'[k] = "idle" /\ thr'[k] = Null  BY <2>1, EndFacts
  <2>3. Ring!TypeOK'  BY <1>3, <2>1, EndFacts DEF Ring!TypeOK, Ring!Node
  <2>4. Closed(k, r)' /\ Moved(k, r[pri[k]])' /\ Apart(k, r)'
    BY <1>1, <1>3, <2>2, LinksFrame DEF Still
  <2>5. Hand(k)' = {}  BY <2>2 DEF Hand
  <2>6. Places(k, r)'  BY <1>3, <1>4, <2>5, PlacesFrame
  <2>7. Late(k, r) = {} /\ Stale(k, r) = {}  BY <1>1, <1>2, <1>7 DEF Late, Stale
  <2>8. Late(k, r)' = {} /\ Stale(k, r)' = {}  BY <2>2 DEF Late, Stale
  <2>9. Bits(k, r)'  BY <1>1, <1>3, <1>5, <2>2, <2>7, <2>8 DEF Bits, Words, Ring!Word
  <2>10. Facts(k, r)'  BY <2>2 DEF Facts
  <2> QED  BY <2>3, <2>4, <2>6, <2>9, <2>10 DEF Alone, Good
<1> QED  BY <1>6, <1>7

\* _BitmapAdd sets the bit of the word ...
LEMMA SetMapStep ==
    ASSUME NEW k, NEW r, Alone(k, r), Ring!SetMap(k)
    PROVE  Alone(k, r)'
<1> USE Kinds
<1>1. "sub" \in Ring!Adding  BY DEF Ring!Adding
<1>2. /\ rat[k] = "map" /\ rat'[k] = "sub" /\ UNCHANGED <<init, out, lock, thr, pri, old>>
      /\ rat' \in [CPU -> {"idle", "lost"} \cup Ring!Adding \cup Ring!Taking]
  BY <1>1, StepFacts DEF Ring!SetMap
<1>3. PICK p \in Ring!Prio : p = pri[k]  BY <1>2, Busy
<1>4. map' = map \cup {Ring!Word(p)} /\ UNCHANGED <<hdr, next, prev, sub>>
  BY <1>3 DEF Ring!SetMap, Ring!links
<1>5. Ring!TypeOK'  BY <1>2, <1>4 DEF Ring!TypeOK, Ring!Node, Ring!Word
<1>6. Closed(k, r)' /\ Moved(k, r[pri[k]])' /\ Apart(k, r)'
  BY <1>2, <1>4, LinksFrame DEF Still
<1>7. UNCHANGED Hand(k)  BY <1>2 DEF Hand
<1>8. Places(k, r)'  BY <1>2, <1>7, PlacesFrame
<1>9. Bits(k, r) /\ Facts(k, r)  BY DEF Good
<1>10. UNCHANGED <<Late(k, r), Stale(k, r)>>  BY <1>2 DEF Late, Stale
<1>11. Bits(k, r)'  BY <1>2, <1>3, <1>4, <1>9, <1>10 DEF Bits, Words, Ring!Word
<1>12. Facts(k, r)'  BY <1>2, <1>9 DEF Facts
<1> QED  BY <1>5, <1>6, <1>8, <1>11, <1>12 DEF Alone, Good

\* ... and that of the priority.
LEMMA SetSubStep ==
    ASSUME NEW k, NEW r, Alone(k, r), Ring!SetSub(k)
    PROVE  Alone(k, r)'
<1> USE Kinds
<1>1. rat[k] = "sub"  BY DEF Ring!SetSub
<1>2. PICK p \in Ring!Prio : p = pri[k]  BY <1>1, Busy
<1>3. rat'[k] = "idle" /\ thr'[k] = Null  BY EndFacts DEF Ring!SetSub
<1>4. sub' = sub \cup {p} /\ UNCHANGED <<hdr, next, prev, map, init, out>>
  BY <1>2 DEF Ring!SetSub, Ring!links
<1>5. Ring!TypeOK'  BY <1>4, EndFacts DEF Ring!SetSub, Ring!TypeOK, Ring!Node
<1>6. Closed(k, r)' /\ Moved(k, r[pri[k]])' /\ Apart(k, r)'
  BY <1>1, <1>3, <1>4, LinksFrame DEF Still
<1>7. UNCHANGED Hand(k)  BY <1>1, <1>3 DEF Hand
<1>8. Places(k, r)'  BY <1>4, <1>7, PlacesFrame
<1>9. Bits(k, r) /\ Len(r[p]) = 1  BY <1>1, <1>2 DEF Good, Facts
<1>10. p \in Full(r)
  <2>1. Len(<<>>) = 0  OBVIOUS
  <2> QED  BY <1>9, <2>1 DEF Full
<1>11. Late(k, r) = {p} /\ Stale(k, r) = {}  BY <1>1, <1>2, <1>9 DEF Late, Stale
<1>12. Late(k, r)' = {} /\ Stale(k, r)' = {}  BY <1>3 DEF Late, Stale
<1>13. sub' = Full(r)  BY <1>4, <1>9, <1>10, <1>11 DEF Bits
<1>14. map = Words(k) \cup {Ring!Word(p)}  BY <1>1, <1>2, <1>9 DEF Bits
<1>15. map' = Words(k)'  BY <1>4, <1>14 DEF Words, Ring!Word
<1>16. Bits(k, r)'  BY <1>3, <1>12, <1>13, <1>15 DEF Bits
<1>17. Facts(k, r)'  BY <1>3 DEF Facts
<1> QED  BY <1>5, <1>6, <1>8, <1>16, <1>17 DEF Alone, Good

\* _ReadyTableSeek gives the header of the most urgent ring.
LEMMA SeekStep ==
    ASSUME NEW k, NEW r, Alone(k, r), Ring!Seek(k)
    PROVE  Alone(k, r)'
<1> USE Kinds
<1>1. rat[k] \in {"seek", "take"}  BY DEF Ring!Seek
<1>2. Bits(k, r) /\ Facts(k, r) /\ Closed(k, r) /\ Places(k, r)  BY DEF Good
<1>3. PICK p \in Full(r) : p = pri[k] /\ \A q \in Full(r) : p <= q  BY <1>1, <1>2 DEF Facts
<1>4. p \in Ring!Prio /\ r[p] # <<>> /\ r[p] \in Seq(Thread)  BY DEF Full, RT
<1>5. 1 \in 1 .. Len(r[p]) /\ r[p][1] \in Thread  BY <1>4
<1>6. hdr[p] = r[p][1] /\ PrioOf[r[p][1]] = p  BY <1>2, <1>4, <1>5 DEF Closed, Places
<1>7. /\ rat'[k] = "del" /\ thr'[k] = r[p][1]
      /\ UNCHANGED <<hdr, next, prev, map, sub, init, out, lock, pri, old>>
  BY <1>3, <1>6 DEF Ring!Seek, Ring!TypeOK, Ring!links, Ring!bits
<1>8. Ring!TypeOK'  BY <1>5, <1>7 DEF Ring!Seek, Ring!TypeOK, Ring!Taking, Ring!Node
<1>9. Closed(k, r)' /\ Moved(k, r[pri[k]])' /\ Apart(k, r)'  BY <1>1, <1>7, LinksFrame DEF Still
<1>10. UNCHANGED Hand(k)  BY <1>1, <1>7 DEF Hand
<1>11. Places(k, r)'  BY <1>7, <1>10, PlacesFrame
<1>12. Bits(k, r)'  BY <1>1, <1>7, BitsFrame
<1>13. Facts(k, r)'  BY <1>3, <1>5, <1>6, <1>7 DEF Facts
<1> QED  BY <1>8, <1>9, <1>11, <1>12, <1>13 DEF Alone, Good

\* The end of taking a thread.
LEMMA TakenStep ==
    ASSUME NEW k, NEW r, Alone(k, r), Ring!Taken(k), UNCHANGED <<hdr, next, prev, sub>>,
           rat[k] \in {"empty", "test", "clrmap"}, sub = Full(r), map' = Words(k)
    PROVE  Alone(k, r)'
<1> USE Kinds
<1>1. /\ rat'[k] = "idle" /\ thr'[k] = Null /\ out' = out \cup {thr[k]} /\ init' = init
      /\ thr[k] \in Thread
  BY EndFacts, Busy DEF Ring!Taken
<1>2. map' \subseteq {Ring!Word(p) : p \in Ring!Prio}  BY DEF Words, Full
<1>3. Ring!TypeOK'  BY <1>1, <1>2, EndFacts DEF Ring!Taken, Ring!TypeOK, Ring!Node, Ring!Word
<1>4. Closed(k, r)' /\ Moved(k, r[pri[k]])' /\ Apart(k, r)'  BY <1>1, LinksFrame DEF Still
<1>5. Hand(k) = {thr[k]} /\ Hand(k)' = {}  BY <1>1 DEF Hand
<1>6. Places(k, r)'  BY <1>1, <1>5 DEF Good, Places
<1>7. Late(k, r)' = {} /\ Stale(k, r)' = {}  BY <1>1 DEF Late, Stale
<1>8. Words(k)' = Words(k)  BY DEF Words, Ring!Word
<1>9. Bits(k, r)'  BY <1>1, <1>7, <1>8 DEF Bits
<1>10. Facts(k, r)'  BY <1>1 DEF Facts
<1> QED  BY <1>3, <1>4, <1>6, <1>9, <1>10 DEF Alone, Good

\* _BitmapDel is for a ring that is empty.
LEMMA EmptyStep ==
    ASSUME NEW k, NEW r, Alone(k, r), Ring!Empty(k)
    PROVE  Alone(k, r)'
<1> USE Kinds
<1>1. rat[k] = "empty"  BY DEF Ring!Empty
<1>2. PICK p \in Ring!Prio : p = pri[k]  BY <1>1, Busy
<1>3. UNCHANGED <<hdr, next, prev, map, sub>>  BY DEF Ring!Empty, Ring!links, Ring!bits
<1>4. Bits(k, r) /\ Facts(k, r)  BY DEF Good
<1>5. Late(k, r) = {} /\ Stale(k, r) = {p}  BY <1>1, <1>2 DEF Late, Stale
<1>6. map = Words(k)  BY <1>1, <1>4 DEF Bits
<1>7. hdr[p] = IF r[p] = <<>> THEN Null ELSE r[p][1]  BY DEF Good, Closed
<1>8. r[p] # <<>> => r[p][1] # Null  BY DEF RT
<1>9. CASE r[p] = <<>>
  <2>1. "clrsub" \in Ring!Taking  BY DEF Ring!Taking
  <2>2. Ring!Step(k, "empty", "clrsub")  BY <1>2, <1>7, <1>9 DEF Ring!Empty
  <2>3. /\ rat'[k] = "clrsub" /\ UNCHANGED <<init, out, lock, thr, pri, old>>
        /\ rat' \in [CPU -> {"idle", "lost"} \cup Ring!Adding \cup Ring!Taking]
    BY <2>1, <2>2, StepFacts
  <2>4. Ring!TypeOK'  BY <1>3, <2>3 DEF Ring!TypeOK, Ring!Node
  <2>5. Closed(k, r)' /\ Moved(k, r[pri[k]])' /\ Apart(k, r)'
    BY <1>1, <1>3, <2>3, LinksFrame DEF Still
  <2>6. UNCHANGED Hand(k)  BY <1>1, <2>3 DEF Hand
  <2>7. Places(k, r)'  BY <2>3, <2>6, PlacesFrame
  <2>8. UNCHANGED <<Late(k, r), Stale(k, r)>>  BY <1>1, <2>3 DEF Late, Stale
  <2>9. Bits(k, r)'  BY <1>1, <1>3, <1>4, <2>3, <2>8 DEF Bits, Words, Ring!Word
  <2>10. Facts(k, r)'  BY <1>1, <1>2, <1>4, <1>9, <2>3 DEF Facts
  <2> QED  BY <2>4, <2>5, <2>7, <2>9, <2>10 DEF Alone, Good
<1>10. CASE r[p] # <<>>
  <2>1. Ring!Taken(k)  BY <1>2, <1>7, <1>8, <1>10 DEF Ring!Empty
  <2>2. p \in Full(r)  BY <1>10 DEF Full
  <2>3. sub = Full(r)  BY <1>4, <1>5, <2>2 DEF Bits
  <2> QED  BY <1>1, <1>3, <1>6, <2>1, <2>3, TakenStep
<1> QED  BY <1>9, <1>10

\* _BitmapDel clears the bit of the priority ...
LEMMA ClrSubStep ==
    ASSUME NEW k, NEW r, Alone(k, r), Ring!ClrSub(k)
    PROVE  Alone(k, r)'
<1> USE Kinds
<1>1. "test" \in Ring!Taking  BY DEF Ring!Taking
<1>2. /\ rat[k] = "clrsub" /\ rat'[k] = "test" /\ UNCHANGED <<init, out, lock, thr, pri, old>>
      /\ rat' \in [CPU -> {"idle", "lost"} \cup Ring!Adding \cup Ring!Taking]
  BY <1>1, StepFacts DEF Ring!ClrSub
<1>3. PICK p \in Ring!Prio : p = pri[k]  BY <1>2, Busy
<1>4. sub' = sub \ {p} /\ UNCHANGED <<hdr, next, prev, map>>
  BY <1>3 DEF Ring!ClrSub, Ring!links
<1>5. Ring!TypeOK'  BY <1>2, <1>4 DEF Ring!TypeOK, Ring!Node, Ring!Word
<1>6. Closed(k, r)' /\ Moved(k, r[pri[k]])' /\ Apart(k, r)'
  BY <1>2, <1>4, LinksFrame DEF Still
<1>7. UNCHANGED Hand(k)  BY <1>2 DEF Hand
<1>8. Places(k, r)'  BY <1>2, <1>7, PlacesFrame
<1>9. Bits(k, r) /\ Facts(k, r) /\ r[p] = <<>>  BY <1>2, <1>3 DEF Good, Facts
<1>10. Late(k, r) = {} /\ Stale(k, r) = {p}  BY <1>2, <1>3 DEF Late, Stale
<1>11. Late(k, r)' = {} /\ Stale(k, r)' = {}  BY <1>2 DEF Late, Stale
<1>12. p \notin Full(r)  BY <1>9 DEF Full
<1>13. sub' = Full(r) /\ sub = sub' \cup {p}  BY <1>4, <1>9, <1>10, <1>12 DEF Bits
<1>14. map = Words(k)  BY <1>2, <1>9 DEF Bits
<1>15. Words(k) = Words(k)' \cup {Ring!Word(p)}  BY <1>13 DEF Words, Ring!Word
<1>16. Bits(k, r)'  BY <1>2, <1>3, <1>4, <1>11, <1>13, <1>14, <1>15 DEF Bits, Ring!Word
<1>17. Facts(k, r)'  BY <1>2, <1>9 DEF Facts
<1> QED  BY <1>5, <1>6, <1>8, <1>16, <1>17 DEF Alone, Good

\* ... and that of its word, if no priority of the word has one.
LEMMA TestStep ==
    ASSUME NEW k, NEW r, Alone(k, r), Ring!Test(k)
    PROVE  Alone(k, r)'
<1> USE Kinds
<1>1. rat[k] = "test"  BY DEF Ring!Test
<1>2. PICK p \in Ring!Prio : p = pri[k]  BY <1>1, Busy
<1>3. UNCHANGED <<hdr, next, prev, map, sub>>  BY DEF Ring!Test, Ring!links, Ring!bits
<1>4. Bits(k, r) /\ Facts(k, r)  BY DEF Good
<1>5. Late(k, r) = {} /\ Stale(k, r) = {}  BY <1>1 DEF Late, Stale
<1>6. map = Words(k) \cup {Ring!Word(p)}  BY <1>1, <1>2, <1>4 DEF Bits
<1>7. Ring!WordEmpty(Ring!Word(p)) <=> Ring!Word(p) \notin Words(k)
  BY DEF Ring!WordEmpty, Words
<1>8. CASE Ring!Word(p) \notin Words(k)
  <2>1. "clrmap" \in Ring!Taking  BY DEF Ring!Taking
  <2>2. Ring!Step(k, "test", "clrmap")  BY <1>2, <1>7, <1>8 DEF Ring!Test
  <2>3. /\ rat'[k] = "clrmap" /\ UNCHANGED <<init, out, lock, thr, pri, old>>
        /\ rat' \in [CPU -> {"idle", "lost"} \cup Ring!Adding \cup Ring!Taking]
    BY <2>1, <2>2, StepFacts
  <2>4. Ring!TypeOK'  BY <1>3, <2>3 DEF Ring!TypeOK, Ring!Node
  <2>5. Closed(k, r)' /\ Moved(k, r[pri[k]])' /\ Apart(k, r)'
    BY <1>1, <1>3, <2>3, LinksFrame DEF Still
  <2>6. UNCHANGED Hand(k)  BY <1>1, <2>3 DEF Hand
  <2>7. Places(k, r)'  BY <2>3, <2>6, PlacesFrame
  <2>8. UNCHANGED <<Late(k, r), Stale(k, r)>>  BY <1>1, <2>3 DEF Late, Stale
  <2>9. Bits(k, r)'  BY <1>1, <1>3, <1>4, <2>3, <2>8 DEF Bits, Words, Ring!Word
  <2>10. Words(k)' = Words(k)  BY <1>3 DEF Words, Ring!Word
  <2>11. Facts(k, r)'  BY <1>1, <1>2, <1>4, <1>8, <2>3, <2>10 DEF Facts, Ring!Word
  <2> QED  BY <2>4, <2>5, <2>7, <2>9, <2>11 DEF Alone, Good
<1>9. CASE Ring!Word(p) \in Words(k)
  <2>1. Ring!Taken(k)  BY <1>2, <1>7, <1>9 DEF Ring!Test
  <2>2. sub = Full(r)  BY <1>4, <1>5 DEF Bits
  <2> QED  BY <1>1, <1>3, <1>6, <1>9, <2>1, <2>2, TakenStep
<1> QED  BY <1>8, <1>9

\* The bit of a word without a priority goes.
LEMMA ClrMapStep ==
    ASSUME NEW k, NEW r, Alone(k, r), Ring!ClrMap(k)
    PROVE  Alone(k, r)'
<1> USE Kinds
<1>1. rat[k] = "clrmap"  BY DEF Ring!ClrMap
<1>2. PICK p \in Ring!Prio : p = pri[k]  BY <1>1, Busy
<1>3. Bits(k, r) /\ Ring!Word(p) \notin Words(k)  BY <1>1, <1>2 DEF Good, Facts
<1>4. Late(k, r) = {} /\ Stale(k, r) = {}  BY <1>1 DEF Late, Stale
<1>5. map = Words(k) \cup {Ring!Word(p)} /\ sub = Full(r)  BY <1>1, <1>2, <1>3, <1>4 DEF Bits
<1>6. map' = map \ {Ring!Word(p)}  BY <1>2 DEF Ring!ClrMap
<1>7. map' = Words(k)  BY <1>3, <1>5, <1>6
<1>8. Ring!Taken(k) /\ UNCHANGED <<hdr, next, prev, sub>>  BY DEF Ring!ClrMap, Ring!links
<1> QED  BY <1>1, <1>5, <1>7, <1>8, TakenStep

\* Who is in hand is in no ring, and the ring of its priority is not closed over it.
LEMMA InHand ==
    ASSUME NEW k, NEW r, Alone(k, r), Hand(k) = {thr[k]}
    PROVE  \A p \in Ring!Prio : \A i \in 1 .. Len(r[p]) : r[p][i] # thr[k]
  BY Kinds DEF Good, Places

\* The writes of _List_Ring_Add_Ahead and _List_Ring_Del: what is the same before and after.
LEMMA LinkFrame ==
    ASSUME NEW k, NEW r, Alone(k, r), NEW a, NEW b \in Ring!Adding \cup Ring!Taking,
           Ring!Step(k, a, b), UNCHANGED <<map, sub>>,
           \/ a \in {"link", "left", "right", "self"} /\ b \in {"left", "right", "head"}
           \/ a = "unlink" /\ b = "join"
           \/ a = "join" /\ b = "empty"
    PROVE  /\ rat[k] = a /\ rat'[k] = b /\ UNCHANGED <<init, out, lock, thr, pri, old>>
           /\ rat' \in [CPU -> {"idle", "lost"} \cup Ring!Adding \cup Ring!Taking]
           /\ Hand(k) = {thr[k]} /\ Places(k, r)' /\ Bits(k, r)'
<1> USE Kinds
<1>1. /\ rat[k] = a /\ rat'[k] = b /\ UNCHANGED <<init, out, lock, thr, pri, old>>
      /\ rat' \in [CPU -> {"idle", "lost"} \cup Ring!Adding \cup Ring!Taking]
  BY StepFacts
<1>2. Hand(k) = {thr[k]} /\ Hand(k)' = {thr[k]}  BY <1>1 DEF Hand
<1>3. Places(k, r)'  BY <1>1, <1>2, PlacesFrame
<1>4. UNCHANGED <<Late(k, r), Stale(k, r)>>
  BY <1>1 DEF Late, Stale
<1>5. Bits(k, r)'
  <2>1. Bits(k, r)  BY DEF Good
  <2> QED  BY <1>1, <1>4, <2>1 DEF Bits, Words, Ring!Word
<1> QED  BY <1>1, <1>2, <1>3, <1>5

\* The new thread points to its neighbours ...
LEMMA LinkStep ==
    ASSUME NEW k, NEW r, Alone(k, r), Ring!Link(k)
    PROVE  Alone(k, r)'
<1> USE Kinds
<1>1. "left" \in Ring!Adding  BY DEF Ring!Adding
<1>2. /\ rat[k] = "link" /\ rat'[k] = "left" /\ UNCHANGED <<init, out, lock, thr, pri, old>>
      /\ rat' \in [CPU -> {"idle", "lost"} \cup Ring!Adding \cup Ring!Taking]
      /\ Hand(k) = {thr[k]} /\ Places(k, r)' /\ Bits(k, r)'
  BY <1>1, LinkFrame DEF Ring!Link, Ring!bits
<1>3. Places(k, r) /\ Closed(k, r) /\ Apart(k, r) /\ Facts(k, r)  BY DEF Good
<1>4. PICK t \in Thread : t = thr[k]  BY <1>2, Busy
<1>5. PICK p \in Ring!Prio : p = pri[k] /\ p = PrioOf[t]  BY <1>2, <1>4, Busy
<1>6. PICK q \in Seq(Thread) : q = r[p]  BY DEF RT
<1>7. q # <<>> /\ old[k] = q[1] /\ 1 \in 1 .. Len(q) /\ Len(q) \in 1 .. Len(q)
  BY <1>2, <1>3, <1>5, <1>6 DEF Facts
<1>8. prev[q[1]] = q[Len(q)] /\ q[1] \in Thread /\ q[Len(q)] \in Thread
  <2>1. PrevGap(k) = Null /\ p # Null  BY <1>2 DEF PrevGap
  <2> QED  BY <1>3, <1>6, <1>7, <2>1 DEF Closed
<1>9. /\ next' = [next EXCEPT ![t] = q[1]] /\ prev' = [prev EXCEPT ![t] = q[Len(q)]]
      /\ UNCHANGED <<hdr, map, sub>>
  BY <1>4, <1>7, <1>8 DEF Ring!Link, Ring!bits
<1>10. Ring!TypeOK'  BY <1>2, <1>8, <1>9 DEF Ring!TypeOK, Ring!Node
<1>11. \A s \in Ring!Prio : \A i \in 1 .. Len(r[s]) : r[s][i] # t  BY <1>2, <1>4, InHand
<1>12. NextGap(k) = Null /\ PrevGap(k) = Null /\ Loose(k) = Null
  BY <1>2 DEF NextGap, PrevGap, Loose
<1>13. NextGap(k)' = Null /\ PrevGap(k)' = Null /\ Loose(k)' = t
  BY <1>2, <1>4 DEF NextGap, PrevGap, Loose
<1>14. Closed(k, r)'  BY <1>2, <1>3, <1>9, <1>11, <1>12, <1>13 DEF Closed
<1>15. Moved(k, r[pri[k]])'
  BY <1>2, <1>4, <1>5, <1>6, <1>7, <1>9 DEF Moved, Ring!TypeOK, Ring!Node
<1>16. Apart(k, r)'  BY <1>3, <1>9, <1>12, <1>13 DEF Apart
<1>17. Facts(k, r)'  BY <1>2, <1>3 DEF Facts
<1> QED  BY <1>2, <1>10, <1>14, <1>15, <1>16, <1>17 DEF Alone, Good

\* ... the last of the ring points to it ...
LEMMA LeftStep ==
    ASSUME NEW k, NEW r, Alone(k, r), Ring!Left(k)
    PROVE  Alone(k, r)'
<1> USE Kinds
<1>1. "right" \in Ring!Adding  BY DEF Ring!Adding
<1>2. /\ rat[k] = "left" /\ rat'[k] = "right" /\ UNCHANGED <<init, out, lock, thr, pri, old>>
      /\ rat' \in [CPU -> {"idle", "lost"} \cup Ring!Adding \cup Ring!Taking]
      /\ Hand(k) = {thr[k]} /\ Places(k, r)' /\ Bits(k, r)'
  BY <1>1, LinkFrame DEF Ring!Left, Ring!bits
<1>3. Places(k, r) /\ Closed(k, r) /\ Moved(k, r[pri[k]]) /\ Apart(k, r) /\ Facts(k, r)  BY DEF Good
<1>4. PICK t \in Thread : t = thr[k]  BY <1>2, Busy
<1>5. PICK p \in Ring!Prio : p = pri[k] /\ p = PrioOf[t]  BY <1>2, <1>4, Busy
<1>6. PICK q \in Seq(Thread) : q = r[p]  BY DEF RT
<1>7. q # <<>> /\ old[k] = q[1] /\ 1 \in 1 .. Len(q) /\ Len(q) \in 1 .. Len(q)
  BY <1>2, <1>3, <1>5, <1>6 DEF Facts
<1>8. prev[q[1]] = q[Len(q)] /\ q[1] \in Thread /\ q[Len(q)] \in Thread
  <2>1. PrevGap(k) = Null /\ p # Null  BY <1>2 DEF PrevGap
  <2> QED  BY <1>3, <1>6, <1>7, <2>1 DEF Closed
<1>9. next' = [next EXCEPT ![q[Len(q)]] = t] /\ UNCHANGED <<hdr, prev, map, sub>>
  BY <1>4, <1>7, <1>8 DEF Ring!Left, Ring!bits
<1>10. Ring!TypeOK'  BY <1>2, <1>8, <1>9 DEF Ring!TypeOK, Ring!Node
<1>11. \A s \in Ring!Prio : \A i \in 1 .. Len(r[s]) : r[s][i] # t  BY <1>2, <1>4, InHand
<1>12. NextGap(k) = Null /\ PrevGap(k) = Null /\ Loose(k) = t
  BY <1>2, <1>4 DEF NextGap, PrevGap, Loose
<1>13. NextGap(k)' = p /\ PrevGap(k)' = Null /\ Loose(k)' = t /\ thr'[k] = t
  BY <1>2, <1>4, <1>5 DEF NextGap, PrevGap, Loose
<1>14. \A s \in Ring!Prio : \A i \in 1 .. Len(r[s]) :
           r[s][i] \in Thread /\ (r[s][i] = q[Len(q)] <=> s = p /\ i = Len(q))
  BY <1>3, <1>6, <1>7 DEF Places, Once, RT
<1>15. Closed(k, r)'
  <2> SUFFICES ASSUME NEW s \in Ring!Prio
               PROVE  /\ hdr'[s] = IF r[s] = <<>> THEN Null ELSE r[s][1]
                      /\ \A i \in 1 .. Len(r[s]) :
                          /\ next'[r[s][i]] = IF i < Len(r[s]) THEN r[s][i + 1]
                                              ELSE IF s = p THEN t ELSE r[s][1]
                          /\ prev'[r[s][i]] = IF i > 1 THEN r[s][i - 1] ELSE r[s][Len(r[s])]
    BY <1>13 DEF Closed
  <2> QED  BY <1>3, <1>6, <1>9, <1>12, <1>14 DEF Closed, Ring!TypeOK, Ring!Node
<1>16. q[Len(q)] # t /\ q[Len(q)] \in On(r[PrioOf[q[Len(q)]]])
  BY <1>3, <1>6, <1>7, <1>11 DEF On, Places
<1>17. Moved(k, r[pri[k]])'
  BY <1>2, <1>3, <1>4, <1>9, <1>12, <1>13, <1>16 DEF Moved, Ring!TypeOK, Ring!Node
<1>18. Apart(k, r)'  BY <1>3, <1>9, <1>12, <1>13, <1>16 DEF Apart
<1>19. Facts(k, r)'  BY <1>2, <1>3 DEF Facts
<1> QED  BY <1>2, <1>10, <1>15, <1>17, <1>18, <1>19 DEF Alone, Good

\* ... and the header back to it.
LEMMA RightStep ==
    ASSUME NEW k, NEW r, Alone(k, r), Ring!Right(k)
    PROVE  Alone(k, r)'
<1> USE Kinds
<1>1. "head" \in Ring!Adding  BY DEF Ring!Adding
<1>2. /\ rat[k] = "right" /\ rat'[k] = "head" /\ UNCHANGED <<init, out, lock, thr, pri, old>>
      /\ rat' \in [CPU -> {"idle", "lost"} \cup Ring!Adding \cup Ring!Taking]
      /\ Hand(k) = {thr[k]} /\ Places(k, r)' /\ Bits(k, r)'
  BY <1>1, LinkFrame DEF Ring!Right, Ring!bits
<1>3. Places(k, r) /\ Closed(k, r) /\ Moved(k, r[pri[k]]) /\ Apart(k, r) /\ Facts(k, r)  BY DEF Good
<1>4. PICK t \in Thread : t = thr[k]  BY <1>2, Busy
<1>5. PICK p \in Ring!Prio : p = pri[k] /\ p = PrioOf[t]  BY <1>2, <1>4, Busy
<1>6. PICK q \in Seq(Thread) : q = r[p]  BY DEF RT
<1>7. q # <<>> /\ old[k] = q[1] /\ 1 \in 1 .. Len(q) /\ q[1] \in Thread
  BY <1>2, <1>3, <1>5, <1>6 DEF Facts
<1>8. prev' = [prev EXCEPT ![q[1]] = t] /\ UNCHANGED <<hdr, next, map, sub>>
  BY <1>4, <1>7 DEF Ring!Right, Ring!bits
<1>9. Ring!TypeOK'  BY <1>2, <1>8 DEF Ring!TypeOK, Ring!Node
<1>10. \A s \in Ring!Prio : \A i \in 1 .. Len(r[s]) : r[s][i] # t  BY <1>2, <1>4, InHand
<1>11. NextGap(k) = p /\ PrevGap(k) = Null /\ Loose(k) = t
  BY <1>2, <1>4, <1>5 DEF NextGap, PrevGap, Loose
<1>12. NextGap(k)' = p /\ PrevGap(k)' = p /\ Loose(k)' = t /\ thr'[k] = t
  BY <1>2, <1>4, <1>5 DEF NextGap, PrevGap, Loose
<1>13. \A s \in Ring!Prio : \A i \in 1 .. Len(r[s]) :
           r[s][i] \in Thread /\ (r[s][i] = q[1] <=> s = p /\ i = 1)
  BY <1>3, <1>6, <1>7 DEF Places, Once, RT
<1>14. Closed(k, r)'
  <2> SUFFICES ASSUME NEW s \in Ring!Prio
               PROVE  /\ hdr'[s] = IF r[s] = <<>> THEN Null ELSE r[s][1]
                      /\ \A i \in 1 .. Len(r[s]) :
                          /\ next'[r[s][i]] = IF i < Len(r[s]) THEN r[s][i + 1]
                                              ELSE IF s = p THEN t ELSE r[s][1]
                          /\ prev'[r[s][i]] = IF i > 1 THEN r[s][i - 1]
                                              ELSE IF s = p THEN t ELSE r[s][Len(r[s])]
    BY <1>12 DEF Closed
  <2>1. hdr'[s] = IF r[s] = <<>> THEN Null ELSE r[s][1]  BY <1>3, <1>8 DEF Closed
  <2>2. ASSUME NEW i \in 1 .. Len(r[s])
        PROVE  next'[r[s][i]] = IF i < Len(r[s]) THEN r[s][i + 1] ELSE IF s = p THEN t ELSE r[s][1]
    BY <1>3, <1>4, <1>8, <1>11 DEF Closed
  <2>3. ASSUME NEW i \in 1 .. Len(r[s])
        PROVE  prev'[r[s][i]] = IF i > 1 THEN r[s][i - 1] ELSE IF s = p THEN t ELSE r[s][Len(r[s])]
    <3>1. i > 1 \/ i = 1  OBVIOUS
    <3>2. prev[r[s][i]] = IF i > 1 THEN r[s][i - 1] ELSE r[s][Len(r[s])]  BY <1>3, <1>11 DEF Closed
    <3> QED  BY <1>6, <1>8, <1>13, <3>1, <3>2 DEF Ring!TypeOK, Ring!Node
  <2> QED  BY <2>1, <2>2, <2>3
<1>15. q[1] # t /\ q[1] \in On(r[PrioOf[q[1]]])
  BY <1>3, <1>6, <1>7, <1>10 DEF On, Places
<1>16. Moved(k, r[pri[k]])'
  BY <1>2, <1>3, <1>4, <1>8, <1>11, <1>12, <1>15 DEF Moved, Ring!TypeOK, Ring!Node
<1>17. Apart(k, r)'  BY <1>3, <1>8, <1>11, <1>12, <1>15 DEF Apart
<1>18. Facts(k, r)'  BY <1>2, <1>3 DEF Facts
<1> QED  BY <1>2, <1>9, <1>14, <1>16, <1>17, <1>18 DEF Alone, Good

\* The first of a ring points to itself.
LEMMA SelfStep ==
    ASSUME NEW k, NEW r, Alone(k, r), Ring!Self(k)
    PROVE  Alone(k, r)'
<1> USE Kinds
<1>1. "head" \in Ring!Adding  BY DEF Ring!Adding
<1>2. /\ rat[k] = "self" /\ rat'[k] = "head" /\ UNCHANGED <<init, out, lock, thr, pri, old>>
      /\ rat' \in [CPU -> {"idle", "lost"} \cup Ring!Adding \cup Ring!Taking]
      /\ Hand(k) = {thr[k]} /\ Places(k, r)' /\ Bits(k, r)'
  BY <1>1, LinkFrame DEF Ring!Self, Ring!bits
<1>3. Places(k, r) /\ Closed(k, r) /\ Apart(k, r) /\ Facts(k, r)  BY DEF Good
<1>4. PICK t \in Thread : t = thr[k]  BY <1>2, Busy
<1>5. PICK p \in Ring!Prio : p = pri[k] /\ p = PrioOf[t]  BY <1>2, <1>4, Busy
<1>6. r[p] = <<>>  BY <1>2, <1>3, <1>5 DEF Facts
<1>7. /\ next' = [next EXCEPT ![t] = t] /\ prev' = [prev EXCEPT ![t] = t]
      /\ UNCHANGED <<hdr, map, sub>>
  BY <1>4 DEF Ring!Self, Ring!bits
<1>8. Ring!TypeOK'  BY <1>2, <1>7 DEF Ring!TypeOK, Ring!Node
<1>9. \A s \in Ring!Prio : \A i \in 1 .. Len(r[s]) : r[s][i] # t  BY <1>2, <1>4, InHand
<1>10. NextGap(k) = Null /\ PrevGap(k) = Null /\ Loose(k) = Null
  BY <1>2 DEF NextGap, PrevGap, Loose
<1>11. NextGap(k)' = p /\ PrevGap(k)' = p /\ Loose(k)' = t /\ thr'[k] = t
  BY <1>2, <1>4, <1>5 DEF NextGap, PrevGap, Loose
<1>12. Closed(k, r)'
  <2> SUFFICES ASSUME NEW s \in Ring!Prio
               PROVE  /\ hdr'[s] = IF r[s] = <<>> THEN Null ELSE r[s][1]
                      /\ \A i \in 1 .. Len(r[s]) :
                          /\ next'[r[s][i]] = IF i < Len(r[s]) THEN r[s][i + 1]
                                              ELSE IF p = s THEN t ELSE r[s][1]
                          /\ prev'[r[s][i]] = IF i > 1 THEN r[s][i - 1]
                                              ELSE IF p = s THEN t ELSE r[s][Len(r[s])]
    BY <1>11 DEF Closed
  <2>1. Len(<<>>) = 0  OBVIOUS
  <2>2. hdr'[s] = IF r[s] = <<>> THEN Null ELSE r[s][1]  BY <1>3, <1>7 DEF Closed
  <2>3. ASSUME NEW i \in 1 .. Len(r[s])
        PROVE  /\ next'[r[s][i]] = IF i < Len(r[s]) THEN r[s][i + 1] ELSE r[s][1]
               /\ prev'[r[s][i]] = IF i > 1 THEN r[s][i - 1] ELSE r[s][Len(r[s])]
    BY <1>3, <1>7, <1>9, <1>10 DEF Closed
  <2>4. p = s => 1 .. Len(r[s]) = {}  BY <1>6, <2>1
  <2> QED  BY <2>2, <2>3, <2>4
<1>13. Moved(k, r[pri[k]])'
  BY <1>2, <1>4, <1>5, <1>6, <1>7 DEF Moved, Ring!TypeOK, Ring!Node
<1>14. Apart(k, r)'  BY <1>3, <1>7, <1>10, <1>11 DEF Apart
<1>15. Facts(k, r)'  BY <1>2, <1>4, <1>5 DEF Facts
<1> QED  BY <1>2, <1>8, <1>12, <1>13, <1>14, <1>15 DEF Alone, Good

\* _List_Ring_Del: the last of the ring passes the thread over ...
LEMMA UnlinkStep ==
    ASSUME NEW k, NEW r, Alone(k, r), Ring!Unlink(k)
    PROVE  Alone(k, r)'
<1> USE Kinds
<1>1. "join" \in Ring!Taking  BY DEF Ring!Taking
<1>2. /\ rat[k] = "unlink" /\ rat'[k] = "join" /\ UNCHANGED <<init, out, lock, thr, pri, old>>
      /\ rat' \in [CPU -> {"idle", "lost"} \cup Ring!Adding \cup Ring!Taking]
      /\ Hand(k) = {thr[k]} /\ Places(k, r)' /\ Bits(k, r)'
  BY <1>1, LinkFrame DEF Ring!Unlink, Ring!bits
<1>3. Places(k, r) /\ Closed(k, r) /\ Moved(k, r[pri[k]]) /\ Apart(k, r) /\ Facts(k, r)  BY DEF Good
<1>4. PICK t \in Thread : t = thr[k]  BY <1>2, Busy
<1>5. PICK p \in Ring!Prio : p = pri[k] /\ p = PrioOf[t]  BY <1>2, <1>4, Busy
<1>6. PICK q \in Seq(Thread) : q = r[p]  BY DEF RT
<1>7. q # <<>> /\ 1 \in 1 .. Len(q) /\ Len(q) \in 1 .. Len(q) /\ q[1] \in Thread /\ q[Len(q)] \in Thread
  BY <1>2, <1>3, <1>5, <1>6 DEF Facts
<1>8. NextGap(k) = p /\ PrevGap(k) = p /\ Loose(k) = t
  BY <1>2, <1>4, <1>5 DEF NextGap, PrevGap, Loose
<1>9. NextGap(k)' = Null /\ PrevGap(k)' = p /\ Loose(k)' = t /\ thr'[k] = t
  BY <1>2, <1>4, <1>5 DEF NextGap, PrevGap, Loose
<1>10. next[t] = q[1] /\ prev[t] = q[Len(q)]  BY <1>3, <1>4, <1>5, <1>6, <1>7, <1>8 DEF Moved
<1>11. next' = [next EXCEPT ![q[Len(q)]] = q[1]] /\ UNCHANGED <<hdr, prev, map, sub>>
  BY <1>4, <1>10 DEF Ring!Unlink, Ring!bits
<1>12. Ring!TypeOK'  BY <1>2, <1>7, <1>11 DEF Ring!TypeOK, Ring!Node
<1>13. \A s \in Ring!Prio : \A i \in 1 .. Len(r[s]) : r[s][i] # t  BY <1>2, <1>4, InHand
<1>14. \A s \in Ring!Prio : \A i \in 1 .. Len(r[s]) :
           r[s][i] \in Thread /\ (r[s][i] = q[Len(q)] <=> s = p /\ i = Len(q))
  BY <1>3, <1>6, <1>7 DEF Places, Once, RT
<1>15. Closed(k, r)'
  <2> SUFFICES ASSUME NEW s \in Ring!Prio
               PROVE  /\ hdr'[s] = IF r[s] = <<>> THEN Null ELSE r[s][1]
                      /\ \A i \in 1 .. Len(r[s]) :
                          /\ next'[r[s][i]] = IF i < Len(r[s]) THEN r[s][i + 1] ELSE r[s][1]
                          /\ prev'[r[s][i]] = IF i > 1 THEN r[s][i - 1]
                                              ELSE IF p = s THEN t ELSE r[s][Len(r[s])]
    BY <1>9 DEF Closed
  <2>1. hdr'[s] = IF r[s] = <<>> THEN Null ELSE r[s][1]  BY <1>3, <1>11 DEF Closed
  <2>2. ASSUME NEW i \in 1 .. Len(r[s])
        PROVE  next'[r[s][i]] = IF i < Len(r[s]) THEN r[s][i + 1] ELSE r[s][1]
    <3>1. next[r[s][i]] = IF i < Len(r[s]) THEN r[s][i + 1] ELSE IF p = s THEN t ELSE r[s][1]
      BY <1>3, <1>4, <1>8 DEF Closed
    <3>2. Len(r[s]) \in Nat  BY DEF RT
    <3>3. CASE p = s /\ i = Len(r[s])
      BY <1>6, <1>11, <1>14, <3>2, <3>3 DEF Ring!TypeOK, Ring!Node
    <3>4. CASE ~(p = s /\ i = Len(r[s]))
      <4>1. r[s][i] # q[Len(q)]  BY <1>6, <1>14, <3>4
      <4>2. next'[r[s][i]] = next[r[s][i]]  BY <1>11, <4>1
      <4>3. i < Len(r[s]) \/ p # s  BY <3>2, <3>4
      <4> QED  BY <3>1, <4>2, <4>3
    <3> QED  BY <3>3, <3>4
  <2>3. ASSUME NEW i \in 1 .. Len(r[s])
        PROVE  prev'[r[s][i]] = IF i > 1 THEN r[s][i - 1] ELSE IF p = s THEN t ELSE r[s][Len(r[s])]
    BY <1>3, <1>4, <1>8, <1>11 DEF Closed
  <2> QED  BY <2>1, <2>2, <2>3
<1>16. q[Len(q)] # t /\ q[Len(q)] \in On(r[PrioOf[q[Len(q)]]])
  BY <1>3, <1>6, <1>7, <1>13 DEF On, Places
<1>17. Moved(k, r[pri[k]])'
  BY <1>2, <1>3, <1>4, <1>8, <1>9, <1>11, <1>16 DEF Moved, Ring!TypeOK, Ring!Node
<1>18. Apart(k, r)'  BY <1>3, <1>8, <1>9, <1>11, <1>16 DEF Apart
<1>19. Facts(k, r)'  BY <1>2, <1>3 DEF Facts
<1> QED  BY <1>2, <1>12, <1>15, <1>17, <1>18, <1>19 DEF Alone, Good

\* ... and the first too, and the thread is out.
LEMMA JoinStep ==
    ASSUME NEW k, NEW r, Alone(k, r), Ring!Join(k)
    PROVE  Alone(k, r)'
<1> USE Kinds
<1>1. "empty" \in Ring!Taking  BY DEF Ring!Taking
<1>2. /\ rat[k] = "join" /\ rat'[k] = "empty" /\ UNCHANGED <<init, out, lock, thr, pri, old>>
      /\ rat' \in [CPU -> {"idle", "lost"} \cup Ring!Adding \cup Ring!Taking]
      /\ Hand(k) = {thr[k]} /\ Places(k, r)' /\ Bits(k, r)'
  BY <1>1, LinkFrame DEF Ring!Join, Ring!bits
<1>3. Places(k, r) /\ Closed(k, r) /\ Moved(k, r[pri[k]]) /\ Apart(k, r) /\ Facts(k, r)  BY DEF Good
<1>4. PICK t \in Thread : t = thr[k]  BY <1>2, Busy
<1>5. PICK p \in Ring!Prio : p = pri[k] /\ p = PrioOf[t]  BY <1>2, <1>4, Busy
<1>6. PICK q \in Seq(Thread) : q = r[p]  BY DEF RT
<1>7. q # <<>> /\ 1 \in 1 .. Len(q) /\ Len(q) \in 1 .. Len(q) /\ q[1] \in Thread /\ q[Len(q)] \in Thread
  BY <1>2, <1>3, <1>5, <1>6 DEF Facts
<1>8. NextGap(k) = Null /\ PrevGap(k) = p /\ Loose(k) = t
  BY <1>2, <1>4, <1>5 DEF NextGap, PrevGap, Loose
<1>9. NextGap(k)' = Null /\ PrevGap(k)' = Null /\ Loose(k)' = Null
  BY <1>2 DEF NextGap, PrevGap, Loose
<1>10. next[t] = q[1] /\ prev[t] = q[Len(q)]  BY <1>3, <1>4, <1>5, <1>6, <1>7, <1>8 DEF Moved
<1>11. /\ prev' = [prev EXCEPT ![q[1]] = q[Len(q)], ![t] = Null]
       /\ next' = [next EXCEPT ![t] = Null] /\ UNCHANGED <<hdr, map, sub>>
  BY <1>4, <1>10 DEF Ring!Join, Ring!bits
<1>12. Ring!TypeOK'  BY <1>2, <1>7, <1>11 DEF Ring!TypeOK, Ring!Node
<1>13. \A s \in Ring!Prio : \A i \in 1 .. Len(r[s]) : r[s][i] # t  BY <1>2, <1>4, InHand
<1>14. \A s \in Ring!Prio : \A i \in 1 .. Len(r[s]) :
           r[s][i] \in Thread /\ (r[s][i] = q[1] <=> s = p /\ i = 1)
  BY <1>3, <1>6, <1>7 DEF Places, Once, RT
<1>15. Closed(k, r)'
  <2> SUFFICES ASSUME NEW s \in Ring!Prio
               PROVE  /\ hdr'[s] = IF r[s] = <<>> THEN Null ELSE r[s][1]
                      /\ \A i \in 1 .. Len(r[s]) :
                          /\ next'[r[s][i]] = IF i < Len(r[s]) THEN r[s][i + 1] ELSE r[s][1]
                          /\ prev'[r[s][i]] = IF i > 1 THEN r[s][i - 1] ELSE r[s][Len(r[s])]
    BY <1>9 DEF Closed
  <2>1. hdr'[s] = IF r[s] = <<>> THEN Null ELSE r[s][1]  BY <1>3, <1>11 DEF Closed
  <2>2. ASSUME NEW i \in 1 .. Len(r[s])
        PROVE  next'[r[s][i]] = IF i < Len(r[s]) THEN r[s][i + 1] ELSE r[s][1]
    BY <1>3, <1>8, <1>11, <1>13 DEF Closed
  <2>3. ASSUME NEW i \in 1 .. Len(r[s])
        PROVE  prev'[r[s][i]] = IF i > 1 THEN r[s][i - 1] ELSE r[s][Len(r[s])]
    <3>1. prev[r[s][i]] = IF i > 1 THEN r[s][i - 1] ELSE IF p = s THEN t ELSE r[s][Len(r[s])]
      BY <1>3, <1>4, <1>8 DEF Closed
    <3>2. i > 1 \/ i = 1  OBVIOUS
    <3>3. r[s][i] # t  BY <1>13
    <3>4. CASE p = s /\ i = 1
      <4>1. r[s][i] = q[1]  BY <1>14, <3>4
      <4>2. prev'[q[1]] = q[Len(q)]  BY <1>7, <1>11, <3>3, <4>1 DEF Ring!TypeOK, Ring!Node
      <4> QED  BY <1>6, <3>4, <4>1, <4>2
    <3>5. CASE ~(p = s /\ i = 1)
      <4>1. r[s][i] # q[1]  BY <1>14, <3>5
      <4>2. prev'[r[s][i]] = prev[r[s][i]]
        BY <1>11, <1>14, <3>3, <4>1 DEF Ring!TypeOK, Ring!Node
      <4> QED  BY <3>1, <3>2, <3>5, <4>2
    <3> QED  BY <3>4, <3>5
  <2> QED  BY <2>1, <2>2, <2>3
<1>16. q[1] # t /\ q[1] \in On(r[PrioOf[q[1]]])
  BY <1>3, <1>6, <1>7, <1>13 DEF On, Places
<1>17. Moved(k, r[pri[k]])'  BY <1>9 DEF Moved
<1>18. Apart(k, r)'
  BY <1>3, <1>8, <1>9, <1>11, <1>16 DEF Apart, Ring!TypeOK, Ring!Node
<1>19. Facts(k, r)'  BY <1>2, <1>4, <1>5 DEF Facts
<1> QED  BY <1>2, <1>12, <1>15, <1>17, <1>18, <1>19 DEF Alone, Good

\* The ring of p becomes q.
With(r, p, q) == [r EXCEPT ![p] = q]

\* A ring that changes leaves the others as they are.
LEMMA WithFacts ==
    ASSUME NEW r \in RT, NEW p \in Ring!Prio, NEW q \in Seq(Thread)
    PROVE  /\ With(r, p, q) \in RT /\ With(r, p, q)[p] = q
           /\ \A s \in Ring!Prio : s # p => With(r, p, q)[s] = r[s]
  BY DEF With, RT

\* What the rest of a sequence is made of.
LEMMA TailIs ==
    ASSUME NEW q \in Seq(Thread), q # <<>>
    PROVE  /\ Tail(q) \in Seq(Thread) /\ Len(Tail(q)) = Len(q) - 1 /\ Len(q) \in Nat \ {0}
           /\ \A i \in 1 .. Len(q) - 1 : Tail(q)[i] = q[i + 1]
           /\ 1 \in 1 .. Len(q) /\ Len(q) \in 1 .. Len(q) /\ q[1] \in Thread /\ Head(q) = q[1]
  OBVIOUS

\* What a sequence with a new first element is made of.
LEMMA AheadIs ==
    ASSUME NEW q \in Seq(Thread), NEW t \in Thread
    PROVE  /\ <<t>> \o q \in Seq(Thread) /\ Len(<<t>> \o q) = Len(q) + 1 /\ Len(q) \in Nat
           /\ \A i \in 1 .. Len(q) + 1 : (<<t>> \o q)[i] = IF i = 1 THEN t ELSE q[i - 1]
  OBVIOUS

\* What a sequence is made of once its first element is its last.
LEMMA RotatedIs ==
    ASSUME NEW q \in Seq(Thread), q # <<>>
    PROVE  /\ Tail(q) \o <<q[1]>> \in Seq(Thread) /\ Len(Tail(q) \o <<q[1]>>) = Len(q)
           /\ \A i \in 1 .. Len(q) :
                  (Tail(q) \o <<q[1]>>)[i] = IF i = Len(q) THEN q[1] ELSE q[i + 1]
<1>1. /\ Tail(q) \in Seq(Thread) /\ Len(Tail(q)) = Len(q) - 1 /\ Len(q) \in Nat \ {0}
      /\ \A i \in 1 .. Len(q) - 1 : Tail(q)[i] = q[i + 1]
      /\ q[1] \in Thread
  BY TailIs
<1>2. PICK u \in Seq(Thread) : u = Tail(q)  BY <1>1
<1>3. PICK n \in Nat : n = Len(u) /\ n + 1 = Len(q)
  <2>1. Len(u) \in Nat /\ Len(u) = Len(q) - 1 /\ Len(q) \in Nat  BY <1>1, <1>2
  <2>2. Len(u) + 1 = Len(q)  BY <2>1
  <2> QED  BY <2>1, <2>2
<1>4. /\ u \o <<q[1]>> \in Seq(Thread) /\ Len(u \o <<q[1]>>) = n + 1
      /\ \A i \in 1 .. n + 1 : (u \o <<q[1]>>)[i] = IF i = n + 1 THEN q[1] ELSE u[i]
  BY <1>1, <1>3
<1>5. \A i \in 1 .. n + 1 : i # n + 1 => i \in 1 .. Len(q) - 1  BY <1>3
<1> QED  BY <1>1, <1>2, <1>3, <1>4, <1>5

\* _List_Ring_Add_Ahead makes the thread the header of its ring.
LEMMA HeaderStep ==
    ASSUME NEW k, NEW r, Alone(k, r), Ring!Header(k)
    PROVE  \E t \in Thread :
               /\ \A p \in Ring!Prio : t \notin On(r[p])
               /\ Alone(k, With(r, PrioOf[t], <<t>> \o r[PrioOf[t]]))'
<1> USE Kinds
<1>1. "one" \in Ring!Adding  BY DEF Ring!Adding
<1>2. /\ rat[k] = "head" /\ rat'[k] = "one" /\ UNCHANGED <<init, out, lock, thr, pri, old>>
      /\ rat' \in [CPU -> {"idle", "lost"} \cup Ring!Adding \cup Ring!Taking]
  BY <1>1, StepFacts DEF Ring!Header
<1>3. Places(k, r) /\ Closed(k, r) /\ Moved(k, r[pri[k]]) /\ Apart(k, r) /\ Bits(k, r)  BY DEF Good
<1>4. PICK t \in Thread : t = thr[k]  BY <1>2, Busy
<1>5. PICK p \in Ring!Prio : p = pri[k] /\ p = PrioOf[t]  BY <1>2, <1>4, Busy
<1>6. PICK q \in Seq(Thread) : q = r[p]  BY DEF RT
<1>7. PICK u \in Seq(Thread) :
        /\ u = <<t>> \o q /\ Len(u) = Len(q) + 1 /\ Len(q) \in Nat
        /\ \A i \in 1 .. Len(u) : u[i] = IF i = 1 THEN t ELSE q[i - 1]
  <2>1. PICK v : v = <<t>> \o q  OBVIOUS
  <2>2. /\ v \in Seq(Thread) /\ Len(v) = Len(q) + 1 /\ Len(q) \in Nat
        /\ \A i \in 1 .. Len(q) + 1 : v[i] = IF i = 1 THEN t ELSE q[i - 1]
    BY <2>1, AheadIs
  <2> QED  BY <2>1, <2>2
<1>8. PICK r2 \in RT : r2 = With(r, p, u) /\ r2[p] = u /\ \A s \in Ring!Prio : s # p => r2[s] = r[s]
  BY WithFacts
<1>9. hdr' = [hdr EXCEPT ![p] = t] /\ UNCHANGED <<next, prev, map, sub>>
  BY <1>4, <1>5 DEF Ring!Header, Ring!NewHeader, Ring!bits
<1>10. Hand(k) = {t} /\ Hand(k)' = {}  BY <1>2, <1>4 DEF Hand
<1>11. \A s \in Ring!Prio : \A i \in 1 .. Len(r[s]) : r[s][i] # t  BY <1>4, <1>10, InHand
<1>12. NextGap(k) = p /\ PrevGap(k) = p /\ Loose(k) = t
  BY <1>2, <1>4, <1>5 DEF NextGap, PrevGap, Loose
<1>13. NextGap(k)' = Null /\ PrevGap(k)' = Null /\ Loose(k)' = Null
  BY <1>2 DEF NextGap, PrevGap, Loose
<1>14. Ring!TypeOK'  BY <1>2, <1>9 DEF Ring!TypeOK, Ring!Node
<1>15. \A i \in 1 .. Len(u) : i = 1 \/ (i - 1 \in 1 .. Len(q) /\ u[i] = q[i - 1])  BY <1>7
<1>16. 1 \in 1 .. Len(u) /\ u[1] = t /\ u # <<>>  BY <1>7
<1>17. On(u) = On(q) \cup {t}
  <2>1. ASSUME NEW x \in On(u) PROVE x \in On(q) \cup {t}  BY <1>15, <1>16 DEF On
  <2>2. ASSUME NEW x \in On(q) PROVE x \in On(u)
    <3>1. PICK i \in 1 .. Len(q) : x = q[i]  BY DEF On
    <3>2. i + 1 \in 1 .. Len(u) /\ u[i + 1] = x  BY <1>7, <3>1
    <3> QED  BY <3>2 DEF On
  <2>3. t \in On(u)  BY <1>16 DEF On
  <2> QED  BY <2>1, <2>2, <2>3
<1>18. Places(k, r2)'
  <2>1. ASSUME NEW i \in 1 .. Len(u), NEW j \in 1 .. Len(u), u[i] = u[j] PROVE i = j
    <3>1. \A x, y \in 1 .. Len(q) : q[x] = q[y] => x = y  BY <1>3, <1>6 DEF Places, Once
    <3>2. \A x \in 1 .. Len(q) : q[x] # t  BY <1>6, <1>11
    <3>3. CASE i = 1 \/ j = 1  BY <1>15, <1>16, <2>1, <3>2, <3>3
    <3>4. CASE i # 1 /\ j # 1
      <4>1. i - 1 \in 1 .. Len(q) /\ j - 1 \in 1 .. Len(q) /\ q[i - 1] = q[j - 1]
        BY <1>15, <2>1, <3>4
      <4>2. i - 1 = j - 1  BY <3>1, <4>1
      <4> QED  BY <4>2
    <3> QED  BY <3>3, <3>4
  <2>2. ASSUME NEW s \in Ring!Prio PROVE Once(r2[s])
    <3>1. Once(u)  BY <2>1 DEF Once
    <3>2. s # p => Once(r2[s])  BY <1>3, <1>8 DEF Places
    <3> QED  BY <1>8, <3>1, <3>2
  <2>3. t \notin init \cup out  BY <1>3, <1>10 DEF Places
  <2>4. ASSUME NEW s \in Ring!Prio, NEW i \in 1 .. Len(r2[s])
        PROVE  PrioOf[r2[s][i]] = s /\ r2[s][i] \notin init \cup out
    <3>1. CASE s # p  BY <1>3, <1>8, <3>1 DEF Places
    <3>2. CASE s = p
      <4>1. \A x \in 1 .. Len(q) : PrioOf[q[x]] = p /\ q[x] \notin init \cup out
        BY <1>3, <1>6 DEF Places
      <4> QED  BY <1>5, <1>8, <1>15, <1>16, <2>3, <3>2, <4>1
    <3> QED  BY <3>1, <3>2
  <2>5. ASSUME NEW v \in Thread \ (init \cup out) PROVE v \in On(r2[PrioOf[v]])
    <3>1. CASE v = t  BY <1>5, <1>8, <1>17, <3>1
    <3>2. CASE v # t
      <4>1. v \in On(r[PrioOf[v]])  BY <1>3, <1>10, <2>5, <3>2 DEF Places
      <4>2. PrioOf[v] \in Ring!Prio  OBVIOUS
      <4> QED  BY <1>6, <1>8, <1>17, <4>1, <4>2
    <3> QED  BY <3>1, <3>2
  <2> QED  BY <1>2, <1>3, <1>10, <2>2, <2>4, <2>5 DEF Places
<1>19. /\ next[t] = IF q = <<>> THEN t ELSE q[1]
       /\ prev[t] = IF q = <<>> THEN t ELSE q[Len(q)]
  BY <1>3, <1>4, <1>5, <1>6, <1>12 DEF Moved
<1>20. \A i \in 1 .. Len(q) :
         /\ next[q[i]] = IF i < Len(q) THEN q[i + 1] ELSE t
         /\ prev[q[i]] = IF i > 1 THEN q[i - 1] ELSE t
  BY <1>3, <1>4, <1>6, <1>12 DEF Closed
<1>21. Closed(k, r2)'
  <2> SUFFICES ASSUME NEW s \in Ring!Prio
               PROVE  /\ hdr'[s] = IF r2[s] = <<>> THEN Null ELSE r2[s][1]
                      /\ \A i \in 1 .. Len(r2[s]) :
                          /\ next'[r2[s][i]] = IF i < Len(r2[s]) THEN r2[s][i + 1] ELSE r2[s][1]
                          /\ prev'[r2[s][i]] = IF i > 1 THEN r2[s][i - 1] ELSE r2[s][Len(r2[s])]
    BY <1>13 DEF Closed
  <2>1. CASE s # p
    <3>1. r2[s] = r[s] /\ UNCHANGED <<hdr[s], next, prev>>  BY <1>8, <1>9, <2>1
    <3>2. /\ hdr[s] = IF r[s] = <<>> THEN Null ELSE r[s][1]
          /\ \A i \in 1 .. Len(r[s]) :
              /\ next[r[s][i]] = IF i < Len(r[s]) THEN r[s][i + 1] ELSE r[s][1]
              /\ prev[r[s][i]] = IF i > 1 THEN r[s][i - 1] ELSE r[s][Len(r[s])]
      BY <1>3, <1>12, <2>1 DEF Closed
    <3> QED  BY <3>1, <3>2
  <2>2. CASE s = p
    <3>1. hdr'[p] = t  BY <1>9 DEF Ring!TypeOK
    <3>2. q = <<>> <=> Len(q) = 0  OBVIOUS
    <3>3. ASSUME NEW i \in 1 .. Len(u)
          PROVE  next[u[i]] = IF i < Len(u) THEN u[i + 1] ELSE t
      <4>1. CASE i = 1
        <5>1. CASE Len(q) = 0  BY <1>7, <1>16, <1>19, <3>2, <4>1, <5>1
        <5>2. CASE Len(q) # 0
          <6>1. 2 \in 1 .. Len(u) /\ 2 - 1 = 1 /\ 1 + 1 = 2 /\ 1 < Len(u)  BY <1>7, <5>2
          <6> QED  BY <1>7, <1>16, <1>19, <3>2, <4>1, <5>2, <6>1
        <5> QED  BY <5>1, <5>2
      <4>2. CASE i # 1
        <5>1. PICK j \in 1 .. Len(q) : j = i - 1 /\ i = j + 1 /\ u[i] = q[j]  BY <1>7, <1>15, <4>2
        <5>2. i < Len(u) <=> j < Len(q)  BY <1>7, <5>1
        <5>3. i < Len(u) => i + 1 \in 1 .. Len(u) /\ u[i + 1] = q[j + 1]  BY <1>7, <5>1
        <5> QED  BY <1>20, <5>1, <5>2, <5>3
      <4> QED  BY <4>1, <4>2
    <3>4. ASSUME NEW i \in 1 .. Len(u)
          PROVE  prev[u[i]] = IF i > 1 THEN u[i - 1] ELSE u[Len(u)]
      <4>1. CASE i = 1
        <5>1. u[Len(u)] = IF Len(q) = 0 THEN t ELSE q[Len(q)]
          <6>1. Len(u) \in 1 .. Len(u) /\ Len(u) - 1 = Len(q) /\ (Len(u) = 1 <=> Len(q) = 0)  BY <1>7
          <6> QED  BY <1>7, <6>1
        <5> QED  BY <1>16, <1>19, <3>2, <4>1, <5>1
      <4>2. CASE i # 1
        <5>1. PICK j \in 1 .. Len(q) : j = i - 1 /\ i > 1 /\ u[i] = q[j]  BY <1>7, <1>15, <4>2
        <5>2. j \in 1 .. Len(u) /\ u[j] = IF j = 1 THEN t ELSE q[j - 1]  BY <1>7, <5>1
        <5>3. j > 1 <=> j # 1  BY <1>7, <5>1
        <5> QED  BY <1>20, <5>1, <5>2, <5>3
      <4> QED  BY <4>1, <4>2
    <3> QED  BY <1>8, <1>9, <1>16, <2>2, <3>1, <3>3, <3>4
  <2> QED  BY <2>1, <2>2
<1>22. Moved(k, r2[pri[k]])'  BY <1>13 DEF Moved
<1>23. Apart(k, r2)'
  <2> SUFFICES ASSUME NEW v \in Thread, v \notin On(r2[PrioOf[v]])
               PROVE  next[v] = Null /\ prev[v] = Null
    BY <1>9, <1>13 DEF Apart
  <2>1. v # t  BY <1>5, <1>8, <1>17
  <2>2. v \notin On(r[PrioOf[v]])
    <3>1. PrioOf[v] \in Ring!Prio  OBVIOUS
    <3> QED  BY <1>6, <1>8, <1>17, <3>1
  <2> QED  BY <1>3, <1>12, <2>1, <2>2 DEF Apart
<1>24. Bits(k, r2)'
  <2>1. Late(k, r) = {} /\ Stale(k, r) = {}  BY <1>2 DEF Late, Stale
  <2>2. Stale(k, r2)' = {}  BY <1>2 DEF Stale
  <2>3. Late(k, r2)' = IF q = <<>> THEN {p} ELSE {}
    <3>1. Len(u) = 1 <=> q = <<>>  BY <1>7
    <3> QED  BY <1>2, <1>5, <1>8, <3>1 DEF Late
  <2>4. Full(r2) = Full(r) \cup {p} /\ (p \in Full(r) <=> q # <<>>)  BY <1>6, <1>8, <1>16 DEF Full
  <2>5. sub' = (Full(r2) \ Late(k, r2)') \cup Stale(k, r2)'
    BY <1>3, <1>9, <2>1, <2>2, <2>3, <2>4 DEF Bits
  <2>6. map = Words(k) /\ Words(k)' = Words(k)  BY <1>2, <1>3, <1>9 DEF Bits, Words, Ring!Word
  <2> QED  BY <1>2, <1>9, <2>5, <2>6 DEF Bits
<1>25. Facts(k, r2)'  BY <1>2, <1>4, <1>5 DEF Facts
<1>26. Alone(k, r2)'  BY <1>14, <1>18, <1>21, <1>22, <1>23, <1>24, <1>25 DEF Alone, Good
<1>27. \A s \in Ring!Prio : t \notin On(r[s])  BY <1>11 DEF On
<1>28. r2 = With(r, PrioOf[t], <<t>> \o r[PrioOf[t]])  BY <1>5, <1>6, <1>7, <1>8
<1> QED  BY <1>26, <1>27, <1>28

\* A ring whose header has used up its slice goes on: from now on the next is the header.
LEMMA RotateStep ==
    ASSUME NEW k, NEW r, Alone(k, r), Ring!Rotate(k)
    PROVE  \E p \in Full(r) :
               /\ \A s \in Full(r) : p <= s
               /\ Alone(k, With(r, p, Tail(r[p]) \o <<r[p][1]>>))'
<1> USE Kinds
<1>1. "take" \in Ring!Taking  BY DEF Ring!Taking
<1>2. /\ rat[k] = "seek" /\ rat'[k] = "take" /\ UNCHANGED <<init, out, lock, thr, pri, old>>
      /\ rat' \in [CPU -> {"idle", "lost"} \cup Ring!Adding \cup Ring!Taking]
  BY <1>1, StepFacts DEF Ring!Rotate
<1>3. Places(k, r) /\ Closed(k, r) /\ Apart(k, r) /\ Bits(k, r) /\ Facts(k, r)  BY DEF Good
<1>4. PICK p \in Full(r) : p = pri[k] /\ \A s \in Full(r) : p <= s  BY <1>2, <1>3 DEF Facts
<1>5. p \in Ring!Prio  BY DEF Full
<1>6. PICK q \in Seq(Thread) : q = r[p] /\ q # <<>>  BY <1>5 DEF RT, Full
<1>7. PICK n \in Nat \ {0} : n = Len(q) /\ 1 \in 1 .. n /\ n \in 1 .. n /\ q[1] \in Thread
  BY <1>6, TailIs
<1>8. PICK u \in Seq(Thread) :
        /\ u = Tail(q) \o <<q[1]>> /\ Len(u) = n
        /\ \A i \in 1 .. n : u[i] = IF i = n THEN q[1] ELSE q[i + 1]
  <2>1. PICK v : v = Tail(q) \o <<q[1]>>  OBVIOUS
  <2>2. /\ v \in Seq(Thread) /\ Len(v) = n
        /\ \A i \in 1 .. n : v[i] = IF i = n THEN q[1] ELSE q[i + 1]
    BY <1>6, <1>7, <2>1, RotatedIs
  <2> QED  BY <2>1, <2>2
<1>9. PICK r2 \in RT : r2 = With(r, p, u) /\ r2[p] = u /\ \A s \in Ring!Prio : s # p => r2[s] = r[s]
  BY <1>5, WithFacts
<1>10. NextGap(k) = Null /\ PrevGap(k) = Null /\ Loose(k) = Null
  BY <1>2 DEF NextGap, PrevGap, Loose
<1>11. NextGap(k)' = Null /\ PrevGap(k)' = Null /\ Loose(k)' = Null
  BY <1>2 DEF NextGap, PrevGap, Loose
<1>12. hdr[p] = q[1] /\ \A i \in 1 .. n :
         /\ next[q[i]] = IF i < n THEN q[i + 1] ELSE q[1]
         /\ prev[q[i]] = IF i > 1 THEN q[i - 1] ELSE q[n]
  BY <1>3, <1>5, <1>6, <1>7, <1>10 DEF Closed
<1>13. u[1] = IF 1 < n THEN q[2] ELSE q[1]  BY <1>7, <1>8
<1>14. next[q[1]] = u[1] /\ u[1] \in Thread /\ u # <<>>
  <2>1. next[q[1]] = u[1]  BY <1>7, <1>12, <1>13
  <2> QED  BY <1>7, <1>8, <2>1
<1>15. hdr' = [hdr EXCEPT ![p] = u[1]] /\ UNCHANGED <<next, prev, map, sub>>
  BY <1>4, <1>12, <1>14 DEF Ring!Rotate, Ring!bits
<1>16. Ring!TypeOK'  BY <1>2, <1>14, <1>15 DEF Ring!TypeOK, Ring!Node
<1>17. \A i \in 1 .. n : i = n \/ (i + 1 \in 1 .. n /\ u[i] = q[i + 1] /\ i < n /\ i # n)  BY <1>7, <1>8
<1>18. u[n] = q[1]  BY <1>7, <1>8
<1>19. On(u) = On(q)
  <2>1. ASSUME NEW x \in On(u) PROVE x \in On(q)
    BY <1>7, <1>8, <1>17, <1>18 DEF On
  <2>2. ASSUME NEW x \in On(q) PROVE x \in On(u)
    <3>1. PICK i \in 1 .. n : x = q[i]  BY <1>7 DEF On
    <3>2. CASE i = 1  BY <1>7, <1>8, <1>18, <3>1, <3>2 DEF On
    <3>3. CASE i # 1
      <4>1. i - 1 \in 1 .. n /\ i - 1 # n /\ (i - 1) + 1 = i  BY <1>7, <3>3
      <4>2. u[i - 1] = x  BY <1>8, <3>1, <4>1
      <4> QED  BY <1>8, <4>1, <4>2 DEF On
    <3> QED  BY <3>2, <3>3
  <2> QED  BY <2>1, <2>2
<1>20. Once(q)  BY <1>3, <1>5, <1>6 DEF Places
<1>21. Places(k, r2)'
  <2>1. ASSUME NEW i \in 1 .. n, NEW j \in 1 .. n, u[i] = u[j] PROVE i = j
    <3>1. PICK x \in 1 .. n : u[i] = q[x] /\ x = IF i = n THEN 1 ELSE i + 1
      BY <1>7, <1>17, <1>18
    <3>2. PICK y \in 1 .. n : u[j] = q[y] /\ y = IF j = n THEN 1 ELSE j + 1
      BY <1>7, <1>17, <1>18
    <3>3. x = y  BY <1>7, <1>20, <2>1, <3>1, <3>2 DEF Once
    <3> QED  BY <3>1, <3>2, <3>3
  <2>2. ASSUME NEW s \in Ring!Prio PROVE Once(r2[s])
    <3>1. Once(u)  BY <1>8, <2>1 DEF Once
    <3>2. s # p => Once(r2[s])  BY <1>3, <1>9 DEF Places
    <3> QED  BY <1>9, <3>1, <3>2
  <2>3. UNCHANGED Hand(k)  BY <1>2 DEF Hand
  <2>4. \A s \in Ring!Prio : On(r2[s]) = On(r[s])  BY <1>6, <1>9, <1>19
  <2>5. ASSUME NEW s \in Ring!Prio, NEW i \in 1 .. Len(r2[s])
        PROVE  PrioOf[r2[s][i]] = s /\ r2[s][i] \notin init \cup out \cup Hand(k)
    <3>1. r2[s][i] \in On(r[s])  BY <2>4 DEF On
    <3>2. PICK j \in 1 .. Len(r[s]) : r2[s][i] = r[s][j]  BY <3>1 DEF On
    <3> QED  BY <1>3, <3>2 DEF Places
  <2>6. ASSUME NEW v \in Thread \ (init \cup out \cup Hand(k)) PROVE v \in On(r2[PrioOf[v]])
    <3>1. PrioOf[v] \in Ring!Prio  OBVIOUS
    <3> QED  BY <1>3, <2>4, <3>1 DEF Places
  <2> QED  BY <1>2, <1>3, <2>2, <2>3, <2>5, <2>6 DEF Places
<1>22. Closed(k, r2)'
  <2> SUFFICES ASSUME NEW s \in Ring!Prio
               PROVE  /\ hdr'[s] = IF r2[s] = <<>> THEN Null ELSE r2[s][1]
                      /\ \A i \in 1 .. Len(r2[s]) :
                          /\ next'[r2[s][i]] = IF i < Len(r2[s]) THEN r2[s][i + 1] ELSE r2[s][1]
                          /\ prev'[r2[s][i]] = IF i > 1 THEN r2[s][i - 1] ELSE r2[s][Len(r2[s])]
    BY <1>11 DEF Closed
  <2>1. CASE s # p
    <3>1. r2[s] = r[s] /\ UNCHANGED <<hdr[s], next, prev>>  BY <1>9, <1>15, <2>1
    <3>2. /\ hdr[s] = IF r[s] = <<>> THEN Null ELSE r[s][1]
          /\ \A i \in 1 .. Len(r[s]) :
              /\ next[r[s][i]] = IF i < Len(r[s]) THEN r[s][i + 1] ELSE r[s][1]
              /\ prev[r[s][i]] = IF i > 1 THEN r[s][i - 1] ELSE r[s][Len(r[s])]
      BY <1>3, <1>10, <2>1 DEF Closed
    <3> QED  BY <3>1, <3>2
  <2>2. CASE s = p
    <3>1. hdr'[p] = u[1]  BY <1>5, <1>15 DEF Ring!TypeOK
    <3>2. ASSUME NEW i \in 1 .. n
          PROVE  /\ next[u[i]] = IF i < n THEN u[i + 1] ELSE u[1]
                 /\ prev[u[i]] = IF i > 1 THEN u[i - 1] ELSE u[n]
      <4>1. CASE i = n
        <5>1. u[i] = q[1] /\ ~(i < n)  BY <1>18, <4>1
        <5>2. i > 1 => i - 1 \in 1 .. n /\ i - 1 # n /\ (i - 1) + 1 = i  BY <1>7
        <5>3. i > 1 => u[i - 1] = q[n]  BY <1>8, <4>1, <5>2
        <5>4. ~(i > 1) => n = 1  BY <1>7, <4>1
        <5>5. prev[q[1]] = q[n]  BY <1>7, <1>12
        <5>6. ~(i > 1) => u[n] = q[n]  BY <1>18, <5>4
        <5> QED  BY <1>14, <5>1, <5>3, <5>5, <5>6
      <4>2. CASE i # n
        <5>1. PICK j \in 1 .. n : j = i + 1 /\ u[i] = q[j] /\ i < n /\ j > 1 /\ j - 1 = i
          BY <1>7, <1>17, <4>2
        <5>2. u[j] = IF j < n THEN q[j + 1] ELSE q[1]  BY <1>7, <1>8
        <5>3. next[q[j]] = u[j]  BY <1>12, <5>2
        <5>4. prev[q[j]] = q[i]  BY <1>12, <5>1
        <5>5. q[i] = IF i > 1 THEN u[i - 1] ELSE u[n]
          <6>1. i > 1 => i - 1 \in 1 .. n /\ i - 1 # n /\ (i - 1) + 1 = i  BY <1>7
          <6>2. i > 1 => u[i - 1] = q[i]  BY <1>8, <6>1
          <6>3. ~(i > 1) => i = 1  OBVIOUS
          <6> QED  BY <1>18, <6>2, <6>3
        <5> QED  BY <5>1, <5>3, <5>4, <5>5
      <4> QED  BY <4>1, <4>2
    <3>3. r2[s] = u /\ Len(u) = n /\ hdr'[s] = u[1] /\ UNCHANGED <<next, prev>>
      BY <1>8, <1>9, <1>15, <2>2, <3>1
    <3>4. u # <<>>  BY <1>14
    <3> QED  BY <3>2, <3>3, <3>4
  <2> QED  BY <2>1, <2>2
<1>23. Moved(k, r2[pri[k]])'  BY <1>11 DEF Moved
<1>24. Apart(k, r2)'
  <2> SUFFICES ASSUME NEW v \in Thread, v \notin On(r2[PrioOf[v]])
               PROVE  next[v] = Null /\ prev[v] = Null
    BY <1>11, <1>15 DEF Apart
  <2>1. PrioOf[v] \in Ring!Prio  OBVIOUS
  <2>2. v \notin On(r[PrioOf[v]])  BY <1>6, <1>9, <1>19, <2>1
  <2> QED  BY <1>3, <1>10, <2>2 DEF Apart
<1>25. Full(r2) = Full(r)  BY <1>6, <1>9, <1>14 DEF Full
<1>26. Bits(k, r2)'
  <2>1. Late(k, r) = {} /\ Stale(k, r) = {}  BY <1>2 DEF Late, Stale
  <2>2. Late(k, r2)' = {} /\ Stale(k, r2)' = {}  BY <1>2 DEF Late, Stale
  <2>3. sub' = Full(r2)  BY <1>3, <1>15, <1>25, <2>1 DEF Bits
  <2>4. map = Words(k) /\ Words(k)' = Words(k)  BY <1>2, <1>3, <1>15 DEF Bits, Words, Ring!Word
  <2> QED  BY <1>2, <1>15, <2>2, <2>3, <2>4 DEF Bits
<1>27. Facts(k, r2)'  BY <1>2, <1>4, <1>25 DEF Facts
<1>28. Alone(k, r2)'  BY <1>16, <1>21, <1>22, <1>23, <1>24, <1>26, <1>27 DEF Alone, Good
<1>29. r2 = With(r, p, Tail(r[p]) \o <<r[p][1]>>)  BY <1>6, <1>8, <1>9
<1> QED  BY <1>4, <1>28, <1>29

\* What a ring that is about to lose its header looks like.
LEMMA DelFacts ==
    ASSUME NEW k, NEW r, Alone(k, r), rat[k] = "del"
    PROVE  \E p \in Full(r) :
               LET q == r[p] IN
               /\ p = pri[k] /\ p \in Ring!Prio /\ q \in Seq(Thread) /\ q # <<>>
               /\ \A s \in Full(r) : p <= s
               /\ thr[k] = q[1] /\ q[1] \in Thread /\ PrioOf[q[1]] = p /\ hdr[p] = q[1]
               /\ \A i \in 1 .. Len(q) :
                   /\ next[q[i]] = IF i < Len(q) THEN q[i + 1] ELSE q[1]
                   /\ prev[q[i]] = IF i > 1 THEN q[i - 1] ELSE q[Len(q)]
<1> USE Kinds
<1>1. Places(k, r) /\ Closed(k, r) /\ Facts(k, r)  BY DEF Good
<1>2. PICK p \in Full(r) : p = pri[k] /\ \A s \in Full(r) : p <= s  BY <1>1 DEF Facts
<1>3. p \in Ring!Prio /\ r[p] \in Seq(Thread) /\ r[p] # <<>>  BY DEF Full, RT
<1>4. thr[k] = r[p][1] /\ r[p][1] \in Thread  BY <1>1, <1>2, <1>3 DEF Facts
<1>5. PrioOf[r[p][1]] = p /\ hdr[p] = r[p][1]  BY <1>1, <1>3 DEF Places, Closed
<1>6. NextGap(k) = Null /\ PrevGap(k) = Null  BY DEF NextGap, PrevGap
<1>7. \A i \in 1 .. Len(r[p]) :
          /\ next[r[p][i]] = IF i < Len(r[p]) THEN r[p][i + 1] ELSE r[p][1]
          /\ prev[r[p][i]] = IF i > 1 THEN r[p][i - 1] ELSE r[p][Len(r[p])]
  BY <1>1, <1>3, <1>6 DEF Closed
<1> QED  BY <1>2, <1>3, <1>4, <1>5, <1>7

\* A thread that leaves the ring goes into the hand of the processor.
LEMMA LeavePlaces ==
    ASSUME NEW k, NEW r, Alone(k, r), Hand(k) = {}, NEW p \in Full(r), NEW t \in Thread,
           t = r[p][1], Hand(k)' = {t}, UNCHANGED <<init, out>>
    PROVE  Places(k, With(r, p, Tail(r[p])))'
<1> USE Kinds
<1>1. Places(k, r)  BY DEF Good
<1>2. PICK q \in Seq(Thread) : q = r[p] /\ q # <<>> /\ p \in Ring!Prio  BY DEF RT, Full
<1>3. PICK u \in Seq(Thread) :
        /\ u = Tail(q) /\ Len(u) = Len(q) - 1 /\ Len(q) \in Nat \ {0}
        /\ \A i \in 1 .. Len(u) : i + 1 \in 1 .. Len(q) /\ u[i] = q[i + 1]
  <2>1. /\ Tail(q) \in Seq(Thread) /\ Len(Tail(q)) = Len(q) - 1 /\ Len(q) \in Nat \ {0}
        /\ \A i \in 1 .. Len(q) - 1 : Tail(q)[i] = q[i + 1]
    BY <1>2, TailIs
  <2>2. \A i \in 1 .. Len(q) - 1 : i + 1 \in 1 .. Len(q)  BY <2>1
  <2> QED  BY <2>1, <2>2
<1>4. PICK r2 \in RT : r2 = With(r, p, u) /\ r2[p] = u /\ \A s \in Ring!Prio : s # p => r2[s] = r[s]
  BY <1>2, WithFacts
<1>5. Once(q) /\ 1 \in 1 .. Len(q) /\ q[1] = t  BY <1>1, <1>2, <1>3 DEF Places
<1>6. Once(u)
  <2> SUFFICES ASSUME NEW i \in 1 .. Len(u), NEW j \in 1 .. Len(u), u[i] = u[j] PROVE i = j
    BY DEF Once
  <2>1. i + 1 \in 1 .. Len(q) /\ j + 1 \in 1 .. Len(q) /\ q[i + 1] = q[j + 1]  BY <1>3
  <2>2. i + 1 = j + 1  BY <1>5, <2>1 DEF Once
  <2> QED  BY <2>2
<1>7. On(u) = On(q) \ {t}
  <2>1. ASSUME NEW x \in On(u) PROVE x \in On(q) \ {t}
    <3>1. PICK i \in 1 .. Len(u) : x = u[i]  BY DEF On
    <3>2. i + 1 \in 1 .. Len(q) /\ x = q[i + 1] /\ i + 1 # 1  BY <1>3, <3>1
    <3>3. x # t  BY <1>5, <3>2 DEF Once
    <3> QED  BY <3>2, <3>3 DEF On
  <2>2. ASSUME NEW x \in On(q) \ {t} PROVE x \in On(u)
    <3>1. PICK i \in 1 .. Len(q) : x = q[i]  BY DEF On
    <3>2. i # 1  BY <1>5, <3>1
    <3>3. i - 1 \in 1 .. Len(u) /\ (i - 1) + 1 = i  BY <1>3, <3>2
    <3>4. u[i - 1] = x  BY <1>3, <3>1, <3>3
    <3> QED  BY <3>3, <3>4 DEF On
  <2> QED  BY <2>1, <2>2
<1>8. \A s \in Ring!Prio : Once(r2[s])  BY <1>1, <1>4, <1>6 DEF Places
<1>9. ASSUME NEW s \in Ring!Prio, NEW i \in 1 .. Len(r2[s])
      PROVE  PrioOf[r2[s][i]] = s /\ r2[s][i] \notin init \cup out \cup {t}
  <2>1. CASE s = p
    <3>1. r2[s][i] \in On(q) /\ r2[s][i] # t  BY <1>4, <1>7, <2>1 DEF On
    <3>2. PICK j \in 1 .. Len(q) : r2[s][i] = q[j]  BY <3>1 DEF On
    <3> QED  BY <1>1, <1>2, <2>1, <3>1, <3>2 DEF Places
  <2>2. CASE s # p
    <3>1. PrioOf[r[s][i]] = s /\ r[s][i] \notin init \cup out  BY <1>1, <1>4, <2>2 DEF Places
    <3>2. PrioOf[t] = p  BY <1>1, <1>2, <1>5 DEF Places
    <3> QED  BY <1>4, <2>2, <3>1, <3>2
  <2> QED  BY <2>1, <2>2
<1>10. ASSUME NEW v \in Thread \ (init \cup out \cup {t}) PROVE v \in On(r2[PrioOf[v]])
  <2>1. v \in On(r[PrioOf[v]]) /\ PrioOf[v] \in Ring!Prio  BY <1>1 DEF Places
  <2> QED  BY <1>2, <1>4, <1>7, <2>1
<1>11. t \notin init \cup out  BY <1>1, <1>2, <1>5 DEF Places
<1>12. Places(k, r2)'  BY <1>1, <1>8, <1>9, <1>10, <1>11 DEF Places
<1> QED  BY <1>2, <1>3, <1>4, <1>12

\* _List_Ring_Del of the last thread leaves an empty ring.
LEMMA DelLastStep ==
    ASSUME NEW k, NEW r, Alone(k, r), Ring!DelLast(k)
    PROVE  \E p \in Full(r) :
               (\A s \in Full(r) : p <= s) /\ Alone(k, With(r, p, Tail(r[p])))'
<1> USE Kinds
<1>1. "empty" \in Ring!Taking  BY DEF Ring!Taking
<1>2. /\ rat[k] = "del" /\ rat'[k] = "empty" /\ UNCHANGED <<init, out, lock, thr, pri, old>>
      /\ rat' \in [CPU -> {"idle", "lost"} \cup Ring!Adding \cup Ring!Taking]
  BY <1>1, StepFacts DEF Ring!DelLast
<1>3. Places(k, r) /\ Closed(k, r) /\ Apart(k, r) /\ Bits(k, r)  BY DEF Good
<1>4. PICK p \in Full(r) :
               LET q == r[p] IN
               /\ p = pri[k] /\ p \in Ring!Prio /\ q \in Seq(Thread) /\ q # <<>>
               /\ \A s \in Full(r) : p <= s
               /\ thr[k] = q[1] /\ q[1] \in Thread /\ PrioOf[q[1]] = p /\ hdr[p] = q[1]
               /\ \A i \in 1 .. Len(q) :
                   /\ next[q[i]] = IF i < Len(q) THEN q[i + 1] ELSE q[1]
                   /\ prev[q[i]] = IF i > 1 THEN q[i - 1] ELSE q[Len(q)]
  BY <1>2, DelFacts
<1>5. PICK q \in Seq(Thread) : q = r[p]  BY <1>4
<1>6. PICK t \in Thread : t = q[1] /\ t = thr[k]  BY <1>4, <1>5
<1>7. q # <<>> /\ Len(q) \in Nat \ {0} /\ 1 \in 1 .. Len(q)  BY <1>4, <1>5
<1>8. Len(q) = 1
  <2>1. next[q[1]] = q[1]  BY <1>6 DEF Ring!DelLast
  <2>2. PICK n \in Nat \ {0} : n = Len(q)  BY <1>7
  <2>3. ASSUME 1 < n PROVE FALSE
    <3>1. 2 \in 1 .. n /\ 1 + 1 = 2 /\ 1 \in 1 .. n  BY <2>3
    <3>2. q[2] = q[1]  BY <1>4, <1>5, <2>1, <2>2, <2>3, <3>1
    <3> QED  BY <1>3, <1>4, <1>5, <2>2, <3>1, <3>2 DEF Places, Once
  <2>4. n = 1  BY <2>3
  <2> QED  BY <2>2, <2>4
<1>9. Tail(q) = <<>>
  <2>1. Tail(q) \in Seq(Thread) /\ Len(Tail(q)) = Len(q) - 1  BY <1>7, TailIs
  <2>2. PICK v \in Seq(Thread) : v = Tail(q)  BY <2>1
  <2>3. Len(v) = 0  BY <1>8, <2>1, <2>2
  <2> QED  BY <2>2, <2>3
<1>10. PICK e \in Seq(Thread) : e = <<>> /\ Len(e) = 0
  <2>1. <<>> \in Seq(Thread) /\ Len(<<>>) = 0  OBVIOUS
  <2> QED  BY <2>1
<1>11. PICK r2 \in RT :
         /\ r2 = With(r, p, e) /\ r2[p] = e /\ \A s \in Ring!Prio : s # p => r2[s] = r[s]
  BY <1>4, WithFacts
<1>12. /\ hdr' = [hdr EXCEPT ![p] = Null] /\ next' = [next EXCEPT ![t] = Null]
       /\ prev' = [prev EXCEPT ![t] = Null] /\ UNCHANGED <<map, sub>>
  BY <1>4, <1>6 DEF Ring!DelLast, Ring!bits
<1>13. Ring!TypeOK'  BY <1>2, <1>12 DEF Ring!TypeOK, Ring!Node
<1>14. Hand(k) = {} /\ Hand(k)' = {t}  BY <1>2, <1>6 DEF Hand
<1>15. r2 = With(r, p, Tail(r[p]))  BY <1>5, <1>9, <1>10, <1>11
<1>16. Places(k, r2)'
  <2>1. Places(k, With(r, p, Tail(r[p])))'  BY <1>2, <1>5, <1>6, <1>14, LeavePlaces
  <2> QED  BY <1>15, <2>1
<1>17. NextGap(k) = Null /\ PrevGap(k) = Null /\ Loose(k) = Null
  BY <1>2 DEF NextGap, PrevGap, Loose
<1>18. NextGap(k)' = Null /\ PrevGap(k)' = Null /\ Loose(k)' = Null
  BY <1>2 DEF NextGap, PrevGap, Loose
<1>19. \A s \in Ring!Prio : s # p => \A i \in 1 .. Len(r[s]) : r[s][i] # t
  BY <1>3, <1>4, <1>5, <1>6 DEF Places
<1>20. Closed(k, r2)'
  <2> SUFFICES ASSUME NEW s \in Ring!Prio
               PROVE  /\ hdr'[s] = IF r2[s] = <<>> THEN Null ELSE r2[s][1]
                      /\ \A i \in 1 .. Len(r2[s]) :
                          /\ next'[r2[s][i]] = IF i < Len(r2[s]) THEN r2[s][i + 1] ELSE r2[s][1]
                          /\ prev'[r2[s][i]] = IF i > 1 THEN r2[s][i - 1] ELSE r2[s][Len(r2[s])]
    BY <1>18 DEF Closed
  <2>1. CASE s # p
    <3>1. r2[s] = r[s] /\ UNCHANGED hdr[s]  BY <1>11, <1>12, <2>1
    <3>2. \A i \in 1 .. Len(r[s]) : UNCHANGED <<next[r[s][i]], prev[r[s][i]]>>
      BY <1>12, <1>19, <2>1
    <3>3. /\ hdr[s] = IF r[s] = <<>> THEN Null ELSE r[s][1]
          /\ \A i \in 1 .. Len(r[s]) :
              /\ next[r[s][i]] = IF i < Len(r[s]) THEN r[s][i + 1] ELSE r[s][1]
              /\ prev[r[s][i]] = IF i > 1 THEN r[s][i - 1] ELSE r[s][Len(r[s])]
      BY <1>3, <1>17, <2>1 DEF Closed
    <3> QED  BY <3>1, <3>2, <3>3
  <2>2. CASE s = p
    <3>1. hdr'[p] = Null  BY <1>4, <1>12 DEF Ring!TypeOK
    <3>2. 1 .. Len(r2[s]) = {}  BY <1>10, <1>11, <2>2
    <3> QED  BY <1>10, <1>11, <2>2, <3>1, <3>2
  <2> QED  BY <2>1, <2>2
<1>21. Moved(k, r2[pri[k]])'  BY <1>18 DEF Moved
<1>22. Apart(k, r2)'
  <2> SUFFICES ASSUME NEW v \in Thread, v \notin On(r2[PrioOf[v]])
               PROVE  next'[v] = Null /\ prev'[v] = Null
    BY <1>18 DEF Apart
  <2>1. CASE v = t  BY <1>12, <2>1 DEF Ring!TypeOK, Ring!Node
  <2>2. CASE v # t
    <3>1. On(q) = {t}
      <4>1. 1 .. 1 = {1}  OBVIOUS
      <4> QED  BY <1>6, <1>8, <4>1 DEF On
    <3>2. PrioOf[v] \in Ring!Prio  OBVIOUS
    <3>3. v \notin On(r[PrioOf[v]])  BY <1>5, <1>10, <1>11, <2>2, <3>1, <3>2
    <3>4. next[v] = Null /\ prev[v] = Null  BY <1>3, <1>17, <3>3 DEF Apart
    <3> QED  BY <1>12, <2>2, <3>4 DEF Ring!TypeOK, Ring!Node
  <2> QED  BY <2>1, <2>2
<1>23. Bits(k, r2)'
  <2>1. Late(k, r) = {} /\ Stale(k, r) = {}  BY <1>2 DEF Late, Stale
  <2>2. Late(k, r2)' = {} /\ Stale(k, r2)' = {p}  BY <1>2, <1>4 DEF Late, Stale
  <2>3. Full(r) = Full(r2) \cup {p}  BY <1>4, <1>10, <1>11 DEF Full
  <2>4. sub' = Full(r2) \cup {p}  BY <1>3, <1>12, <2>1, <2>3 DEF Bits
  <2>5. map = Words(k) /\ Words(k)' = Words(k)  BY <1>2, <1>3, <1>12 DEF Bits, Words, Ring!Word
  <2> QED  BY <1>2, <1>12, <2>2, <2>4, <2>5 DEF Bits
<1>24. Facts(k, r2)'  BY <1>2, <1>4, <1>5, <1>6 DEF Facts
<1>25. Alone(k, r2)'  BY <1>13, <1>16, <1>20, <1>21, <1>22, <1>23, <1>24 DEF Alone, Good
<1> QED  BY <1>4, <1>15, <1>25

\* _List_Ring_Del of one of several: the next is the header.
LEMMA DelOneStep ==
    ASSUME NEW k, NEW r, Alone(k, r), Ring!DelOne(k)
    PROVE  \E p \in Full(r) :
               (\A s \in Full(r) : p <= s) /\ Alone(k, With(r, p, Tail(r[p])))'
<1> USE Kinds
<1>1. "unlink" \in Ring!Taking  BY DEF Ring!Taking
<1>2. /\ rat[k] = "del" /\ rat'[k] = "unlink" /\ UNCHANGED <<init, out, lock, thr, pri, old>>
      /\ rat' \in [CPU -> {"idle", "lost"} \cup Ring!Adding \cup Ring!Taking]
  BY <1>1, StepFacts DEF Ring!DelOne
<1>3. Places(k, r) /\ Closed(k, r) /\ Apart(k, r) /\ Bits(k, r)  BY DEF Good
<1>4. PICK p \in Full(r) :
               LET q == r[p] IN
               /\ p = pri[k] /\ p \in Ring!Prio /\ q \in Seq(Thread) /\ q # <<>>
               /\ \A s \in Full(r) : p <= s
               /\ thr[k] = q[1] /\ q[1] \in Thread /\ PrioOf[q[1]] = p /\ hdr[p] = q[1]
               /\ \A i \in 1 .. Len(q) :
                   /\ next[q[i]] = IF i < Len(q) THEN q[i + 1] ELSE q[1]
                   /\ prev[q[i]] = IF i > 1 THEN q[i - 1] ELSE q[Len(q)]
  BY <1>2, DelFacts
<1>5. PICK q \in Seq(Thread) : q = r[p]  BY <1>4
<1>6. PICK t \in Thread : t = q[1] /\ t = thr[k]  BY <1>4, <1>5
<1>7. PICK n \in Nat \ {0} : n = Len(q) /\ 1 \in 1 .. n /\ n \in 1 .. n  BY <1>4, <1>5, TailIs
<1>8. \A i \in 1 .. n :
          /\ next[q[i]] = IF i < n THEN q[i + 1] ELSE t
          /\ prev[q[i]] = IF i > 1 THEN q[i - 1] ELSE q[n]
  BY <1>4, <1>5, <1>6, <1>7
<1>9. 1 < n /\ next[t] = q[2] /\ prev[t] = q[n] /\ q[2] \in Thread
  <2>1. next[t] # t  BY <1>6 DEF Ring!DelOne
  <2>2. 1 < n  BY <1>6, <1>7, <1>8, <2>1
  <2>3. 2 \in 1 .. n /\ 1 + 1 = 2  BY <2>2
  <2>4. next[q[1]] = q[2]  BY <1>7, <1>8, <2>2, <2>3
  <2>5. prev[q[1]] = q[n]  BY <1>7, <1>8
  <2>6. q[2] \in Thread  BY <1>7, <2>3
  <2> QED  BY <1>6, <2>2, <2>4, <2>5, <2>6
<1>10. PICK m \in Nat \ {0} : n = m + 1 /\ m = n - 1  BY <1>9
<1>11. PICK u \in Seq(Thread) :
         /\ u = Tail(q) /\ Len(u) = m /\ \A i \in 1 .. m : i + 1 \in 1 .. n /\ u[i] = q[i + 1]
  <2>1. /\ Tail(q) \in Seq(Thread) /\ Len(Tail(q)) = n - 1
        /\ \A i \in 1 .. n - 1 : Tail(q)[i] = q[i + 1]
    BY <1>4, <1>5, <1>7, TailIs
  <2>2. \A i \in 1 .. m : i + 1 \in 1 .. n  BY <1>10
  <2> QED  BY <1>10, <2>1, <2>2
<1>12. PICK r2 \in RT : r2 = With(r, p, u) /\ r2[p] = u /\ \A s \in Ring!Prio : s # p => r2[s] = r[s]
  BY <1>4, WithFacts
<1>13. /\ u # <<>> /\ u[1] = q[2] /\ u[m] = q[n] /\ 1 \in 1 .. m /\ m \in 1 .. m
  <2>1. 1 \in 1 .. m /\ m \in 1 .. m /\ 1 + 1 = 2 /\ m # 0  BY <1>10
  <2>2. u[1] = q[2] /\ u[m] = q[n]  BY <1>10, <1>11, <2>1
  <2>3. Len(<<>>) = 0  OBVIOUS
  <2> QED  BY <1>11, <2>1, <2>2, <2>3
<1>14. hdr' = [hdr EXCEPT ![p] = u[1]] /\ UNCHANGED <<next, prev, map, sub>>
  BY <1>4, <1>5, <1>6, <1>9, <1>13 DEF Ring!DelOne, Ring!bits
<1>15. Ring!TypeOK'  BY <1>2, <1>9, <1>13, <1>14 DEF Ring!TypeOK, Ring!Node
<1>16. Hand(k) = {} /\ Hand(k)' = {t}  BY <1>2, <1>6 DEF Hand
<1>17. r2 = With(r, p, Tail(r[p]))  BY <1>5, <1>11, <1>12
<1>18. Places(k, r2)'
  <2>1. Places(k, With(r, p, Tail(r[p])))'  BY <1>2, <1>5, <1>6, <1>16, LeavePlaces
  <2> QED  BY <1>17, <2>1
<1>19. NextGap(k) = Null /\ PrevGap(k) = Null /\ Loose(k) = Null
  BY <1>2 DEF NextGap, PrevGap, Loose
<1>20. NextGap(k)' = p /\ PrevGap(k)' = p /\ Loose(k)' = t /\ thr'[k] = t
  BY <1>2, <1>4, <1>6 DEF NextGap, PrevGap, Loose
<1>21. Closed(k, r2)'
  <2> SUFFICES ASSUME NEW s \in Ring!Prio
               PROVE  /\ hdr'[s] = IF r2[s] = <<>> THEN Null ELSE r2[s][1]
                      /\ \A i \in 1 .. Len(r2[s]) :
                          /\ next'[r2[s][i]] = IF i < Len(r2[s]) THEN r2[s][i + 1]
                                               ELSE IF p = s THEN t ELSE r2[s][1]
                          /\ prev'[r2[s][i]] = IF i > 1 THEN r2[s][i - 1]
                                               ELSE IF p = s THEN t ELSE r2[s][Len(r2[s])]
    BY <1>20 DEF Closed
  <2>1. CASE s # p
    <3>1. r2[s] = r[s] /\ UNCHANGED <<hdr[s], next, prev>>  BY <1>12, <1>14, <2>1
    <3>2. /\ hdr[s] = IF r[s] = <<>> THEN Null ELSE r[s][1]
          /\ \A i \in 1 .. Len(r[s]) :
              /\ next[r[s][i]] = IF i < Len(r[s]) THEN r[s][i + 1] ELSE r[s][1]
              /\ prev[r[s][i]] = IF i > 1 THEN r[s][i - 1] ELSE r[s][Len(r[s])]
      BY <1>3, <1>19, <2>1 DEF Closed
    <3> QED  BY <2>1, <3>1, <3>2
  <2>2. CASE s = p
    <3>1. hdr'[p] = u[1]  BY <1>4, <1>14 DEF Ring!TypeOK
    <3>2. ASSUME NEW i \in 1 .. m
          PROVE  /\ next[u[i]] = IF i < m THEN u[i + 1] ELSE t
                 /\ prev[u[i]] = IF i > 1 THEN u[i - 1] ELSE t
      <4>1. PICK j \in 1 .. n : j = i + 1 /\ u[i] = q[j] /\ j > 1 /\ j - 1 = i  BY <1>11
      <4>2. j < n <=> i < m  BY <1>10, <4>1
      <4>3. i < m => u[j] = q[j + 1]
        <5>1. i < m => j \in 1 .. m  BY <1>10, <4>1
        <5> QED  BY <1>11, <5>1
      <4>4. next[q[j]] = IF j < n THEN q[j + 1] ELSE t  BY <1>8
      <4>5. next[u[i]] = IF i < m THEN u[i + 1] ELSE t  BY <4>1, <4>2, <4>3, <4>4
      <4>6. prev[q[j]] = q[i]  BY <1>8, <4>1
      <4>7. i > 1 => i - 1 \in 1 .. m /\ (i - 1) + 1 = i  BY <1>10
      <4>8. i > 1 => u[i - 1] = q[i]  BY <1>11, <4>7
      <4>9. ~(i > 1) => i = 1  OBVIOUS
      <4> QED  BY <1>6, <4>1, <4>5, <4>6, <4>8, <4>9
    <3>3. r2[s] = u /\ Len(u) = m /\ hdr'[s] = u[1] /\ UNCHANGED <<next, prev>>
      BY <1>11, <1>12, <1>14, <2>2, <3>1
    <3> QED  BY <1>13, <2>2, <3>2, <3>3
  <2> QED  BY <2>1, <2>2
<1>22. Moved(k, r2[pri[k]])'
  <2>1. r2[pri'[k]] = u  BY <1>2, <1>4, <1>12
  <2>2. next'[t] = u[1] /\ prev'[t] = u[Len(u)]  BY <1>9, <1>11, <1>13, <1>14
  <2> QED  BY <1>13, <1>20, <2>1, <2>2 DEF Moved
<1>23. Apart(k, r2)'
  <2> SUFFICES ASSUME NEW v \in Thread, v # t, v \notin On(r2[PrioOf[v]])
               PROVE  next[v] = Null /\ prev[v] = Null
    BY <1>14, <1>20 DEF Apart
  <2>1. PrioOf[v] \in Ring!Prio  OBVIOUS
  <2>2. v \notin On(r[PrioOf[v]])
    <3>1. ASSUME NEW i \in 1 .. n, v = q[i] PROVE v \in On(u)
      <4>1. i # 1  BY <1>6, <3>1
      <4>2. i - 1 \in 1 .. m /\ (i - 1) + 1 = i  BY <1>10, <4>1
      <4>3. u[i - 1] = v  BY <1>11, <3>1, <4>2
      <4> QED  BY <1>11, <4>2, <4>3 DEF On
    <3>2. v \in On(q) => v \in On(u)  BY <1>7, <3>1 DEF On
    <3> QED  BY <1>5, <1>12, <2>1, <3>2
  <2> QED  BY <1>3, <1>19, <2>2 DEF Apart
<1>24. Full(r2) = Full(r)  BY <1>4, <1>12, <1>13 DEF Full
<1>25. Bits(k, r2)'
  <2>1. Late(k, r) = {} /\ Stale(k, r) = {}  BY <1>2 DEF Late, Stale
  <2>2. Late(k, r2)' = {} /\ Stale(k, r2)' = {p}  BY <1>2, <1>4 DEF Late, Stale
  <2>3. sub' = Full(r2) \cup {p}  BY <1>3, <1>14, <1>24, <2>1 DEF Bits
  <2>4. map = Words(k) /\ Words(k)' = Words(k)  BY <1>2, <1>3, <1>14 DEF Bits, Words, Ring!Word
  <2> QED  BY <1>2, <1>14, <2>2, <2>3, <2>4 DEF Bits
<1>26. Facts(k, r2)'  BY <1>2, <1>4, <1>5, <1>6, <1>12, <1>13 DEF Facts
<1>27. Alone(k, r2)'  BY <1>15, <1>18, <1>21, <1>22, <1>23, <1>25, <1>26 DEF Alone, Good
<1> QED  BY <1>4, <1>17, <1>27
-----------------------------------------------------------------------------
\* What a step makes of the rings: nothing, or what the ready table does.
Moves(r, r2) ==
    \/ r2 = r
    \/ \E t \in Thread :
           /\ \A p \in Ring!Prio : t \notin On(r[p])
           /\ r2 = With(r, PrioOf[t], <<t>> \o r[PrioOf[t]])
    \/ \E p \in Full(r) :
           /\ \A s \in Full(r) : p <= s
           /\ r2 \in {With(r, p, Tail(r[p])), With(r, p, Tail(r[p]) \o <<r[p][1]>>)}

\* At first all rings are empty.
LEMMA RingInit ==
    ASSUME NEW k \in CPU, CPU = {k}, Ring!Init
    PROVE  Alone(k, [p \in Ring!Prio |-> <<>>])
<1> DEFINE r == [p \in Ring!Prio |-> <<>>]
<1>1. Len(<<>>) = 0 /\ <<>> \in Seq(Thread)  OBVIOUS
<1>2. r \in RT /\ \A p \in Ring!Prio : r[p] = <<>>  BY <1>1 DEF RT
<1>3. /\ rat[k] = "idle" /\ thr[k] = Null /\ init = Thread /\ out = {} /\ sub = {} /\ map = {}
      /\ \A p \in Ring!Prio : hdr[p] = Null
      /\ \A t \in Thread : next[t] = Null /\ prev[t] = Null
  BY DEF Ring!Init, Ring!Node
<1>4. Ring!TypeOK  BY DEF Ring!Init, Ring!TypeOK, Ring!Node, Ring!Word
<1>5. Hand(k) = {} /\ Loose(k) = Null  BY <1>3 DEF Hand, Loose
<1> HIDE DEF r
<1>6. \A p \in Ring!Prio : 1 .. Len(r[p]) = {}  BY <1>1, <1>2
<1>7. Places(k, r)  BY <1>3, <1>5, <1>6 DEF Places, Once
<1>8. Closed(k, r)  BY <1>2, <1>3, <1>6 DEF Closed
<1>9. Moved(k, r[pri[k]])  BY <1>5 DEF Moved
<1>10. Apart(k, r)  BY <1>3 DEF Apart
<1>11. Bits(k, r)
  <2>1. Full(r) = {} /\ Stale(k, r) = {} /\ Words(k) = {}  BY <1>2, <1>3 DEF Full, Stale, Words
  <2> QED  BY <1>3, <2>1 DEF Bits
<1>12. Facts(k, r)  BY <1>3 DEF Facts
<1> QED  BY <1>2, <1>4, <1>7, <1>8, <1>9, <1>10, <1>11, <1>12 DEF Alone, Good, r

\* Every step of a processor that is alone keeps the invariant, and what it makes of the
\* rings is a step of the ready table or none.
LEMMA RingNext ==
    ASSUME NEW k, NEW r, Alone(k, r), Ring!Next
    PROVE  \E r2 : Alone(k, r2)' /\ Moves(r, r2)
<1> DEFINE Goal == \E r2 : Alone(k, r2)' /\ Moves(r, r2)
<1>1. CPU = {k}  BY Kinds
<1>2. Alone(k, r)' => Goal  BY DEF Moves
<1> SUFFICES Goal  OBVIOUS
<1> HIDE DEF Goal
<1>3. ASSUME NEW t \in Thread, Ring!Start(k, t) \/ Ring!Back(k, t) PROVE Goal
  BY <1>2, <1>3, StartStep, BackStep
<1>4. CASE Ring!Fill(k)  BY <1>2, <1>4, FillStep
<1>5. CASE Ring!Started(k)  BY <1>2, <1>5, StartedStep
<1>6. CASE Ring!Read(k)  BY <1>2, <1>6, ReadStep
<1>7. CASE Ring!Link(k)  BY <1>2, <1>7, LinkStep
<1>8. CASE Ring!Left(k)  BY <1>2, <1>8, LeftStep
<1>9. CASE Ring!Right(k)  BY <1>2, <1>9, RightStep
<1>10. CASE Ring!Self(k)  BY <1>2, <1>10, SelfStep
<1>11. CASE Ring!Header(k)
  <2>1. PICK t \in Thread :
            /\ \A p \in Ring!Prio : t \notin On(r[p])
            /\ Alone(k, With(r, PrioOf[t], <<t>> \o r[PrioOf[t]]))'
    BY <1>11, HeaderStep
  <2>2. Moves(r, With(r, PrioOf[t], <<t>> \o r[PrioOf[t]]))  BY <2>1 DEF Moves
  <2> QED  BY <2>1, <2>2 DEF Goal
<1>12. CASE Ring!One(k)  BY <1>2, <1>12, OneStep
<1>13. CASE Ring!SetMap(k)  BY <1>2, <1>13, SetMapStep
<1>14. CASE Ring!SetSub(k)  BY <1>2, <1>14, SetSubStep
<1>15. CASE Ring!Rotate(k)
  <2>1. PICK p \in Full(r) :
            /\ \A s \in Full(r) : p <= s
            /\ Alone(k, With(r, p, Tail(r[p]) \o <<r[p][1]>>))'
    BY <1>15, RotateStep
  <2>2. Moves(r, With(r, p, Tail(r[p]) \o <<r[p][1]>>))  BY <2>1 DEF Moves
  <2> QED  BY <2>1, <2>2 DEF Goal
<1>16. CASE Ring!Seek(k)  BY <1>2, <1>16, SeekStep
<1>17. CASE Ring!DelLast(k) \/ Ring!DelOne(k)
  <2>1. PICK p \in Full(r) :
            (\A s \in Full(r) : p <= s) /\ Alone(k, With(r, p, Tail(r[p])))'
    BY <1>17, DelLastStep, DelOneStep
  <2>2. Moves(r, With(r, p, Tail(r[p])))  BY <2>1 DEF Moves
  <2> QED  BY <2>1, <2>2 DEF Goal
<1>18. CASE Ring!Unlink(k)  BY <1>2, <1>18, UnlinkStep
<1>19. CASE Ring!Join(k)  BY <1>2, <1>19, JoinStep
<1>20. CASE Ring!Empty(k)  BY <1>2, <1>20, EmptyStep
<1>21. CASE Ring!ClrSub(k)  BY <1>2, <1>21, ClrSubStep
<1>22. CASE Ring!Test(k)  BY <1>2, <1>22, TestStep
<1>23. CASE Ring!ClrMap(k)  BY <1>2, <1>23, ClrMapStep
<1> QED
  BY <1>1, <1>3, <1>4, <1>5, <1>6, <1>7, <1>8, <1>9, <1>10, <1>11, <1>12, <1>13, <1>14, <1>15,
     <1>16, <1>17, <1>18, <1>19, <1>20, <1>21, <1>22, <1>23 DEF Ring!Next

\* A step of others changes nothing of it.
LEMMA RingSame ==
    ASSUME NEW k, NEW r, Alone(k, r), UNCHANGED ready
    PROVE  Alone(k, r)'
<1>1. Ring!TypeOK'  BY DEF ready, Alone, Ring!TypeOK, Ring!Node, Ring!Word
<1>2. UNCHANGED <<Hand(k), Loose(k), NextGap(k), PrevGap(k)>>
  BY DEF ready, Hand, Loose, NextGap, PrevGap
<1>3. UNCHANGED <<Late(k, r), Stale(k, r), Words(k)>>  BY DEF ready, Late, Stale, Words, Ring!Word
<1>4. Places(k, r)'  BY <1>2 DEF ready, Alone, Good, Places
<1>5. Closed(k, r)'  BY <1>2 DEF ready, Alone, Good, Closed
<1>6. Moved(k, r[pri[k]])'  BY <1>2 DEF ready, Alone, Good, Moved
<1>7. Apart(k, r)'  BY <1>2 DEF ready, Alone, Good, Apart
<1>8. Bits(k, r)'  BY <1>3 DEF ready, Alone, Good, Bits
<1>9. Facts(k, r)'  BY <1>3 DEF ready, Alone, Good, Facts
<1> QED  BY <1>1, <1>4, <1>5, <1>6, <1>7, <1>8, <1>9 DEF Alone, Good
-----------------------------------------------------------------------------
\* The rings that the pointers describe
Described == [p \in Ring!Prio |-> Ring!RingOf(p)]

\* They are those of the invariant.
LEMMA DescribedIs ==
    ASSUME NEW k, NEW r PROVE Alone(k, r) => Described = r
<1> SUFFICES ASSUME Alone(k, r) PROVE Described = r  OBVIOUS
<1> USE Kinds
<1>1. Places(k, r) /\ Closed(k, r) /\ Facts(k, r)  BY DEF Good
<1>2. /\ Ring!Moving \subseteq Hand(k)
      /\ NextGap(k) # Null => thr[k] \in Ring!Moving
  BY DEF Ring!Moving, Hand, NextGap
<1>3. ASSUME NEW p \in Ring!Prio PROVE Ring!RingOf(p) = r[p]
  <2>1. PICK q \in Seq(Thread) : q = r[p]  BY DEF RT
  <2>2. hdr[p] = IF q = <<>> THEN Null ELSE q[1]  BY <1>1, <2>1 DEF Closed
  <2>3. \A i, j \in 1 .. Len(q) : q[i] = q[j] => i = j  BY <1>1, <2>1 DEF Places, Once
  <2>4. \A i \in 1 .. Len(q) : q[i] \notin Ring!Moving  BY <1>1, <1>2, <2>1 DEF Places
  <2>5. \A i \in 1 .. Len(q) : next[q[i]] = IF i < Len(q) THEN q[i + 1]
                                            ELSE IF NextGap(k) = p THEN thr[k] ELSE q[1]
    BY <1>1, <2>1 DEF Closed
  <2>6. ASSUME q # <<>> PROVE next[q[Len(q)]] \in {hdr[p]} \cup Ring!Moving
    <3>1. Len(q) \in 1 .. Len(q) /\ ~(Len(q) < Len(q))  BY <2>6
    <3> QED  BY <1>2, <2>2, <2>5, <2>6, <3>1
  <2>7. Chain(p, q)  BY <2>2, <2>3, <2>4, <2>5, <2>6 DEF Chain
  <2> QED  BY <2>1, <2>7, RingOfIs
<1> QED  BY <1>3 DEF Described, RT

\* So they are afterwards.
LEMMA DescribedNext ==
    ASSUME NEW k, NEW r PROVE (Alone(k, r) => Described = r)'
<1>1. Alone(k, r) => Described = r  BY DescribedIs
<1> QED  BY <1>1, PTL

\* A step of the rings is one of the ready table.
LEMMA TableStep ==
    ASSUME NEW k, NEW r, NEW r2, Alone(k, r), Alone(k, r2)', Moves(r, r2)
    PROVE  [Ring!Table!Next]_Described
<1> USE Kinds
<1>1. Described = r /\ Described' = r2 /\ r \in RT /\ r2 \in RT
  <2>1. Described = r  BY DescribedIs
  <2>2. Described' = r2  BY DescribedNext
  <2> QED  BY <2>1, <2>2 DEF Alone
<1>2. Ring!Table!Prio = Ring!Prio  BY DEF Ring!Table!Prio, Ring!Prio
<1>3. CASE r2 = r  BY <1>1, <1>3
<1>4. ASSUME NEW t \in Thread, \A p \in Ring!Prio : t \notin On(r[p]),
             r2 = With(r, PrioOf[t], <<t>> \o r[PrioOf[t]])
      PROVE  Ring!Table!Add(t)
  <2>1. \A q \in Ring!Prio : t \notin Ring!Table!Members(r[q])
    BY <1>1, <1>4 DEF Ring!Table!Members, On, RT
  <2>2. r2 = [r EXCEPT ![PrioOf[t]] = Ring!Table!AddAhead(@, t)]
    BY <1>4 DEF With, Ring!Table!AddAhead
  <2> QED  BY <1>1, <1>2, <2>1, <2>2 DEF Ring!Table!Add, Described
<1>5. ASSUME NEW p \in Full(r), \A s \in Full(r) : p <= s
      PROVE  /\ p \in Ring!Prio /\ Ring!Table!Urgent(p)
             /\ r2 = With(r, p, Tail(r[p])) => Ring!Table!Take(p)
             /\ r2 = With(r, p, Tail(r[p]) \o <<r[p][1]>>) => Ring!Table!Turn(p)
  <2>1. p \in Ring!Prio /\ r[p] \in Seq(Thread) /\ r[p] # <<>>  BY <1>1 DEF Full, RT
  <2>2. Ring!Table!Urgent(p)  BY <1>1, <1>2, <1>5, <2>1 DEF Ring!Table!Urgent, Full, Described
  <2>3. Ring!Table!Rotated(r[p]) = Tail(r[p]) \o <<r[p][1]>>
    BY <2>1, TailIs DEF Ring!Table!Rotated
  <2>4. r2 = With(r, p, Tail(r[p])) => Ring!Table!Take(p)
    BY <1>1, <2>2 DEF Ring!Table!Take, With, Described
  <2>5. ASSUME r2 = With(r, p, Tail(r[p]) \o <<r[p][1]>>) PROVE Ring!Table!Turn(p)
    <3>1. r2 = [r EXCEPT ![p] = Ring!Table!Rotated(@)]  BY <2>3, <2>5 DEF With
    <3> QED  BY <1>1, <2>2, <3>1 DEF Ring!Table!Turn, Described
  <2> QED  BY <2>1, <2>2, <2>4, <2>5
<1> QED  BY <1>2, <1>3, <1>4, <1>5 DEF Moves, Ring!Table!Next

\* The invariant of the rings.
RingInv(k) == \E r : Alone(k, r)

\* It holds at first, ...
LEMMA RingInvInit ==
    ASSUME NEW k \in CPU, CPU = {k}, TInit
    PROVE  RingInv(k) /\ Described = [p \in Ring!Prio |-> <<>>]
<1>1. Alone(k, [p \in Ring!Prio |-> <<>>])  BY RingInit DEF TInit
<1>2. Described = [p \in Ring!Prio |-> <<>>]  BY <1>1, DescribedIs
<1> QED  BY <1>1, <1>2 DEF RingInv

\* ... and every step of the whole keeps it and is one of the ready table.
LEMMA RingInvNext ==
    ASSUME NEW k, RingInv(k), [TNext]_<<vars, ready>>
    PROVE  RingInv(k)' /\ [Ring!Table!Next]_Described
<1>1. PICK r : Alone(k, r)  BY DEF RingInv
<1>2. CASE UNCHANGED ready
  <2>1. Alone(k, r)'  BY <1>1, <1>2, RingSame
  <2> QED  BY <1>1, <2>1, TableStep DEF RingInv, Moves
<1>3. CASE RingStep
  <2>1. PICK r2 : Alone(k, r2)' /\ Moves(r, r2)  BY <1>1, <1>3, RingNext DEF RingStep
  <2> QED  BY <1>1, <2>1, TableStep DEF RingInv
<1> QED  BY <1>2, <1>3 DEF TNext, ObjStep

\* On one processor the pointers and bits of the kernel, written one word at a time, are a
\* ready table: threads of a priority take turns, and the most urgent is taken.
THEOREM IsReadyTableOK ==
    ASSUME NEW k \in CPU, CPU = {k}
    PROVE  TSpec => IsReadyTable
<1>1. TInit => RingInv(k) /\ Described = [p \in Ring!Prio |-> <<>>]  BY RingInvInit
<1>2. RingInv(k) /\ [TNext]_<<vars, ready>> => RingInv(k)' /\ [Ring!Table!Next]_Described
  BY RingInvNext
<1>3. Described = [p \in Ring!Prio |-> <<>>] => Ring!Table!Init
  BY DEF Ring!Table!Init, Described, Ring!Table!Prio, Ring!Prio
<1>4. IsReadyTable <=> Ring!Table!Init /\ [][Ring!Table!Next]_Described
  BY DEF IsReadyTable, Ring!IsReadyTable, Ring!Table!Spec, Described
<1> QED  BY <1>1, <1>2, <1>3, <1>4, PTL DEF TSpec
-----------------------------------------------------------------------------
\* A thread that is no longer new, or is about to be, is one that a creator was given.
Given(k) == \A t \in Thread \ raced :
    (t \in init => rat[k] = "init" /\ thr[k] = t) => \E c \in Creator : t \in held[c]
ThreadsInv(k) == RingInv(k) /\ Types /\ OwnInv /\ Given(k)

\* Who is new and who is about to be started changes in vcpuStart only.
LEMMA NewOnly ==
    ASSUME NEW k \in CPU, CPU = {k}, Ring!TypeOK, Ring!Next
    PROVE  \/ init' = init /\ rat'[k] # "init"
           \/ init' = init /\ rat[k] = "idle" /\ rat'[k] = "init"
           \/ rat[k] = "init" /\ rat'[k] # "init" /\ init' = init \ {thr[k]}
  BY DEF Ring!Next, Ring!TypeOK, Ring!Start, Ring!Back, Ring!Fill, Ring!Begin, Ring!Started, Ring!Read,
         Ring!Link, Ring!Left, Ring!Right, Ring!Self, Ring!Header, Ring!One, Ring!SetMap,
         Ring!SetSub, Ring!Rotate, Ring!Seek, Ring!DelLast, Ring!DelOne, Ring!Unlink, Ring!Join,
         Ring!Empty, Ring!ClrSub, Ring!Test, Ring!ClrMap, Ring!Step, Ring!Go, Ring!End, Ring!Taken

\* Threads are started by who was given them, ...
LEMMA GivenRing ==
    ASSUME NEW k \in CPU, CPU = {k}, Ring!TypeOK, Given(k), RingStep
    PROVE  Given(k)'
<1> SUFFICES ASSUME NEW t \in Thread \ raced', t \in init' => rat'[k] = "init" /\ thr'[k] = t
             PROVE  \E c \in Creator : t \in held'[c]
  BY DEF Given
<1>1. held' = held /\ raced' = raced /\ Ring!Next /\ Starting \subseteq Created
  BY DEF RingStep, vars
<1>2. CASE init' = init /\ rat'[k] # "init"  BY <1>1, <1>2 DEF Given
<1>3. CASE init' = init /\ rat[k] = "idle" /\ rat'[k] = "init"
  <2>1. t \in init => t \in Starting  BY <1>3 DEF Starting
  <2> QED  BY <1>1, <1>3, <2>1 DEF Given, Created
<1>4. CASE rat[k] = "init" /\ rat'[k] # "init" /\ init' = init \ {thr[k]}
  BY <1>1, <1>4 DEF Given
<1> QED  BY <1>1, <1>2, <1>3, <1>4, NewOnly

\* ... who give back only threads that are new.
LEMMA GivenObj ==
    ASSUME NEW k \in CPU, CPU = {k}, Types, OwnInv, Given(k), ObjStep
    PROVE  Given(k)'
<1>1. UNCHANGED <<init, rat, thr>>  BY DEF ObjStep, ready
<1>2. CASE raced \subseteq raced' /\ \A c \in Creator : held[c] \subseteq held'[c]
  BY <1>1, <1>2 DEF Given
<1>3. ASSUME NEW c \in Creator, NEW o \in held[c], Free(c, o) PROVE Given(k)'
  <2>1. o \in Object /\ Get(ID(o)) = o /\ (o \notin raced => o \in used)
    BY <1>3, GetObject DEF Free, OwnInv, Has, Types, TypeOK
  <2>2. o \in Thread \ raced => o \in Fresh  BY <1>3, <2>1 DEF Free, ObjStep, Freeing
  <2>3. /\ raced' = raced /\ held'[c] = held[c] \ {o}
        /\ \A d \in Creator \ {c} : held'[d] = held[d]
    BY <1>3 DEF Free, Types, TypeOK
  <2> SUFFICES ASSUME NEW t \in Thread \ raced, t \in init => rat[k] = "init" /\ thr[k] = t
               PROVE  \E d \in Creator : t \in held'[d]
    BY <1>1, <2>3 DEF Given
  <2>4. PICK d \in Creator : t \in held[d]  BY DEF Given
  <2>5. t # o  BY <2>2 DEF Fresh
  <2>6. t \in held'[d]  BY <2>3, <2>4, <2>5
  <2> QED  BY <2>6
<1>4. ASSUME NEW c \in Creator,
             (\E l \in Class : Alloc(c, l)) \/ Look(c) \/ Find(c) \/ Fail(c) \/ Take(c)
      PROVE  Given(k)'
  <2>1. held' = held /\ raced \subseteq raced'  BY <1>4 DEF Alloc, Look, Find, Fail, Take
  <2> QED  BY <1>2, <2>1
<1>5. ASSUME NEW c \in Creator, Create(c) PROVE Given(k)'
  <2>1. raced' = raced /\ \A d \in Creator : held[d] \subseteq held'[d]
    BY <1>5 DEF Create, Types, TypeOK
  <2> QED  BY <1>2, <2>1
<1> QED  BY <1>3, <1>4, <1>5, CrewIs DEF ObjStep, Next

\* The invariant of the whole holds at first ...
LEMMA ThreadsInit ==
    ASSUME NEW k \in CPU, CPU = {k}, TInit
    PROVE  ThreadsInv(k)
<1>1. RingInv(k)  BY RingInvInit
<1>2. Types  BY TypesInit DEF TInit
<1>3. OwnInv  BY OwnInit DEF TInit
<1>4. init = Thread /\ rat[k] = "idle"  BY DEF TInit, Ring!Init
<1>5. Given(k)
  <2>1. \A t \in Thread : ~(t \in init => rat[k] = "init" /\ thr[k] = t)  BY <1>4
  <2> QED  BY <2>1 DEF Given
<1> QED  BY <1>1, <1>2, <1>3, <1>5 DEF ThreadsInv

\* ... and every step keeps it.
LEMMA ThreadsNext ==
    ASSUME NEW k \in CPU, CPU = {k}, ThreadsInv(k), [TNext]_<<vars, ready>>
    PROVE  ThreadsInv(k)'
<1>1. RingInv(k) /\ Types /\ OwnInv /\ Given(k)  BY DEF ThreadsInv
<1>2. RingInv(k)'  BY <1>1, RingInvNext
<1>3. [Next]_vars  BY DEF TNext, RingStep, ObjStep
<1>4. Types' /\ OwnInv'  BY <1>1, <1>3, TypesNext, OwnNext
<1>5. Ring!TypeOK  BY <1>1, Kinds DEF RingInv
<1>6. Given(k)'
  <2>1. CASE UNCHANGED <<vars, ready>>  BY <1>1, <2>1 DEF Given, vars, ready
  <2> QED  BY <1>1, <1>5, <2>1, GivenRing, GivenObj DEF TNext
<1> QED  BY <1>2, <1>4, <1>6 DEF ThreadsInv

\* Between operations the rings of the invariant are what Listed says.
LEMMA RingListed ==
    ASSUME NEW k, NEW r, Alone(k, r)
    PROVE  Ring!Found /\ Ring!Listed
<1> USE Kinds
<1>1. Places(k, r) /\ Closed(k, r) /\ Apart(k, r) /\ Bits(k, r) /\ Facts(k, r)  BY DEF Good
<1>2. Ring!Found  BY <1>1 DEF Facts, Ring!Found
<1>3. ASSUME Ring!Quiet
      PROVE  /\ \A t \in Thread \ (init \cup out) :
                    \E i \in DOMAIN Ring!RingOf(PrioOf[t]) : Ring!RingOf(PrioOf[t])[i] = t
             /\ \A t \in Thread : next[t] # Null => prev[next[t]] = t
             /\ sub = {p \in Ring!Prio : hdr[p] # Null}
             /\ map = {Ring!Word(p) : p \in sub}
  <2>1. rat[k] = "idle"  BY <1>3 DEF Ring!Quiet
  <2>2. Hand(k) = {} /\ Loose(k) = Null /\ NextGap(k) = Null /\ PrevGap(k) = Null
    BY <2>1 DEF Hand, Loose, NextGap, PrevGap
  <2>3. \A p \in Ring!Prio : Ring!RingOf(p) = r[p]
    <3>1. Described = r  BY DescribedIs
    <3> QED  BY <3>1 DEF Described
  <2>4. ASSUME NEW t \in Thread \ (init \cup out)
        PROVE  \E i \in DOMAIN Ring!RingOf(PrioOf[t]) : Ring!RingOf(PrioOf[t])[i] = t
    <3>1. t \in On(r[PrioOf[t]]) /\ PrioOf[t] \in Ring!Prio  BY <1>1, <2>2 DEF Places
    <3> QED  BY <2>3, <3>1 DEF On, RT
  <2>5. ASSUME NEW t \in Thread, next[t] # Null PROVE prev[next[t]] = t
    <3>1. t \in On(r[PrioOf[t]]) /\ PrioOf[t] \in Ring!Prio  BY <1>1, <2>2, <2>5 DEF Apart
    <3>2. PICK q \in Seq(Thread) : q = r[PrioOf[t]]  BY <3>1 DEF RT
    <3>3. PICK i \in 1 .. Len(q) : t = q[i]  BY <3>1, <3>2 DEF On
    <3>4. \A j \in 1 .. Len(q) :
            /\ next[q[j]] = IF j < Len(q) THEN q[j + 1] ELSE q[1]
            /\ prev[q[j]] = IF j > 1 THEN q[j - 1] ELSE q[Len(q)]
      BY <1>1, <2>2, <3>1, <3>2 DEF Closed
    <3>5. CASE i < Len(q)
      <4>1. i + 1 \in 1 .. Len(q) /\ i + 1 > 1 /\ (i + 1) - 1 = i  BY <3>5
      <4>2. prev[q[i + 1]] = q[i]  BY <3>4, <4>1
      <4> QED  BY <3>3, <3>4, <3>5, <4>2
    <3>6. CASE i = Len(q)
      <4>1. 1 \in 1 .. Len(q) /\ ~(i < Len(q)) /\ ~(1 > 1)  BY <3>6
      <4>2. prev[q[1]] = q[Len(q)]  BY <3>4, <4>1
      <4> QED  BY <3>3, <3>4, <3>6, <4>1, <4>2
    <3>7. i < Len(q) \/ i = Len(q)  OBVIOUS
    <3> QED  BY <3>5, <3>6, <3>7
  <2>6. Late(k, r) = {} /\ Stale(k, r) = {}  BY <2>1 DEF Late, Stale
  <2>7. sub = Full(r) /\ map = Words(k)  BY <1>1, <2>1, <2>6 DEF Bits
  <2>8. Full(r) = {p \in Ring!Prio : hdr[p] # Null}
    <3>1. \A p \in Ring!Prio : r[p] # <<>> => r[p][1] # Null  BY DEF RT
    <3> QED  BY <1>1, <3>1 DEF Closed, Full
  <2> QED  BY <2>4, <2>5, <2>7, <2>8 DEF Words
<1>4. Ring!Listed  BY <1>3 DEF Ring!Listed
<1> QED  BY <1>2, <1>4

\* On one processor, however many create threads, the rings hold the threads that are ready
\* and the bits agree with them between operations, and who is ready was created and is
\* still in use.
THEOREM ListedOK ==
    ASSUME NEW k \in CPU, CPU = {k}
    PROVE  TSpec => []Listed
<1>1. TInit => ThreadsInv(k)  BY ThreadsInit
<1>2. ThreadsInv(k) /\ [TNext]_<<vars, ready>> => ThreadsInv(k)'  BY ThreadsNext
<1>3. ThreadsInv(k) => Listed
  <2> SUFFICES ASSUME ThreadsInv(k) PROVE Listed  OBVIOUS
  <2>1. RingInv(k) /\ TypeOK /\ OwnInv /\ Given(k)  BY DEF ThreadsInv, Types
  <2>2. Ring!TypeOK /\ Ring!Found /\ Ring!Listed  BY <2>1, RingListed, Kinds DEF RingInv
  <2>3. ASSUME NEW t \in Thread \ (init \cup raced)
        PROVE  t \in used /\ \E d \in Creator : owner[t] = d /\ t \in held[d]
    <3>1. PICK d \in Creator : t \in held[d]  BY <2>1 DEF Given
    <3>2. t # Null  BY ThreadsFinite
    <3>3. t \in used /\ owner[t] = d  BY <2>1, <3>1, <3>2 DEF OwnInv, Has
    <3> QED  BY <3>1, <3>3
  <2> QED  BY <2>1, <2>2, <2>3 DEF Listed
<1> QED  BY <1>1, <1>2, <1>3, PTL DEF TSpec

\* An object that nobody took under the hands of another one has one owner, whatever the
\* scheduler does with threads and on however many processors.
THEOREM OwnThreads == TSpec => []Own
<1>1. TInit => Types /\ OwnInv  BY TypesInit, OwnInit DEF TInit
<1>2. [TNext]_<<vars, ready>> => [Next]_vars  BY DEF TNext, RingStep, ObjStep
<1>3. Types /\ OwnInv /\ [TNext]_<<vars, ready>> => (Types /\ OwnInv)'
  BY <1>2, TypesNext, OwnNext
<1> QED  BY <1>1, <1>3, OwnIs, PTL DEF TSpec
=============================================================================
