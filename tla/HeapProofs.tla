------------------------------ MODULE HeapProofs ------------------------------
(* The kernel heap is sound for memories, tables and requests of any size, and      *)
(* partitions of a sound plan have memory of their own.                          *)
EXTENDS Partitions, TLAPS

\* A segment that is not empty and lies in the RAM.
Proper(g) == RamLo <= g.lo /\ g.lo <= g.hi /\ g.hi <= RamHi

\* A table of proper segments that do not overlap, and in which free neighbours are merged.
SoundTable(s) ==
    /\ s \in Seq(Segment) /\ Len(s) <= MaxSegments
    /\ \A i \in 1 .. Len(s) : Proper(s[i])
    /\ \A i, j \in 1 .. Len(s) : i # j => Disjunct(s[i], s[j])
Merged(s) ==
    \A i, j \in 1 .. Len(s) : s[i].own = NoOne /\ s[j].own = NoOne => s[i].hi + 1 # s[j].lo

\* An address is in a segment.
At(s, a) == \E i \in 1 .. Len(s) : s[i].lo <= a /\ a <= s[i].hi

\* h lies in a segment of its owner.
Owned(s, h) == \E i \in 1 .. Len(s) : s[i].own = h.own /\ s[i].lo <= h.lo /\ h.hi <= s[i].hi

HeapInv ==
    /\ SoundTable(segments) /\ Merged(segments)
    /\ held \subseteq Segment
    /\ \A h \in held : h.own # NoOne /\ Proper(h) /\ Owned(segments, h)

\* A size with its alignment, if it has one, does not reach beyond the last address.
Moderate(size, align) == align = 1 \/ RamHi + size + align <= WordMod
NoWrap == \A a \in Asks : Moderate(a[1], a[2])
-----------------------------------------------------------------------------
\* The fields of a segment are addresses and an owner.
LEMMA Fields ==
    ASSUME NEW g \in Segment
    PROVE  /\ g.lo \in Nat /\ g.hi \in Nat /\ g.lo < WordMod /\ g.hi < WordMod
           /\ g.own \in Owners \cup {NoOne}
  BY HeapAssumption DEF Segment, Addr

\* What is next to a part of a segment but not in the segment is next to the segment.
LEMMA Neighbours ==
    ASSUME NEW a \in Nat, NEW b \in Nat, NEW c \in Nat, NEW d \in Nat, NEW x \in Nat,
           NEW y \in Nat, a <= b, b < c \/ d < a, c <= x, x <= y, y <= d
    PROVE  (b + 1 = x => b + 1 = c) /\ (y + 1 = a => d + 1 = a)
  OBVIOUS

\* What is not in a segment does not end in it.
LEMMA Far ==
    ASSUME NEW a \in Nat, NEW b \in Nat, NEW c \in Nat, NEW d \in Nat, NEW x \in Nat,
           NEW y \in Nat, a <= b, b < c \/ d < a, c <= x, x <= y, y < d
    PROVE  b + 1 # y + 1
  OBVIOUS

\* A segment that is added comes last, if there is room for it.
LEMMA Adding ==
    ASSUME NEW s \in Seq(Segment), NEW g \in Segment, Len(s) <= MaxSegments
    PROVE  /\ AddSegment(s, g) \in Seq(Segment) /\ Len(AddSegment(s, g)) <= MaxSegments
           /\ \A i \in 1 .. Len(s) : i \in 1 .. Len(AddSegment(s, g)) /\ AddSegment(s, g)[i] = s[i]
           /\ \A i \in 1 .. Len(AddSegment(s, g)) :
                 i \in 1 .. Len(s) \/ (i = Len(s) + 1 /\ AddSegment(s, g)[i] = g)
           /\ Len(s) < MaxSegments =>
                 Len(s) + 1 \in 1 .. Len(AddSegment(s, g)) /\ AddSegment(s, g)[Len(s) + 1] = g
  BY HeapAssumption DEF AddSegment

\* A segment that is deleted is gone, and no other one.
LEMMA Deleting ==
    ASSUME NEW s \in Seq(Segment), NEW k \in 1 .. Len(s)
    PROVE  /\ DeleteSegment(s, k) \in Seq(Segment) /\ Len(DeleteSegment(s, k)) = Len(s) - 1
           /\ \A i \in 1 .. Len(s) - 1 :
                 DeleteSegment(s, k)[i] = s[IF i < k THEN i ELSE i + 1]
           /\ \A j \in (1 .. Len(s)) \ {k} : \E i \in 1 .. Len(s) - 1 : DeleteSegment(s, k)[i] = s[j]
<1> DEFINE d == DeleteSegment(s, k)
<1>1. Len(s) \in Nat /\ Len(s) - 1 \in Nat  OBVIOUS
<1>2. \A i \in 1 .. Len(s) - 1 : s[IF i < k THEN i ELSE i + 1] \in Segment  BY <1>1
<1>3. d = [i \in 1 .. Len(s) - 1 |-> s[IF i < k THEN i ELSE i + 1]]
  BY DEF DeleteSegment
<1>4. d \in Seq(Segment) /\ Len(d) = Len(s) - 1  BY <1>1, <1>2, <1>3
<1>5. \A i \in 1 .. Len(s) - 1 : d[i] = s[IF i < k THEN i ELSE i + 1]  BY <1>3
<1>6. ASSUME NEW j \in (1 .. Len(s)) \ {k} PROVE \E i \in 1 .. Len(s) - 1 : d[i] = s[j]
  <2>1. CASE j < k  BY <2>1, <1>1, <1>5
  <2>2. CASE j > k
    <3>1. j - 1 \in 1 .. Len(s) - 1 /\ ~(j - 1 < k) /\ j - 1 + 1 = j  BY <2>2, <1>1
    <3> QED  BY <3>1, <1>5
  <2> QED  BY <1>1, <2>1, <2>2
<1> QED  BY <1>4, <1>5, <1>6

\* All other segments survive a deletion.
LEMMA Kept ==
    ASSUME NEW s \in Seq(Segment), NEW k \in 1 .. Len(s), NEW i \in 1 .. Len(s), i # k
    PROVE  \E j \in 1 .. Len(s) - 1 : DeleteSegment(s, k)[j] = s[i]
<1>1. i \in (1 .. Len(s)) \ {k}  OBVIOUS
<1> QED  BY <1>1, Deleting

\* With room left, a table holds what it held and what was added.
LEMMA Added ==
    ASSUME NEW s \in Seq(Segment), NEW g \in Segment, Len(s) < MaxSegments,
           NEW t, t = AddSegment(s, g)
    PROVE  /\ t \in Seq(Segment) /\ Len(t) = Len(s) + 1
           /\ \A k \in 1 .. Len(s) : k \in 1 .. Len(t) /\ t[k] = s[k]
           /\ \A k \in 1 .. Len(t) : (k \in 1 .. Len(s) /\ t[k] = s[k]) \/ t[k] = g
           /\ Len(s) + 1 \in 1 .. Len(t) /\ t[Len(s) + 1] = g
<1>1. t = Append(s, g)  BY DEF AddSegment
<1>2. t \in Seq(Segment) /\ Len(t) = Len(s) + 1 /\ Len(s) \in Nat /\ t[Len(s) + 1] = g  BY <1>1
<1>3. \A k \in 1 .. Len(s) : k \in 1 .. Len(t) /\ t[k] = s[k]  BY <1>1
<1>4. ASSUME NEW k \in 1 .. Len(t) PROVE (k \in 1 .. Len(s) /\ t[k] = s[k]) \/ t[k] = g
  <2>1. k \in 1 .. Len(s) \/ k = Len(s) + 1  BY <1>2
  <2> QED  BY <1>2, <1>3, <2>1
<1> QED  BY <1>2, <1>3, <1>4

\* What is added apart from all others leaves the table sound.
LEMMA AddSound ==
    ASSUME NEW s, SoundTable(s), NEW g \in Segment, Proper(g),
           \A i \in 1 .. Len(s) : Disjunct(s[i], g)
    PROVE  SoundTable(AddSegment(s, g))
<1> DEFINE t == AddSegment(s, g)
<1>1. s \in Seq(Segment) /\ Len(s) <= MaxSegments  BY DEF SoundTable
<1>2. t \in Seq(Segment) /\ Len(t) <= MaxSegments  BY <1>1, Adding
<1>3. \A i \in 1 .. Len(t) : (i \in 1 .. Len(s) /\ t[i] = s[i]) \/ (i = Len(s) + 1 /\ t[i] = g)
  BY <1>1, Adding
<1>4. ASSUME NEW i \in 1 .. Len(t) PROVE Proper(t[i])
  BY <1>3 DEF SoundTable
<1>5. ASSUME NEW i \in 1 .. Len(t), NEW j \in 1 .. Len(t), i # j PROVE Disjunct(t[i], t[j])
  <2>1. \A k \in 1 .. Len(s) : Disjunct(g, s[k])  BY DEF Disjunct
  <2> QED  BY <1>3, <1>5, <2>1 DEF SoundTable
<1> QED  BY <1>2, <1>4, <1>5 DEF SoundTable

\* A deletion leaves the table sound and merged; what is left is apart from what is gone.
LEMMA DeleteSound ==
    ASSUME NEW s, SoundTable(s), NEW k \in 1 .. Len(s)
    PROVE  /\ SoundTable(DeleteSegment(s, k))
           /\ Merged(s) => Merged(DeleteSegment(s, k))
           /\ \A i \in 1 .. Len(DeleteSegment(s, k)) :
                 Disjunct(DeleteSegment(s, k)[i], s[k]) /\ Disjunct(s[k], DeleteSegment(s, k)[i])
<1> DEFINE t == DeleteSegment(s, k)
           Old(i) == IF i < k THEN i ELSE i + 1
<1>1. s \in Seq(Segment) /\ Len(s) <= MaxSegments  BY DEF SoundTable
<1>2. t \in Seq(Segment) /\ Len(t) = Len(s) - 1  BY <1>1, Deleting
<1>3. Len(s) \in Nat  BY <1>1
<1>4. \A i \in 1 .. Len(t) : Old(i) \in 1 .. Len(s) /\ Old(i) # k /\ t[i] = s[Old(i)]
  <2>1. \A i \in 1 .. Len(s) - 1 : Old(i) \in 1 .. Len(s) /\ Old(i) # k  BY <1>3
  <2>2. \A i \in 1 .. Len(s) - 1 : t[i] = s[Old(i)]  BY <1>1, Deleting
  <2> QED  BY <1>2, <2>1, <2>2
<1>5. \A i, j \in 1 .. Len(t) : i # j => Old(i) # Old(j)  BY <1>2, <1>3
<1> HIDE DEF t, Old
<1>6. Len(t) <= MaxSegments
  <2>1. MaxSegments \in Nat  BY HeapAssumption
  <2> QED  BY <1>1, <1>2, <1>3, <2>1
<1>7. \A i \in 1 .. Len(t) : Proper(t[i])  BY <1>4 DEF SoundTable
<1>8. \A i, j \in 1 .. Len(t) : i # j => Disjunct(t[i], t[j])  BY <1>4, <1>5 DEF SoundTable
<1>9. Merged(s) => Merged(t)  BY <1>4 DEF Merged
<1>10. \A i \in 1 .. Len(t) : Disjunct(t[i], s[k]) /\ Disjunct(s[k], t[i])
  BY <1>4 DEF SoundTable
<1> QED  BY <1>2, <1>6, <1>7, <1>8, <1>9, <1>10 DEF SoundTable, t

\* A part of a segment is apart from all other segments.
LEMMA PartApart ==
    ASSUME NEW s, SoundTable(s), NEW k \in 1 .. Len(s), NEW g \in Segment,
           s[k].lo <= g.lo, g.hi <= s[k].hi, NEW i \in 1 .. Len(s), i # k
    PROVE  Disjunct(s[i], g) /\ Disjunct(g, s[i])
<1>1. Disjunct(s[i], s[k]) /\ s[i] \in Segment /\ s[k] \in Segment  BY DEF SoundTable
<1>2. /\ s[i].lo \in Nat /\ s[i].hi \in Nat /\ s[k].lo \in Nat /\ s[k].hi \in Nat
      /\ g.lo \in Nat /\ g.hi \in Nat
  BY <1>1, Fields
<1> QED  BY <1>1, <1>2 DEF Disjunct

\* A segment that becomes smaller leaves the table sound.
LEMMA ShrinkSound ==
    ASSUME NEW s, SoundTable(s), NEW k \in 1 .. Len(s), NEW g \in Segment, Proper(g),
           s[k].lo <= g.lo, g.hi <= s[k].hi
    PROVE  SoundTable([s EXCEPT ![k] = g])
<1> DEFINE t == [s EXCEPT ![k] = g]
<1>1. s \in Seq(Segment) /\ s[k] \in Segment  BY DEF SoundTable
<1>2. t \in Seq(Segment) /\ Len(t) = Len(s)  BY <1>1
<1>3. t[k] = g /\ \A i \in 1 .. Len(s) : i # k => t[i] = s[i]  BY <1>1
<1> HIDE DEF t
<1>5. \A i \in 1 .. Len(s) : i # k => Disjunct(s[i], g) /\ Disjunct(g, s[i])
  BY PartApart
<1>6. \A i \in 1 .. Len(t) : Proper(t[i])  BY <1>2, <1>3 DEF SoundTable
<1>7. \A i, j \in 1 .. Len(t) : i # j => Disjunct(t[i], t[j])
  BY <1>2, <1>3, <1>5 DEF SoundTable
<1> QED  BY <1>2, <1>6, <1>7 DEF SoundTable, t

\* A free segment that becomes smaller, or somebody's, gets no free neighbour, and nobody
\* loses by it.
LEMMA ShrinkMerged ==
    ASSUME NEW s, SoundTable(s), Merged(s), NEW k \in 1 .. Len(s), s[k].own = NoOne,
           NEW g \in Segment, Proper(g), s[k].lo <= g.lo, g.hi <= s[k].hi
    PROVE  /\ Merged([s EXCEPT ![k] = g])
           /\ \A h \in Segment : h.own # NoOne /\ Owned(s, h) => Owned([s EXCEPT ![k] = g], h)
<1> DEFINE t == [s EXCEPT ![k] = g]
<1>1. s \in Seq(Segment) /\ \A i \in 1 .. Len(s) : s[i] \in Segment  BY DEF SoundTable
<1>2. Len(t) = Len(s) /\ t[k] = g /\ \A i \in 1 .. Len(s) : i # k => t[i] = s[i]  BY <1>1
<1> HIDE DEF t
<1>3. ASSUME NEW j \in 1 .. Len(s), j # k, s[j].own = NoOne
      PROVE  s[j].hi + 1 # g.lo /\ g.hi + 1 # s[j].lo
  <2>1. Disjunct(s[j], s[k]) /\ Proper(s[j])  BY <1>3 DEF SoundTable
  <2>2. s[j].hi + 1 # s[k].lo /\ s[k].hi + 1 # s[j].lo  BY <1>3 DEF Merged
  <2>3. /\ s[j].lo \in Nat /\ s[j].hi \in Nat /\ s[k].lo \in Nat /\ s[k].hi \in Nat
        /\ g.lo \in Nat /\ g.hi \in Nat
    BY <1>1, Fields
  <2>4. s[j].lo <= s[j].hi /\ g.lo <= g.hi  BY <2>1 DEF Proper
  <2>5. s[j].hi < s[k].lo \/ s[k].hi < s[j].lo  BY <2>1 DEF Disjunct
  <2>6. s[k].lo <= g.lo /\ g.hi <= s[k].hi  OBVIOUS
  <2>7. (s[j].hi + 1 = g.lo => s[j].hi + 1 = s[k].lo) /\ (g.hi + 1 = s[j].lo => s[k].hi + 1 = s[j].lo)
    BY <2>3, <2>4, <2>5, <2>6, Neighbours, SMTT(30)
  <2>8. s[j].hi + 1 # g.lo  BY <2>2, <2>7
  <2>9. g.hi + 1 # s[j].lo  BY <2>2, <2>7
  <2> QED  BY <2>8, <2>9
<1>4. g.hi + 1 # g.lo
  <2>1. g.lo \in Nat /\ g.hi \in Nat /\ g.lo <= g.hi  BY Fields DEF Proper
  <2> QED  BY <2>1
<1>5. Merged(t)  BY <1>2, <1>3, <1>4 DEF Merged
<1>6. ASSUME NEW h \in Segment, h.own # NoOne, Owned(s, h) PROVE Owned(t, h)
  <2>1. PICK i \in 1 .. Len(s) : s[i].own = h.own /\ s[i].lo <= h.lo /\ h.hi <= s[i].hi
    BY <1>6 DEF Owned
  <2> QED  BY <1>2, <1>6, <2>1 DEF Owned
<1> QED  BY <1>5, <1>6 DEF t

\* A segment that is added next to no free one, or is owned, keeps the table merged, and
\* nobody loses by it.
LEMMA AddMerged ==
    ASSUME NEW s, SoundTable(s), Merged(s), NEW g \in Segment, Proper(g),
           \A i \in 1 .. Len(s) : s[i].own = NoOne /\ g.own = NoOne =>
               s[i].hi + 1 # g.lo /\ g.hi + 1 # s[i].lo
    PROVE  /\ Merged(AddSegment(s, g))
           /\ \A h \in Segment : Owned(s, h) => Owned(AddSegment(s, g), h)
           /\ Len(s) < MaxSegments => Owned(AddSegment(s, g), g)
<1> DEFINE t == AddSegment(s, g)
<1>1. s \in Seq(Segment) /\ Len(s) <= MaxSegments  BY DEF SoundTable
<1>2. \A i \in 1 .. Len(t) : (i \in 1 .. Len(s) /\ t[i] = s[i]) \/ t[i] = g
  BY <1>1, Adding
<1>3. \A i \in 1 .. Len(s) : i \in 1 .. Len(t) /\ t[i] = s[i]  BY <1>1, Adding
<1>4. Len(s) < MaxSegments => Len(s) + 1 \in 1 .. Len(t) /\ t[Len(s) + 1] = g
  BY <1>1, Adding
<1>5. g.lo \in Nat /\ g.hi \in Nat /\ g.lo <= g.hi  BY Fields DEF Proper
<1> HIDE DEF t
<1>6. g.hi + 1 # g.lo  BY <1>5
<1>7. Merged(t)  BY <1>2, <1>6 DEF Merged
<1>8. \A h \in Segment : Owned(s, h) => Owned(t, h)  BY <1>3 DEF Owned
<1>9. Len(s) < MaxSegments => Owned(t, g)  BY <1>4, <1>5 DEF Owned
<1> QED  BY <1>7, <1>8, <1>9 DEF t
-----------------------------------------------------------------------------
\* t is a sound table in which everybody still has what he had in s.
Goes(s, t) ==
    /\ SoundTable(t) /\ Merged(t)
    /\ \A h \in Segment : h.own # NoOne /\ Owned(s, h) => Owned(t, h)

\* Such is a table in which a free segment becomes smaller, or somebody's.
LEMMA ShrinkGoes ==
    ASSUME NEW s, SoundTable(s), Merged(s), NEW k \in 1 .. Len(s), s[k].own = NoOne,
           NEW g \in Segment, Proper(g), s[k].lo <= g.lo, g.hi <= s[k].hi
    PROVE  Goes(s, [s EXCEPT ![k] = g])
<1>1. SoundTable([s EXCEPT ![k] = g])  BY ShrinkSound
<1>2. Merged([s EXCEPT ![k] = g])  BY ShrinkMerged
<1>3. \A h \in Segment : h.own # NoOne /\ Owned(s, h) => Owned([s EXCEPT ![k] = g], h)
  BY ShrinkMerged
<1> QED  BY <1>1, <1>2, <1>3 DEF Goes

\* A free segment becomes somebody's as a whole.
LEMMA SplitWhole ==
    ASSUME NEW s, SoundTable(s), Merged(s), NEW i \in 1 .. Len(s), s[i].own = NoOne,
           NEW g \in Segment, Proper(g), s[i].lo = g.lo, s[i].hi = g.hi
    PROVE  Goes(s, Split(s, i, g)) /\ Owned(Split(s, i, g), g)
<1>1. s \in Seq(Segment) /\ s[i] \in Segment  BY DEF SoundTable
<1>2. [s[i] EXCEPT !.own = g.own] = g  BY <1>1 DEF Segment
<1>3. Split(s, i, g) = [s EXCEPT ![i] = g]  BY <1>2 DEF Split
<1>4. s[i].lo <= g.lo /\ g.hi <= s[i].hi
  <2>1. g.lo \in Nat /\ g.hi \in Nat  BY Fields
  <2> QED  BY <2>1
<1>6. Goes(s, Split(s, i, g))
  <2>1. Goes(s, [s EXCEPT ![i] = g])  BY <1>4, ShrinkGoes
  <2> QED  BY <1>3, <2>1
<1>7. i \in 1 .. Len(Split(s, i, g)) /\ Split(s, i, g)[i] = g  BY <1>1, <1>3
<1>8. g.lo \in Nat /\ g.hi \in Nat  BY Fields
<1>9. g.lo <= g.lo /\ g.hi <= g.hi  BY <1>8
<1>10. Owned(Split(s, i, g), g)  BY <1>7, <1>9 DEF Owned
<1> QED  BY <1>6, <1>10

\* What is left of a free segment beside the part g that becomes somebody's.
LEMMA CutGoes ==
    ASSUME NEW s, SoundTable(s), Merged(s), NEW i \in 1 .. Len(s), s[i].own = NoOne,
           NEW g \in Segment, Proper(g), s[i].lo <= g.lo, g.hi <= s[i].hi, g.own # NoOne,
           s[i].lo # g.lo \/ s[i].hi # g.hi
    PROVE  LET t == Cut(s, i, g)
               c == t[i]
           IN  /\ Goes(s, t) /\ Len(t) = Len(s)
               /\ c \in Segment /\ c.own = NoOne
               /\ c.lo = IF s[i].lo = g.lo THEN g.hi + 1 ELSE s[i].lo
               /\ c.hi = IF s[i].lo = g.lo THEN s[i].hi ELSE g.lo - 1
               /\ \A j \in 1 .. Len(s) : j # i => t[j] = s[j]
               /\ \A j \in 1 .. Len(t) : Disjunct(t[j], g)
<1> DEFINE c == IF s[i].lo = g.lo THEN [s[i] EXCEPT !.lo = g.hi + 1]
                                  ELSE [s[i] EXCEPT !.hi = g.lo - 1]
<1>1. s \in Seq(Segment) /\ s[i] \in Segment /\ Proper(s[i])  BY DEF SoundTable
<1>2. /\ s[i].lo \in Nat /\ s[i].hi \in Nat /\ s[i].lo < WordMod /\ s[i].hi < WordMod
      /\ g.lo \in Nat /\ g.hi \in Nat /\ g.lo <= g.hi /\ WordMod \in Nat
      /\ RamLo \in Nat /\ RamHi \in Nat
  BY <1>1, Fields, HeapAssumption DEF Proper, Addr
<1>3. /\ s[i].lo = g.lo => Word(g.hi + 1) = g.hi + 1 /\ g.hi + 1 <= s[i].hi
      /\ s[i].lo # g.lo => Word(g.lo - 1) = g.lo - 1 /\ s[i].lo <= g.lo - 1
  <2>1. CASE s[i].lo = g.lo  BY <1>2, <2>1 DEF Word
  <2>2. CASE s[i].lo # g.lo  BY <1>2, <2>2 DEF Word
  <2> QED  BY <2>1, <2>2
<1>4. Cut(s, i, g) = [s EXCEPT ![i] = c]  BY <1>3 DEF Cut
<1>5. /\ c.own = NoOne
      /\ c.lo = IF s[i].lo = g.lo THEN g.hi + 1 ELSE s[i].lo
      /\ c.hi = IF s[i].lo = g.lo THEN s[i].hi ELSE g.lo - 1
  BY <1>1 DEF Segment
<1>6. c.lo \in Addr /\ c.hi \in Addr  BY <1>2, <1>3, <1>5, SMTT(30) DEF Addr
<1>7. c \in Segment  BY <1>1, <1>6 DEF Segment
<1>8. Proper(c) /\ s[i].lo <= c.lo /\ c.hi <= s[i].hi  BY <1>1, <1>2, <1>3, <1>5, SMTT(30) DEF Proper
<1>9. Disjunct(c, g)  BY <1>2, <1>5 DEF Disjunct
<1> HIDE DEF c
<1>10. Goes(s, Cut(s, i, g))
  <2>1. Goes(s, [s EXCEPT ![i] = c])  BY <1>7, <1>8, ShrinkGoes
  <2> QED  BY <1>4, <2>1
<1>11. /\ Len(Cut(s, i, g)) = Len(s) /\ Cut(s, i, g)[i] = c
       /\ \A j \in 1 .. Len(s) : j # i => Cut(s, i, g)[j] = s[j]
  BY <1>1, <1>4
<1>12. \A j \in 1 .. Len(s) : j # i => Disjunct(s[j], g)  BY PartApart
<1>13. \A j \in 1 .. Len(s) : Disjunct(Cut(s, i, g)[j], g)  BY <1>9, <1>11, <1>12
<1> QED  BY <1>5, <1>7, <1>10, <1>11, <1>13

\* Such is a table with one segment more, apart from the others and next to no free one.
LEMMA AddGoes ==
    ASSUME NEW s, SoundTable(s), Merged(s), NEW g \in Segment, Proper(g),
           \A i \in 1 .. Len(s) : Disjunct(s[i], g),
           \A i \in 1 .. Len(s) : s[i].own = NoOne /\ g.own = NoOne =>
               s[i].hi + 1 # g.lo /\ g.hi + 1 # s[i].lo
    PROVE  Goes(s, AddSegment(s, g)) /\ (Len(s) < MaxSegments => Owned(AddSegment(s, g), g))
<1>1. SoundTable(AddSegment(s, g))  BY AddSound
<1>2. Merged(AddSegment(s, g))  BY AddMerged
<1>3. \A h \in Segment : Owned(s, h) => Owned(AddSegment(s, g), h)  BY AddMerged
<1>4. Len(s) < MaxSegments => Owned(AddSegment(s, g), g)  BY AddMerged
<1> QED  BY <1>1, <1>2, <1>3, <1>4 DEF Goes

\* One after the other.
LEMMA GoesOn ==
    ASSUME NEW s, NEW t, NEW u, Goes(s, t), Goes(t, u)
    PROVE  Goes(s, u)
  BY DEF Goes

\* A part of a free segment becomes somebody's, what is left of it beside that part stays
\* free; and if there was room for the pieces, the new owner is in the table.
LEMMA SplitPart ==
    ASSUME NEW s, SoundTable(s), Merged(s), NEW i \in 1 .. Len(s), s[i].own = NoOne,
           NEW g \in Segment, Proper(g), s[i].lo <= g.lo, g.hi <= s[i].hi, g.own # NoOne,
           s[i].lo # g.lo \/ s[i].hi # g.hi
    PROVE  /\ Goes(s, Split(s, i, g))
           /\ Len(s) + Pieces(s, i, g) <= MaxSegments => Owned(Split(s, i, g), g)
<1> DEFINE t == Cut(s, i, g)
           u == AddSegment(t, g)
           r == Rest(s, i, g)
<1>1. s \in Seq(Segment) /\ s[i] \in Segment /\ Proper(s[i])  BY DEF SoundTable
<1>2. /\ s[i].lo \in Nat /\ s[i].hi \in Nat /\ s[i].lo < WordMod /\ s[i].hi < WordMod
      /\ g.lo \in Nat /\ g.hi \in Nat /\ g.lo <= g.hi /\ WordMod \in Nat
      /\ RamLo \in Nat /\ RamHi \in Nat /\ Len(s) \in Nat /\ MaxSegments \in Nat
  BY <1>1, Fields, HeapAssumption DEF Proper, Addr
<1>3. Goes(s, t) /\ Len(t) = Len(s)  BY CutGoes
<1>4. \A j \in 1 .. Len(t) : Disjunct(t[j], g)  BY CutGoes
<1>5. /\ t[i].lo = IF s[i].lo = g.lo THEN g.hi + 1 ELSE s[i].lo
      /\ t[i].hi = IF s[i].lo = g.lo THEN s[i].hi ELSE g.lo - 1
      /\ \A j \in 1 .. Len(s) : j # i => t[j] = s[j]
  BY CutGoes
<1> HIDE DEF t
<1>6. SoundTable(t) /\ Merged(t)  BY <1>3 DEF Goes
<1>7. Goes(t, u) /\ (Len(t) < MaxSegments => Owned(u, g))  BY <1>4, <1>6, AddGoes
<1>8. Goes(s, u)  BY <1>3, <1>7, GoesOn
<1>9. CASE s[i].lo = g.lo \/ s[i].hi = g.hi
  <2>1. Split(s, i, g) = u /\ Pieces(s, i, g) = 1  BY <1>9 DEF Split, Pieces, t
  <2>2. Len(s) + 1 <= MaxSegments => Len(t) < MaxSegments  BY <1>2, <1>3
  <2> QED  BY <1>7, <1>8, <2>1, <2>2
<1>10. CASE s[i].lo # g.lo /\ s[i].hi # g.hi
  <2>1. Split(s, i, g) = AddSegment(u, r) /\ Pieces(s, i, g) = 2
    BY <1>10 DEF Split, Pieces, t
  <2>2. Word(g.hi + 1) = g.hi + 1 /\ g.hi + 1 <= s[i].hi  BY <1>2, <1>10 DEF Word
  <2>3. r.own = NoOne /\ r.lo = g.hi + 1 /\ r.hi = s[i].hi  BY <2>2 DEF Rest
  <2>4. r \in Segment  BY <1>1, <1>2, <2>2 DEF Rest, Segment, Addr
  <2>5. Proper(r) /\ s[i].lo <= r.lo /\ r.hi <= s[i].hi  BY <1>1, <1>2, <2>2, <2>3, SMTT(30) DEF Proper
  <2> HIDE DEF r
  <2>6. \A j \in 1 .. Len(u) : (j \in 1 .. Len(s) /\ u[j] = t[j]) \/ u[j] = g
    <3>1. t \in Seq(Segment) /\ Len(t) <= MaxSegments  BY <1>6 DEF SoundTable
    <3>2. \A j \in 1 .. Len(t) : u[j] = t[j]  BY <3>1, Adding
    <3>3. \A j \in 1 .. Len(u) : j \in 1 .. Len(t) \/ u[j] = g  BY <3>1, Adding
    <3> QED  BY <1>3, <3>2, <3>3
  <2> HIDE DEF u
  <2>7. \A j \in 1 .. Len(s) : j # i => Disjunct(s[j], r)  BY <2>4, <2>5, PartApart
  <2>8. Disjunct(t[i], r) /\ Disjunct(g, r)  BY <1>2, <1>5, <1>10, <2>3 DEF Disjunct
  <2>9. \A j \in 1 .. Len(u) : Disjunct(u[j], r)  BY <1>5, <2>6, <2>7, <2>8
  <2>10. t[i].hi + 1 # r.lo /\ r.hi + 1 # t[i].lo  BY <1>2, <1>5, <1>10, <2>2, <2>3
  <2>11. ASSUME NEW j \in 1 .. Len(s), j # i, s[j].own = NoOne
         PROVE  s[j].hi + 1 # r.lo /\ r.hi + 1 # s[j].lo
    <3>1. Disjunct(s[j], s[i]) /\ Proper(s[j]) /\ s[j] \in Segment  BY <2>11 DEF SoundTable
    <3>2. s[i].hi + 1 # s[j].lo /\ s[j].lo \in Nat /\ s[j].hi \in Nat /\ s[j].lo <= s[j].hi
      BY <2>11, <3>1, Fields DEF Merged, Proper
    <3>3. s[j].hi < s[i].lo \/ s[i].hi < s[j].lo  BY <3>1 DEF Disjunct
    <3>4. g.hi < s[i].hi  BY <2>2, <1>2
    <3>5. s[j].hi + 1 # g.hi + 1  BY <1>2, <3>2, <3>3, <3>4, Far
    <3> QED  BY <2>3, <3>2, <3>5
  <2>12. \A j \in 1 .. Len(u) : u[j].own = NoOne => u[j].hi + 1 # r.lo /\ r.hi + 1 # u[j].lo
    BY <1>5, <2>6, <2>10, <2>11
  <2>13. SoundTable(u) /\ Merged(u)  BY <1>7 DEF Goes
  <2>14. Goes(u, AddSegment(u, r))  BY <2>4, <2>5, <2>9, <2>12, <2>13, AddGoes
  <2>15. Len(s) + 2 <= MaxSegments => Len(t) < MaxSegments  BY <1>2, <1>3
  <2>16. Owned(u, g) => Owned(AddSegment(u, r), g)  BY <2>14 DEF Goes
  <2> QED  BY <1>7, <1>8, <2>1, <2>14, <2>15, <2>16, GoesOn
<1> QED  BY <1>9, <1>10
-----------------------------------------------------------------------------
\* A table in which everybody still has what he had keeps the invariant.
LEMMA GoesInv ==
    ASSUME HeapInv, Goes(segments, segments'), held' \subseteq held
    PROVE  HeapInv'
<1>1. \A h \in held' : h \in Segment /\ h.own # NoOne /\ Proper(h) /\ Owned(segments, h)
  BY DEF HeapInv
<1>2. \A h \in held' : Owned(segments', h)  BY <1>1 DEF Goes
<1>3. SoundTable(segments') /\ Merged(segments')  BY DEF Goes
<1> QED  BY <1>1, <1>2, <1>3 DEF HeapInv

\* __allocFrom keeps the invariant.
LEMMA GiveInv ==
    ASSUME HeapInv, NEW i \in 1 .. Len(segments), NEW g \in Segment, g.own # NoOne, Proper(g),
           segments[i].lo <= g.lo, g.hi <= segments[i].hi, Give(i, g)
    PROVE  HeapInv'
<1> DEFINE t == AllocFrom(segments, i, g).table
           ok == AllocFrom(segments, i, g).ok
<1>1. SoundTable(segments) /\ Merged(segments) /\ segments[i] \in Segment
  BY DEF HeapInv, SoundTable
<1>2. segments' = t /\ held' = IF ok THEN held \cup {g} ELSE held  BY DEF Give
<1>3. Goes(segments, t) /\ (ok => Owned(t, g))
  <2>1. CASE segments[i].own # NoOne
    <3>1. t = segments /\ ok = (segments[i].own = g.own)  BY <2>1 DEF AllocFrom
    <3> QED  BY <1>1, <3>1 DEF Goes, Owned
  <2>2. CASE segments[i].own = NoOne
    <3>1. t = Split(segments, i, g)
          /\ ok = (Len(segments) + Pieces(segments, i, g) <= MaxSegments)
      BY <2>2 DEF AllocFrom
    <3>2. CASE segments[i].lo = g.lo /\ segments[i].hi = g.hi
      <4>1. Goes(segments, Split(segments, i, g)) /\ Owned(Split(segments, i, g), g)
        BY <1>1, <2>2, <3>2, SplitWhole
      <4> QED  BY <3>1, <4>1
    <3>3. CASE segments[i].lo # g.lo \/ segments[i].hi # g.hi
      <4>1. /\ Goes(segments, Split(segments, i, g))
            /\ Len(segments) + Pieces(segments, i, g) <= MaxSegments => Owned(Split(segments, i, g), g)
        BY <1>1, <2>2, <3>3, SplitPart
      <4> QED  BY <3>1, <4>1
    <3> QED  BY <3>2, <3>3
  <2> QED  BY <2>1, <2>2
<1> HIDE DEF t, ok
<1>4. \A h \in held : h \in Segment /\ h.own # NoOne /\ Proper(h) /\ Owned(t, h)
  BY <1>3 DEF HeapInv, Goes
<1>5. \A h \in held' : h \in Segment /\ h.own # NoOne /\ Proper(h) /\ Owned(t, h)
  BY <1>2, <1>3, <1>4
<1>6. SoundTable(t) /\ Merged(t)  BY <1>3 DEF Goes
<1> QED  BY <1>2, <1>5, <1>6 DEF HeapInv

\* ROUND_UP of an address in the RAM does not wrap.
LEMMA Rounding ==
    ASSUME NEW a \in Nat, NEW align \in Nat \ {0}, a + align <= WordMod
    PROVE  /\ RoundUp(a, align) \in Nat
           /\ a <= RoundUp(a, align) /\ RoundUp(a, align) < a + align
<1> DEFINE m == (a + align - 1) % align
<1>1. m \in 0 .. align - 1  OBVIOUS
<1> HIDE DEF m
<1>2. WordMod \in Nat  BY HeapAssumption
<1>3. RoundUp(a, align) = Word((a + align - 1) - m)  BY DEF RoundUp, m
<1> QED  BY <1>1, <1>2, <1>3 DEF Word

\* A request that fits in a free segment is placed in it.
LEMMA Placing ==
    ASSUME HeapInv, NEW o \in Owners, NEW size \in Addr, NEW align \in Addr \ {0},
           Moderate(size, align), NEW i \in Fitting(size, align)
    PROVE  LET start == RoundUp(segments[i].lo, align)
               g     == [own |-> o, lo |-> start, hi |-> Last(start, size)]
           IN  /\ i \in 1 .. Len(segments) /\ segments[i].own = NoOne
               /\ g \in Segment /\ g.own # NoOne /\ Proper(g)
               /\ segments[i].lo <= g.lo /\ g.hi <= segments[i].hi
<1> DEFINE start == RoundUp(segments[i].lo, align)
           g     == [own |-> o, lo |-> start, hi |-> Last(start, size)]
<1>1. /\ i \in 1 .. Len(segments) /\ segments[i].own = NoOne
      /\ Last(segments[i].lo, size) >= segments[i].lo /\ Last(start, size) <= segments[i].hi
  BY DEF Fitting, Fits
<1>2. segments[i] \in Segment /\ Proper(segments[i])  BY <1>1 DEF HeapInv, SoundTable
<1>3. /\ segments[i].lo \in Nat /\ segments[i].hi \in Nat /\ segments[i].hi < WordMod
      /\ RamLo \in Nat \ {0} /\ RamHi \in Nat /\ WordMod \in Nat /\ o \in Nat \ {0}
  BY <1>2, Fields, HeapAssumption DEF Addr, NoOne
<1>4. RamLo <= segments[i].lo /\ segments[i].lo <= RamHi /\ segments[i].hi <= RamHi
  BY <1>2, <1>3 DEF Proper
<1>5. size \in Nat /\ align \in Nat \ {0} /\ size < WordMod  BY <1>3 DEF Addr
<1>6. align = 1 \/ RamHi + size + align <= WordMod  BY DEF Moderate
<1>7. start \in Nat /\ segments[i].lo <= start /\ start < segments[i].lo + align
  <2>1. segments[i].lo <= segments[i].hi  BY <1>2 DEF Proper
  <2>2. segments[i].lo + align <= WordMod
    <3>1. CASE align = 1  BY <1>3, <2>1, <3>1
    <3>2. CASE RamHi + size + align <= WordMod  BY <1>3, <1>4, <1>5, <3>2
    <3> QED  BY <1>6, <3>1, <3>2
  <2> QED  BY <1>3, <1>5, <2>2, Rounding
<1> HIDE DEF start
<1>8. size # 0  BY <1>1, <1>3, <1>4, <1>5 DEF Last, Word
<1>9. Last(start, size) = start + size - 1
  <2>1. CASE align = 1
    <3>1. start = segments[i].lo  BY <1>3, <1>7, <2>1
    <3> QED  BY <1>1, <1>3, <1>5, <1>8, <3>1 DEF Last, Word
  <2>2. CASE RamHi + size + align <= WordMod
    BY <1>3, <1>4, <1>5, <1>7, <1>8, <2>2 DEF Last, Word
  <2> QED  BY <1>6, <2>1, <2>2
<1>10. /\ g.own = o /\ g.lo = start /\ g.hi = start + size - 1  BY <1>9
<1>11. g \in Segment  BY <1>1, <1>3, <1>5, <1>7, <1>8, <1>9 DEF Segment, Addr
<1>12. g.own # NoOne /\ Proper(g) /\ segments[i].lo <= g.lo /\ g.hi <= segments[i].hi
  <2>1. /\ RamLo <= start /\ start <= start + size - 1 /\ start + size - 1 <= RamHi
        /\ start + size - 1 <= segments[i].hi
    BY <1>1, <1>3, <1>4, <1>5, <1>7, <1>8, <1>9, SMTT(30)
  <2>2. o # NoOne  BY <1>3 DEF NoOne
  <2> QED  BY <1>7, <1>10, <2>1, <2>2 DEF Proper
<1> QED  BY <1>1, <1>11, <1>12 DEF start

\* An allocation that changes something gives a part of a segment away.
Gives ==
    \/ UNCHANGED vars
    \/ \E i \in 1 .. Len(segments), g \in Segment :
          /\ g.own # NoOne /\ Proper(g)
          /\ segments[i].lo <= g.lo /\ g.hi <= segments[i].hi
          /\ Give(i, g)

\* Such a step keeps the invariant.
LEMMA GivesInv == HeapInv /\ Gives => HeapInv'
BY GiveInv DEF Gives, HeapInv, vars

\* heapAllocAlign gives a part of a segment.
LEMMA AlignGives ==
    ASSUME HeapInv, NEW o \in Owners, NEW size \in Addr, NEW align \in Addr \ {0},
           Moderate(size, align), AllocAlign(o, size, align)
    PROVE  Gives
<1>1. CASE UNCHANGED vars
  BY <1>1 DEF Gives
<1>2. ASSUME NEW i \in Fitting(size, align),
             Give(i, [own |-> o, lo |-> RoundUp(segments[i].lo, align),
                      hi |-> Last(RoundUp(segments[i].lo, align), size)])
      PROVE  Gives
  <2> DEFINE start == RoundUp(segments[i].lo, align)
             g     == [own |-> o, lo |-> start, hi |-> Last(start, size)]
  <2>1. /\ i \in 1 .. Len(segments)
        /\ g \in Segment /\ g.own # NoOne /\ Proper(g)
        /\ segments[i].lo <= g.lo /\ g.hi <= segments[i].hi
    BY Placing
  <2>2. Give(i, g)  BY <1>2
  <2> HIDE DEF g
  <2> QED  BY <2>1, <2>2 DEF Gives
<1> QED  BY <1>1, <1>2 DEF AllocAlign

\* An address is in one segment at most.
LEMMA OnlyOne ==
    ASSUME NEW s, SoundTable(s), NEW lo \in Nat, NEW hi \in Nat, lo <= hi,
           NEW k \in Containing(s, lo, hi)
    PROVE  First(Containing(s, lo, hi)) = k
<1> DEFINE S == Containing(s, lo, hi)
<1>1. ASSUME NEW i \in S, i # k PROVE FALSE
  <2>1. i \in 1 .. Len(s) /\ k \in 1 .. Len(s) /\ s[i].lo <= lo /\ hi <= s[i].hi
        /\ s[k].lo <= lo /\ hi <= s[k].hi
    <3>1. s[i].hi >= hi /\ s[k].hi >= hi  BY DEF Containing
    <3>2. s[i].hi \in Nat /\ s[k].hi \in Nat  BY Fields DEF Containing, SoundTable
    <3> QED  BY <3>1, <3>2 DEF Containing
  <2>2. Disjunct(s[i], s[k]) /\ s[i] \in Segment /\ s[k] \in Segment
    BY <1>1, <2>1 DEF SoundTable
  <2>3. s[i].lo \in Nat /\ s[i].hi \in Nat /\ s[k].lo \in Nat /\ s[k].hi \in Nat
    BY <2>2, Fields
  <2> QED  BY <2>1, <2>2, <2>3, SMTT(30) DEF Disjunct
<1>2. k \in Nat  BY DEF Containing
<1>3. k <= k  BY <1>2
<1> HIDE DEF S
<1>4. \A j \in S : k <= j  BY <1>1, <1>3
<1>5. \A i \in S : (\A j \in S : i <= j) => i = k  BY <1>1
<1>6. k \in S  BY DEF S
<1>7. First(S) = k  BY <1>4, <1>5, <1>6 DEF First
<1> QED  BY <1>7 DEF S

\* So does heapAllocSegment.
LEMMA SegmentGives ==
    ASSUME HeapInv, NEW o \in Owners, NEW start \in Addr, NEW size \in Addr,
           AllocSegment(o, start, size)
    PROVE  Gives
<1> DEFINE g     == [own |-> o, lo |-> start, hi |-> Last(start, size)]
           whole == Containing(segments, g.lo, g.hi)
<1>1. CASE g.hi < g.lo \/ whole = {}
  BY <1>1 DEF AllocSegment, Gives
<1>2. CASE ~(g.hi < g.lo \/ whole = {})
  <2>1. start \in Nat /\ start < WordMod /\ size \in Nat /\ size < WordMod /\ WordMod \in Nat
        /\ o \in Nat \ {0} /\ RamLo \in Nat /\ RamHi \in Nat
    BY HeapAssumption DEF Addr, NoOne
  <2>2. g.own = o /\ g.lo = start /\ g.hi = Last(start, size)  OBVIOUS
  <2>3. Last(start, size) \in Nat /\ Last(start, size) < WordMod  BY <2>1 DEF Last, Word
  <2>4. g \in Segment  BY <2>1, <2>3 DEF Segment, Addr
  <2>5. Give(First(whole), g)  BY <1>2 DEF AllocSegment
  <2> HIDE DEF g
  <2>6. PICK k \in Containing(segments, g.lo, g.hi) : TRUE  BY <1>2
  <2>7. g.lo \in Nat /\ g.hi \in Nat /\ g.lo <= g.hi  BY <1>2, <2>1, <2>2, <2>3
  <2>8. First(whole) = k  BY <2>7, OnlyOne DEF HeapInv
  <2>9. k \in 1 .. Len(segments) /\ segments[k].lo <= g.lo /\ segments[k].hi >= g.hi
    BY DEF Containing
  <2>10. segments[k] \in Segment /\ Proper(segments[k])  BY <2>9 DEF HeapInv, SoundTable
  <2>11. segments[k].lo \in Nat /\ segments[k].hi \in Nat  BY <2>10, Fields
  <2>12. g.hi <= segments[k].hi  BY <2>7, <2>9, <2>11
  <2>13. Proper(g)  BY <2>1, <2>7, <2>9, <2>10, <2>11, <2>12, SMTT(30) DEF Proper
  <2>14. g.own # NoOne  BY <2>1, <2>2 DEF NoOne
  <2> QED  BY <2>4, <2>5, <2>8, <2>9, <2>12, <2>13, <2>14 DEF Gives
<1> QED  BY <1>1, <1>2
-----------------------------------------------------------------------------
\* A free segment that can be added to its table: there is room, and it is apart.
Addable(x) ==
    /\ SoundTable(x.table) /\ Merged(x.table) /\ Len(x.table) < MaxSegments
    /\ x.new \in Segment /\ x.new.own = NoOne /\ Proper(x.new)
    /\ \A i \in 1 .. Len(x.table) : Disjunct(x.table[i], x.new)
NoneBelow(x) == \A i \in 1 .. Len(x.table) : x.table[i].own = NoOne => x.table[i].hi + 1 # x.new.lo
NoneAbove(x) == \A i \in 1 .. Len(x.table) : x.table[i].own = NoOne => x.new.hi + 1 # x.table[i].lo
Keeping(x, y) ==
    /\ \A h \in Segment : h.own # NoOne /\ Owned(x.table, h) => Owned(y.table, h)
    /\ \A a \in Nat : At(x.table, a) \/ (x.new.lo <= a /\ a <= x.new.hi) =>
                         At(y.table, a) \/ (y.new.lo <= a /\ a <= y.new.hi)
    /\ \A i \in 1 .. Len(y.table) : \E j \in 1 .. Len(x.table) : y.table[i] = x.table[j]

\* The numbers of a segment to be added and of one of the table.
LEMMA Numbers ==
    ASSUME NEW x, Addable(x), NEW i \in 1 .. Len(x.table)
    PROVE  /\ x.table[i] \in Segment /\ Proper(x.table[i])
           /\ x.table[i].lo \in Nat /\ x.table[i].hi \in Nat /\ x.table[i].lo <= x.table[i].hi
           /\ x.new.lo \in Nat \ {0} /\ x.new.hi \in Nat /\ x.new.lo <= x.new.hi
           /\ x.table[i].hi < x.new.lo \/ x.new.hi < x.table[i].lo
<1>1. x.table[i] \in Segment /\ Proper(x.table[i]) /\ Disjunct(x.table[i], x.new)
  BY DEF Addable, SoundTable
<1>2. x.new \in Segment /\ Proper(x.new)  BY DEF Addable
<1>3. x.new.lo \in Nat /\ RamLo \in Nat \ {0} /\ RamLo <= x.new.lo
  BY <1>2, Fields, HeapAssumption DEF Proper, Addr
<1>4. x.new.lo # 0  BY <1>3
<1> QED  BY <1>1, <1>2, <1>3, <1>4, Fields DEF Disjunct, Proper

\* A deletion lets nobody lose but the owner of what is deleted.
LEMMA DeleteOwned ==
    ASSUME NEW s, SoundTable(s), NEW k \in 1 .. Len(s), NEW h,
           NEW i \in 1 .. Len(s), i # k, s[i].own = h.own, s[i].lo <= h.lo, h.hi <= s[i].hi
    PROVE  Owned(DeleteSegment(s, k), h)
<1>1. s \in Seq(Segment)  BY DEF SoundTable
<1>2. Len(DeleteSegment(s, k)) = Len(s) - 1  BY <1>1, Deleting
<1>3. PICK j \in 1 .. Len(s) - 1 : DeleteSegment(s, k)[j] = s[i]  BY <1>1, Kept
<1> QED  BY <1>2, <1>3 DEF Owned

\* A free neighbour that is merged leaves something that can be added.
LEMMA MergeAddable ==
    ASSUME NEW x, Addable(x), NEW k \in 1 .. Len(x.table), x.table[k].own = NoOne,
           NEW n \in Segment, n.own = NoOne,
           \/ x.table[k].hi + 1 = x.new.lo /\ n.lo = x.table[k].lo /\ n.hi = x.new.hi
           \/ x.new.hi + 1 = x.table[k].lo /\ n.lo = x.new.lo /\ n.hi = x.table[k].hi
    PROVE  LET y == [table |-> DeleteSegment(x.table, k), new |-> n]
           IN  /\ Addable(y) /\ Keeping(x, y)
               /\ x.table[k].hi + 1 = x.new.lo => NoneBelow(y)
               /\ x.new.hi + 1 = x.table[k].lo => NoneAbove(y) /\ (NoneBelow(x) => NoneBelow(y))
<1> DEFINE t == DeleteSegment(x.table, k)
           y == [table |-> t, new |-> n]
<1>1. SoundTable(x.table) /\ Merged(x.table) /\ x.table \in Seq(Segment) /\ Len(x.table) < MaxSegments
  BY DEF Addable, SoundTable
<1>2. SoundTable(t) /\ Merged(t)  BY <1>1, DeleteSound
<1>3. Len(t) = Len(x.table) - 1 /\ Len(x.table) \in Nat /\ MaxSegments \in Nat
  BY <1>1, Deleting, HeapAssumption
<1>4. Len(t) < MaxSegments  BY <1>1, <1>3
<1>5. \A i \in 1 .. Len(t) : \E j \in 1 .. Len(x.table) : j # k /\ t[i] = x.table[j]
  <2> SUFFICES ASSUME NEW i \in 1 .. Len(t)
               PROVE  \E j \in 1 .. Len(x.table) : j # k /\ t[i] = x.table[j]
    OBVIOUS
  <2>1. i \in 1 .. Len(x.table) - 1  BY <1>3
  <2>2. t[i] = x.table[IF i < k THEN i ELSE i + 1]  BY <1>1, <2>1, Deleting
  <2>3. (IF i < k THEN i ELSE i + 1) \in 1 .. Len(x.table) /\ (IF i < k THEN i ELSE i + 1) # k
    BY <1>3, <2>1
  <2> QED  BY <2>2, <2>3
<1>6. /\ x.table[k].lo \in Nat /\ x.table[k].hi \in Nat /\ x.table[k].lo <= x.table[k].hi
      /\ x.new.lo \in Nat \ {0} /\ x.new.hi \in Nat /\ x.new.lo <= x.new.hi
      /\ Proper(x.table[k]) /\ Proper(x.new) /\ RamLo \in Nat /\ RamHi \in Nat
  BY Numbers, HeapAssumption DEF Addable, Addr
<1>7. /\ RamLo <= x.table[k].lo /\ x.table[k].hi <= RamHi
       /\ RamLo <= x.new.lo /\ x.new.hi <= RamHi
  BY <1>6 DEF Proper
<1>8. Proper(n)
  <2>1. RamLo <= n.lo /\ n.hi <= RamHi  BY <1>7
  <2>2. n.lo <= n.hi  BY <1>6, SMTT(30)
  <2> QED  BY <2>1, <2>2 DEF Proper
<1> HIDE DEF t
<1>9. ASSUME NEW j \in 1 .. Len(x.table), j # k
      PROVE  /\ Disjunct(x.table[j], n)
             /\ x.table[j].own = NoOne => x.table[j].hi + 1 # x.table[k].lo
                                          /\ x.table[k].hi + 1 # x.table[j].lo
  <2>1. /\ x.table[j].lo \in Nat /\ x.table[j].hi \in Nat /\ x.table[j].lo <= x.table[j].hi
        /\ x.table[j].hi < x.new.lo \/ x.new.hi < x.table[j].lo
    BY Numbers
  <2>2. Disjunct(x.table[j], x.table[k])  BY <1>1, <1>9 DEF SoundTable
  <2>3. x.table[j].hi < x.table[k].lo \/ x.table[k].hi < x.table[j].lo  BY <2>2 DEF Disjunct
  <2>4. x.table[j].hi < n.lo \/ n.hi < x.table[j].lo  BY <1>6, <2>1, <2>3, SMTT(60)
  <2>5. Disjunct(x.table[j], n)  BY <2>4 DEF Disjunct
  <2> QED  BY <1>1, <2>5 DEF Merged
<1>10. \A i \in 1 .. Len(t) : Disjunct(t[i], n)  BY <1>5, <1>9
<1>11. y.table = t /\ y.new = n  OBVIOUS
<1> HIDE DEF y
<1>12. Addable(y)  BY <1>2, <1>4, <1>8, <1>10, <1>11 DEF Addable
<1>13. Keeping(x, y)
  <2>1. ASSUME NEW h \in Segment, h.own # NoOne, Owned(x.table, h) PROVE Owned(t, h)
    <3>1. PICK i \in 1 .. Len(x.table) :
             x.table[i].own = h.own /\ x.table[i].lo <= h.lo /\ h.hi <= x.table[i].hi
      BY <2>1 DEF Owned
    <3> QED BY <1>1, <2>1, <3>1, DeleteOwned DEF t
  <2>2. ASSUME NEW a \in Nat, At(x.table, a) \/ (x.new.lo <= a /\ a <= x.new.hi)
        PROVE  At(t, a) \/ (n.lo <= a /\ a <= n.hi)
    <3>1. CASE x.new.lo <= a /\ a <= x.new.hi
      <4>1. n.lo <= a /\ a <= n.hi  BY <1>6, <2>2, <3>1, SMTT(30)
      <4> QED BY <4>1
    <3>2. ASSUME NEW i \in 1 .. Len(x.table), x.table[i].lo <= a, a <= x.table[i].hi
          PROVE  At(t, a) \/ (n.lo <= a /\ a <= n.hi)
      <4>1. CASE i = k
        <5>1. n.lo <= a /\ a <= n.hi  BY <1>6, <2>2, <3>2, <4>1, SMTT(30)
        <5> QED BY <5>1
      <4>2. CASE i # k
        <5>1. PICK j \in 1 .. Len(x.table) - 1 : t[j] = x.table[i]
          BY <1>1, <3>2, <4>2, Kept DEF t
        <5>2. t[j].lo <= a /\ a <= t[j].hi /\ j \in 1 .. Len(t)  BY <1>3, <3>2, <5>1
        <5> QED BY <5>2 DEF At
      <4> QED BY <4>1, <4>2
    <3> QED BY <2>2, <3>1, <3>2 DEF At
  <2>3. \A i \in 1 .. Len(t) : \E j \in 1 .. Len(x.table) : t[i] = x.table[j]
    BY <1>5
  <2> QED BY <1>11, <2>1, <2>2, <2>3 DEF Keeping
<1>14. x.table[k].hi + 1 = x.new.lo => NoneBelow(y)
  <2>1. CASE n.lo = x.table[k].lo  BY <1>5, <1>9, <1>11, <2>1 DEF NoneBelow
  <2>2. CASE x.new.hi + 1 = x.table[k].lo  BY <1>6, <2>2
  <2> QED  BY <2>1, <2>2
<1>15. x.new.hi + 1 = x.table[k].lo => NoneAbove(y) /\ (NoneBelow(x) => NoneBelow(y))
  <2> SUFFICES ASSUME x.new.hi + 1 = x.table[k].lo
               PROVE  NoneAbove(y) /\ (NoneBelow(x) => NoneBelow(y))
    OBVIOUS
  <2>1. n.lo = x.new.lo /\ n.hi = x.table[k].hi  BY <1>6
  <2>2. NoneAbove(y)  BY <1>5, <1>9, <1>11, <2>1 DEF NoneAbove
  <2>3. NoneBelow(x) => NoneBelow(y)  BY <1>5, <1>11, <2>1 DEF NoneBelow
  <2> QED  BY <2>2, <2>3
<1> QED  BY <1>12, <1>13, <1>14, <1>15 DEF y, t

\* What crosses the segment to be added and the place below it ends right there.
LEMMA Below ==
    ASSUME NEW x, Addable(x), NEW i \in 1 .. Len(x.table)
    PROVE  i \in Crossing(x.table, x.new.lo - 1, x.new.hi) <=> x.table[i].hi + 1 = x.new.lo
<1>1. /\ x.table[i].lo \in Nat /\ x.table[i].hi \in Nat /\ x.table[i].lo <= x.table[i].hi
      /\ x.new.lo \in Nat \ {0} /\ x.new.hi \in Nat /\ x.new.lo <= x.new.hi
      /\ x.table[i].hi < x.new.lo \/ x.new.hi < x.table[i].lo
  BY Numbers
<1>2. i \in Crossing(x.table, x.new.lo - 1, x.new.hi)
         <=> x.table[i].lo <= x.new.hi /\ x.table[i].hi >= x.new.lo - 1
  BY DEF Crossing
<1> QED  BY <1>1, <1>2, SMTT(30)

\* What crosses the segment to be added and the place above it begins right there.
LEMMA Above ==
    ASSUME NEW x, Addable(x), NEW i \in 1 .. Len(x.table)
    PROVE  i \in Crossing(x.table, x.new.lo, x.new.hi + 1) <=> x.new.hi + 1 = x.table[i].lo
<1>1. /\ x.table[i].lo \in Nat /\ x.table[i].hi \in Nat /\ x.table[i].lo <= x.table[i].hi
      /\ x.new.lo \in Nat \ {0} /\ x.new.hi \in Nat /\ x.new.lo <= x.new.hi
      /\ x.table[i].hi < x.new.lo \/ x.new.hi < x.table[i].lo
  BY Numbers
<1>2. i \in Crossing(x.table, x.new.lo, x.new.hi + 1)
         <=> x.table[i].lo <= x.new.hi + 1 /\ x.table[i].hi >= x.new.lo
  BY DEF Crossing
<1> QED  BY <1>1, <1>2

\* The first of one is that one.
LEMMA FirstOfOne ==
    ASSUME NEW S, NEW k \in Nat, k \in S, \A i \in S : i = k
    PROVE  First(S) = k
<1>1. k <= k  OBVIOUS
<1>2. \A j \in S : k <= j  BY <1>1
<1> QED  BY <1>2 DEF First

\* The merge with the segment below.
LEMMA MergeLowOK ==
    ASSUME NEW x, Addable(x)
    PROVE  Addable(MergeLow(x)) /\ Keeping(x, MergeLow(x)) /\ NoneBelow(MergeLow(x))
<1> DEFINE below == Crossing(x.table, x.new.lo - 1, x.new.hi)
           k     == First(below)
<1>1. SoundTable(x.table) /\ x.new \in Segment /\ x.new.lo \in Nat /\ x.new.lo # 0
  <2>1. x.new \in Segment /\ RamLo <= x.new.lo /\ RamLo \in Nat \ {0}
    BY HeapAssumption DEF Addable, Proper, Addr
  <2> QED  BY <2>1, Fields DEF Addable
<1>2. below \subseteq 1 .. Len(x.table)  BY DEF Crossing
<1>3. Keeping(x, x)  BY DEF Keeping
<1>4. CASE below = {}
  <2>1. MergeLow(x) = x  BY <1>4 DEF MergeLow
  <2>2. NoneBelow(x)  BY <1>4, Below DEF NoneBelow
  <2> QED  BY <1>3, <2>1, <2>2
<1>5. CASE below # {}
  <2>1. PICK i \in below : TRUE  BY <1>5
  <2>2. i \in 1 .. Len(x.table) /\ x.table[i].hi + 1 = x.new.lo  BY <1>2, <2>1, Below
  <2>3. ASSUME NEW j \in below, j # i PROVE FALSE
    <3>1. j \in 1 .. Len(x.table) /\ x.table[j].hi + 1 = x.new.lo  BY <1>2, Below
    <3>2. Disjunct(x.table[i], x.table[j])  BY <1>1, <2>2, <2>3, <3>1 DEF SoundTable
    <3>3. /\ x.table[i].lo \in Nat /\ x.table[i].hi \in Nat /\ x.table[i].lo <= x.table[i].hi
          /\ x.table[j].lo \in Nat /\ x.table[j].hi \in Nat /\ x.table[j].lo <= x.table[j].hi
      BY <2>2, <3>1, Numbers
    <3>4. x.table[i].hi < x.table[j].lo \/ x.table[j].hi < x.table[i].lo  BY <3>2 DEF Disjunct
    <3>5. x.table[i].hi = x.table[j].hi  BY <1>1, <2>2, <3>1, <3>3, SMTT(30)
    <3> QED  BY <3>3, <3>4, <3>5
  <2>4. k = i
    <3>1. i \in Nat  BY <2>2
    <3> QED  BY <2>1, <2>3, <3>1, FirstOfOne
  <2> HIDE DEF below, k
  <2>5. CASE x.table[i].own # NoOne
    <3>1. MergeLow(x) = x  BY <1>5, <2>4, <2>5 DEF MergeLow, Addable, below, k
    <3>2. \A j \in 1 .. Len(x.table) : x.table[j].hi + 1 = x.new.lo => j = i
      BY <2>3, Below DEF below
    <3>3. NoneBelow(x)  BY <2>5, <3>2 DEF NoneBelow
    <3> QED  BY <1>3, <3>1, <3>3
  <2>6. CASE x.table[i].own = NoOne
    <3> DEFINE n == [x.new EXCEPT !.lo = x.table[i].lo]
    <3>1. MergeLow(x) = [table |-> DeleteSegment(x.table, i), new |-> n]
      BY <1>1, <1>5, <2>4, <2>6 DEF MergeLow, Addable, below, k
    <3>2. x.table[i].lo \in Addr /\ x.new.own = NoOne
      <4>1. x.table[i] \in Segment  BY <2>2, Numbers
      <4> QED  BY <4>1 DEF Addable, Segment
    <3>3. n \in Segment /\ n.own = NoOne /\ n.lo = x.table[i].lo /\ n.hi = x.new.hi
      BY <1>1, <3>2 DEF Segment
    <3> HIDE DEF n
    <3> QED  BY <2>2, <2>6, <3>1, <3>3, MergeAddable
  <2> QED  BY <2>5, <2>6
<1> QED  BY <1>4, <1>5

\* The merge with the segment above; what is below stays so.
LEMMA MergeHighOK ==
    ASSUME NEW x, Addable(x)
    PROVE  /\ Addable(MergeHigh(x)) /\ Keeping(x, MergeHigh(x)) /\ NoneAbove(MergeHigh(x))
           /\ NoneBelow(x) => NoneBelow(MergeHigh(x))
<1> DEFINE above == Crossing(x.table, x.new.lo, x.new.hi + 1)
           k     == First(above)
<1>1. SoundTable(x.table) /\ x.new \in Segment /\ x.new.hi \in Nat /\ WordMod \in Nat
  BY Fields, HeapAssumption DEF Addable
<1>6. ASSUME NEW i \in 1 .. Len(x.table), x.new.hi + 1 = x.table[i].lo PROVE Word(x.new.hi + 1) # 0
  <2>1. x.table[i].lo \in Nat /\ x.table[i].lo < WordMod  BY Numbers, Fields
  <2> QED  BY <1>1, <1>6, <2>1 DEF Word
<1>2. above \subseteq 1 .. Len(x.table)  BY DEF Crossing
<1>3. Keeping(x, x)  BY DEF Keeping
<1>4. CASE above = {}
  <2>1. MergeHigh(x) = x  BY <1>4 DEF MergeHigh
  <2>2. NoneAbove(x)  BY <1>4, Above DEF NoneAbove
  <2> QED  BY <1>3, <2>1, <2>2
<1>5. CASE above # {}
  <2>1. PICK i \in above : TRUE  BY <1>5
  <2>2. i \in 1 .. Len(x.table) /\ x.new.hi + 1 = x.table[i].lo  BY <1>2, <2>1, Above
  <2>3. ASSUME NEW j \in above, j # i PROVE FALSE
    <3>1. j \in 1 .. Len(x.table) /\ x.new.hi + 1 = x.table[j].lo  BY <1>2, Above
    <3>2. Disjunct(x.table[i], x.table[j])  BY <1>1, <2>2, <2>3, <3>1 DEF SoundTable
    <3>3. /\ x.table[i].lo \in Nat /\ x.table[i].hi \in Nat /\ x.table[i].lo <= x.table[i].hi
          /\ x.table[j].lo \in Nat /\ x.table[j].hi \in Nat /\ x.table[j].lo <= x.table[j].hi
      BY <2>2, <3>1, Numbers
    <3>4. x.table[i].hi < x.table[j].lo \/ x.table[j].hi < x.table[i].lo  BY <3>2 DEF Disjunct
    <3>5. x.table[i].lo = x.table[j].lo  BY <1>1, <2>2, <3>1, <3>3
    <3> QED  BY <3>3, <3>4, <3>5
  <2>4. k = i
    <3>1. i \in Nat  BY <2>2
    <3> QED  BY <2>1, <2>3, <3>1, FirstOfOne
  <2> HIDE DEF above, k
  <2>5. CASE x.table[i].own # NoOne
    <3>1. MergeHigh(x) = x  BY <1>5, <2>4, <2>5 DEF MergeHigh, Addable, above, k
    <3>2. \A j \in 1 .. Len(x.table) : x.new.hi + 1 = x.table[j].lo => j = i
      BY <2>3, Above DEF above
    <3>3. NoneAbove(x)  BY <2>5, <3>2 DEF NoneAbove
    <3> QED  BY <1>3, <3>1, <3>3
  <2>6. CASE x.table[i].own = NoOne
    <3> DEFINE n == [x.new EXCEPT !.hi = x.table[i].hi]
    <3>1. MergeHigh(x) = [table |-> DeleteSegment(x.table, i), new |-> n]
      BY <1>5, <1>6, <2>2, <2>4, <2>6 DEF MergeHigh, Addable, above, k
    <3>2. x.table[i].hi \in Addr /\ x.new.own = NoOne
      <4>1. x.table[i] \in Segment  BY <2>2, Numbers
      <4> QED  BY <4>1 DEF Addable, Segment
    <3>3. n \in Segment /\ n.own = NoOne /\ n.lo = x.new.lo /\ n.hi = x.table[i].hi
      BY <1>1, <3>2 DEF Segment
    <3> HIDE DEF n
    <3> QED  BY <2>2, <2>6, <3>1, <3>3, MergeAddable
  <2> QED  BY <2>5, <2>6
<1> QED  BY <1>4, <1>5

\* heapAdd of a segment that is apart puts it into the table, merged.
LEMMA HeapAddOK ==
    ASSUME NEW d, NEW f, Addable([table |-> d, new |-> f])
    PROVE  LET t == HeapAdd(d, f.lo, f.hi - f.lo + 1)
           IN  /\ Goes(d, t)
               /\ \A a \in Nat : At(d, a) \/ (f.lo <= a /\ a <= f.hi) => At(t, a)
               /\ \A i \in 1 .. Len(t) : t[i].own = NoOne \/ \E j \in 1 .. Len(d) : t[i] = d[j]
<1> DEFINE x == [table |-> d, new |-> f]
           y == MergeLow(x)
           z == MergeHigh(y)
<1>1. x.table = d /\ x.new = f  OBVIOUS
<1>2. SoundTable(d) /\ Merged(d) /\ f \in Segment /\ f.own = NoOne /\ Proper(f)
      /\ \A i \in 1 .. Len(d) : Disjunct(d[i], f)
  BY <1>1 DEF Addable
<1>3. f.lo \in Nat \ {0} /\ f.hi \in Nat /\ f.lo <= f.hi /\ f.hi < WordMod /\ WordMod \in Nat
  <2>1. f.lo \in Nat /\ f.hi \in Nat /\ f.hi < WordMod  BY <1>2, Fields
  <2>2. RamLo \in Nat \ {0} /\ RamLo <= f.lo /\ f.lo <= f.hi
    BY <1>2, HeapAssumption DEF Addr, Proper
  <2> QED  BY <2>1, <2>2, HeapAssumption
<1>4. Last(f.lo, f.hi - f.lo + 1) = f.hi  BY <1>3 DEF Last, Word
<1>5. [own |-> NoOne, lo |-> f.lo, hi |-> f.hi] = f  BY <1>2 DEF Segment
<1>6. MergeCross(x) = x
  <2>1. ASSUME NEW i \in Crossing(d, f.lo, f.hi) PROVE FALSE
    <3>1. i \in 1 .. Len(d) /\ d[i].lo <= f.hi /\ d[i].hi >= f.lo  BY DEF Crossing
    <3>2. d[i] \in Segment /\ Disjunct(d[i], f)  BY <1>2, <3>1 DEF SoundTable
    <3>3. d[i].lo \in Nat /\ d[i].hi \in Nat  BY <3>2, Fields
    <3> QED  BY <1>3, <3>1, <3>2, <3>3 DEF Disjunct
  <2>2. Crossing(x.table, x.new.lo, x.new.hi) = {}  BY <1>1, <2>1
  <2> QED  BY <2>2 DEF MergeCross
<1> HIDE DEF x
<1>7. Addable(y) /\ Keeping(x, y) /\ NoneBelow(y)  BY MergeLowOK DEF x
<1> HIDE DEF y
<1>8. Addable(z) /\ Keeping(y, z) /\ NoneAbove(z) /\ NoneBelow(z)  BY <1>7, MergeHighOK
<1> HIDE DEF z
<1>9. Goes(z.table, AddSegment(z.table, z.new))
  BY <1>8, AddGoes DEF Addable, NoneAbove, NoneBelow
<1>10. \A h \in Segment : h.own # NoOne /\ Owned(d, h) => Owned(z.table, h)
  BY <1>1, <1>7, <1>8 DEF Keeping
<1>11. Goes(d, AddSegment(z.table, z.new))  BY <1>9, <1>10 DEF Goes
<1>12. ~(f.hi < f.lo)  BY <1>3
<1>13. HeapAdd(d, f.lo, f.hi - f.lo + 1) = AddSegment(z.table, z.new)
  BY <1>4, <1>5, <1>6, <1>12 DEF HeapAdd, x, y, z
<1> DEFINE t == AddSegment(z.table, z.new)
<1>14. /\ z.table \in Seq(Segment) /\ z.new \in Segment /\ z.new.own = NoOne
       /\ Len(z.table) <= MaxSegments /\ Len(z.table) < MaxSegments
  BY <1>8 DEF Addable, SoundTable
<1>15. /\ \A i \in 1 .. Len(z.table) : i \in 1 .. Len(t) /\ t[i] = z.table[i]
       /\ \A i \in 1 .. Len(t) : (i \in 1 .. Len(z.table) /\ t[i] = z.table[i]) \/ t[i] = z.new
       /\ Len(z.table) + 1 \in 1 .. Len(t) /\ t[Len(z.table) + 1] = z.new
  BY <1>14, Adding
<1> HIDE DEF t
<1>16. ASSUME NEW a \in Nat, At(d, a) \/ (f.lo <= a /\ a <= f.hi) PROVE At(t, a)
  <2>1. At(z.table, a) \/ (z.new.lo <= a /\ a <= z.new.hi)
    BY <1>1, <1>7, <1>8, <1>16 DEF Keeping
  <2> QED BY <1>15, <2>1 DEF At
<1>17. \A i \in 1 .. Len(t) : t[i].own = NoOne \/ \E j \in 1 .. Len(d) : t[i] = d[j]
  <2>1. \A i \in 1 .. Len(z.table) : \E j \in 1 .. Len(d) : z.table[i] = d[j]
    BY <1>1, <1>7, <1>8 DEF Keeping
  <2> QED BY <1>14, <1>15, <2>1
<1> QED BY <1>11, <1>13, <1>16, <1>17 DEF t
-----------------------------------------------------------------------------
\* The segment around what is held is the one it lies in.
LEMMA AroundIs ==
    ASSUME HeapInv, NEW g \in held, NEW i \in 1 .. Len(segments),
           segments[i].lo <= g.lo, g.hi <= segments[i].hi
    PROVE  Around(g) = i
<1>1. SoundTable(segments)  BY DEF HeapInv
<1>2. g \in Segment /\ Proper(g) /\ segments[i] \in Segment  BY <1>1 DEF HeapInv, SoundTable
<1>3. g.lo \in Nat /\ g.hi \in Nat /\ g.lo <= g.hi /\ segments[i].hi \in Nat
  BY <1>2, Fields DEF Proper
<1>4. g.lo <= g.lo /\ segments[i].hi >= g.lo  BY <1>3
<1>5. i \in Containing(segments, g.lo, g.lo)  BY <1>4 DEF Containing
<1> QED  BY <1>1, <1>3, <1>4, <1>5, OnlyOne DEF Around

\* heapFree takes a segment out and adds it again as a free one.
LEMMA FreeTakes ==
    ASSUME HeapInv, NEW h \in held, Free(h)
    PROVE  \E f \in Segment :
             /\ Around(h) \in 1 .. Len(segments) /\ f.own = NoOne
             /\ f.lo = segments[Around(h)].lo /\ f.hi = segments[Around(h)].hi
             /\ Addable([table |-> DeleteSegment(segments, Around(h)), new |-> f])
             /\ segments' = HeapAdd(DeleteSegment(segments, Around(h)), f.lo, f.hi - f.lo + 1)
<1> DEFINE k == Around(h)
           d == DeleteSegment(segments, k)
           f == [segments[k] EXCEPT !.own = NoOne]
<1>1. SoundTable(segments) /\ Merged(segments) /\ segments \in Seq(Segment)
  BY DEF HeapInv, SoundTable
<1>2. k \in 1 .. Len(segments)
  <2>1. PICK i \in 1 .. Len(segments) : segments[i].lo <= h.lo /\ h.hi <= segments[i].hi
    BY DEF HeapInv, Owned
  <2> QED  BY <2>1, AroundIs
<1>3. segments' = HeapAdd(d, segments[k].lo, segments[k].hi - segments[k].lo + 1)
  BY DEF Free
<1> HIDE DEF k
<1>4. segments[k] \in Segment /\ Proper(segments[k])  BY <1>1, <1>2 DEF SoundTable
<1>5. f \in Segment /\ f.own = NoOne /\ f.lo = segments[k].lo /\ f.hi = segments[k].hi
  BY <1>4 DEF Segment
<1>6. Proper(f) /\ \A g : Disjunct(g, f) <=> Disjunct(g, segments[k])
  BY <1>4, <1>5 DEF Proper, Disjunct
<1>7. SoundTable(d) /\ Merged(d)  BY <1>1, <1>2, DeleteSound
<1>8. \A i \in 1 .. Len(d) : Disjunct(d[i], f)  BY <1>1, <1>2, <1>6, DeleteSound
<1>9. Len(d) < MaxSegments
  <2>1. Len(d) = Len(segments) - 1 /\ Len(segments) \in Nat  BY <1>1, <1>2, Deleting
  <2>2. Len(segments) <= MaxSegments /\ MaxSegments \in Nat
    BY <1>1, HeapAssumption DEF SoundTable
  <2> QED  BY <2>1, <2>2
<1> HIDE DEF d, f
<1>10. Addable([table |-> d, new |-> f])  BY <1>5, <1>6, <1>7, <1>8, <1>9 DEF Addable
<1>11. segments' = HeapAdd(d, f.lo, f.hi - f.lo + 1)  BY <1>3, <1>5
<1> QED  BY <1>2, <1>5, <1>10, <1>11 DEF d, k

\* heapFree keeps the invariant: the segment that it frees is nobody else's.
LEMMA FreeInv ==
    ASSUME HeapInv, NEW h \in held, Free(h)
    PROVE  HeapInv'
<1> DEFINE k == Around(h)
           d == DeleteSegment(segments, k)
<1>1. SoundTable(segments)  BY DEF HeapInv
<1>2. PICK f \in Segment :
             /\ k \in 1 .. Len(segments) /\ Addable([table |-> d, new |-> f])
             /\ segments' = HeapAdd(d, f.lo, f.hi - f.lo + 1)
  BY FreeTakes
<1>3. held' = held \ {h} /\ \A g \in held \ {h} : Around(g) # k  BY DEF Free
<1> HIDE DEF k
<1>4. ASSUME NEW g \in held' PROVE Owned(d, g)
  <2>1. g \in held /\ Around(g) # k  BY <1>3
  <2>2. PICK i \in 1 .. Len(segments) :
           segments[i].own = g.own /\ segments[i].lo <= g.lo /\ g.hi <= segments[i].hi
    BY <2>1 DEF HeapInv, Owned
  <2>3. i # k  BY <2>1, <2>2, AroundIs
  <2> QED  BY <1>1, <1>2, <2>2, <2>3, DeleteOwned
<1> HIDE DEF d
<1>5. Goes(d, segments')  BY <1>2, HeapAddOK
<1>6. \A g \in held' : g \in Segment /\ g.own # NoOne /\ Proper(g)  BY <1>3 DEF HeapInv
<1>7. \A g \in held' : Owned(segments', g)  BY <1>4, <1>5, <1>6 DEF Goes
<1>8. SoundTable(segments') /\ Merged(segments')  BY <1>5 DEF Goes
<1> QED  BY <1>6, <1>7, <1>8 DEF HeapInv

\* heapInit puts the RAM into the table.
LEMMA HeapInit == Init => HeapInv
<1> SUFFICES ASSUME Init PROVE HeapInv  OBVIOUS
<1> DEFINE f == [own |-> NoOne, lo |-> RamLo, hi |-> RamHi]
<1>1. /\ RamLo \in Addr /\ RamHi \in Addr /\ RamLo \in Nat /\ RamHi \in Nat
      /\ RamLo <= RamHi /\ MaxSegments \in Nat \ {0}
  BY HeapAssumption DEF Addr
<1>2. f \in Segment /\ f.own = NoOne /\ f.lo = RamLo /\ f.hi = RamHi  BY <1>1 DEF Segment
<1>3. Proper(f)  BY <1>1, <1>2 DEF Proper
<1>4. SoundTable(<<>>) /\ Merged(<<>>) /\ Len(<<>>) = 0  BY <1>1 DEF SoundTable, Merged
<1> HIDE DEF f
<1>5. Addable([table |-> <<>>, new |-> f])  BY <1>1, <1>2, <1>3, <1>4 DEF Addable
<1>6. Goes(<<>>, segments)  BY <1>2, <1>5, HeapAddOK DEF Init
<1> QED  BY <1>6 DEF Goes, HeapInv, Init

\* Every step keeps the invariant.
LEMMA HeapNext == NoWrap /\ HeapInv /\ [Next]_vars => HeapInv'
<1> SUFFICES ASSUME NoWrap, HeapInv, [Next]_vars PROVE HeapInv'  OBVIOUS
<1>1. CASE UNCHANGED vars  BY <1>1 DEF vars, HeapInv
<1>2. ASSUME NEW o \in Owners, NEW a \in Asks, AllocAlign(o, a[1], a[2]) PROVE HeapInv'
  <2>1. a[1] \in Addr /\ a[2] \in Addr \ {0}  BY HeapAssumption
  <2>2. Moderate(a[1], a[2])  BY DEF NoWrap
  <2> QED  BY <1>2, <2>1, <2>2, AlignGives, GivesInv
<1>3. ASSUME NEW o \in Owners, NEW r \in Regions, AllocSegment(o, r[1], r[2]) PROVE HeapInv'
  <2>1. r[1] \in Addr /\ r[2] \in Addr  BY HeapAssumption
  <2> QED  BY <1>3, <2>1, SegmentGives, GivesInv
<1>4. ASSUME NEW h \in held, Free(h) PROVE HeapInv'  BY <1>4, FreeInv
<1> QED  BY <1>1, <1>2, <1>3, <1>4 DEF Next

\* The invariant says what HeapSound says.
LEMMA InvSound == HeapInv => HeapSound
<1> SUFFICES ASSUME HeapInv PROVE HeapSound  OBVIOUS
<1>1. TypeOK  BY DEF HeapInv, SoundTable, TypeOK
<1>2. Disjoint  BY DEF HeapInv, SoundTable, Proper, Disjoint
<1>3. Coalesced  BY DEF HeapInv, Merged, Coalesced
<1>4. HeldOwned  BY DEF HeapInv, Owned, HeldOwned
<1> QED  BY <1>1, <1>2, <1>3, <1>4 DEF HeapSound

\* Segments never overlap, free neighbours are merged, and what a partition was given is
\* its own, whatever is asked for and freed in whatever order, for a memory and a table
\* of any size, if no size with its alignment reaches beyond the last address.
THEOREM HeapSoundOK == ASSUME NoWrap PROVE Spec => []HeapSound
<1>1. HeapInv /\ [Next]_vars => HeapInv'  BY HeapNext
<1> QED  BY HeapInit, <1>1, InvSound, PTL DEF Spec
-----------------------------------------------------------------------------
\* The partitions ask for areas of their own.
Areas == [own : Owners, phys : Addr, size : Addr]
PInv == HeapInv /\ config \in Seq(Areas)

\* Every step of prtnInit keeps the heap sound.
LEMMA PartitionsNext == NoWrap /\ PInv /\ [PNext]_pvars => PInv'
<1> SUFFICES ASSUME NoWrap, PInv, [PNext]_pvars PROVE PInv'  OBVIOUS
<1>1. CASE UNCHANGED pvars  BY <1>1 DEF pvars, PInv, HeapInv
<1>2. config # <<>> => Head(config) \in Areas /\ Tail(config) \in Seq(Areas)  BY DEF PInv
<1>3. 1 \in Addr \ {0}  BY HeapAssumption DEF Addr
<1>4. CASE MapAuto
  <2>1. /\ config # <<>> /\ config' = Tail(config)
        /\ AllocAlign(Head(config).own, Head(config).size, 1)
    BY <1>4 DEF MapAuto
  <2>2. Head(config).own \in Owners /\ Head(config).size \in Addr  BY <1>2, <2>1 DEF Areas
  <2>3. Moderate(Head(config).size, 1)  BY DEF Moderate
  <2>4. HeapInv'  BY <1>3, <2>1, <2>2, <2>3, AlignGives, GivesInv DEF PInv
  <2> QED  BY <1>2, <2>1, <2>4 DEF PInv
<1>5. CASE MapFixed
  <2>1. /\ config # <<>> /\ config' = Tail(config)
        /\ AllocSegment(Head(config).own, Head(config).phys, Head(config).size)
    BY <1>5 DEF MapFixed
  <2>2. /\ Head(config).own \in Owners /\ Head(config).phys \in Addr
        /\ Head(config).size \in Addr
    BY <1>2, <2>1 DEF Areas
  <2>3. HeapInv'  BY <2>1, <2>2, SegmentGives, GivesInv DEF PInv
  <2> QED  BY <1>2, <2>1, <2>3 DEF PInv
<1>6. CASE Use
  BY <1>6, HeapNext DEF Use, PInv
<1> QED  BY <1>1, <1>4, <1>5, <1>6 DEF PNext

\* The same in the composition with the partitions: whatever is configured.
THEOREM PartitionsSoundOK == ASSUME NoWrap PROVE PSpec => []HeapSound
<1>1. PInit => PInv  BY HeapInit, PartitionsAssumption DEF PInit, PInv, Areas
<1>2. PInv /\ [PNext]_pvars => PInv'  BY PartitionsNext
<1>3. PInv => HeapSound  BY InvSound DEF PInv
<1> QED  BY <1>1, <1>2, <1>3, PTL DEF PSpec
-----------------------------------------------------------------------------
\* f is what a cut leaves of e beside g.
Beside(f, e, g) ==
    /\ e.lo <= f.lo /\ f.hi <= e.hi /\ Disjunct(f, g)
    /\ f.lo = e.lo \/ f.lo = g.hi + 1
    /\ f.hi = e.hi \/ f.hi + 1 = g.lo

\* What is free after a split was free, or is left of what was.
LEMMA SplitFree ==
    ASSUME NEW s, SoundTable(s), Merged(s), NEW i \in 1 .. Len(s), s[i].own = NoOne,
           NEW g \in Segment, Proper(g), s[i].lo <= g.lo, g.hi <= s[i].hi, g.own # NoOne,
           NEW j \in 1 .. Len(Split(s, i, g)), Split(s, i, g)[j].own = NoOne
    PROVE  \/ \E k \in (1 .. Len(s)) \ {i} : Split(s, i, g)[j] = s[k]
           \/ Beside(Split(s, i, g)[j], s[i], g)
<1> DEFINE t == Cut(s, i, g)
           u == AddSegment(t, g)
           r == Rest(s, i, g)
<1>1. s \in Seq(Segment) /\ s[i] \in Segment /\ Proper(s[i])  BY DEF SoundTable
<1>2. /\ s[i].lo \in Nat /\ s[i].hi \in Nat /\ s[i].lo < WordMod /\ s[i].hi < WordMod
      /\ g.lo \in Nat /\ g.hi \in Nat /\ g.lo <= g.hi /\ WordMod \in Nat /\ s[i].lo <= s[i].hi
  BY <1>1, Fields, HeapAssumption DEF Proper
<1>3. CASE s[i].lo = g.lo /\ s[i].hi = g.hi
  <2>1. [s[i] EXCEPT !.own = g.own] = g  BY <1>1, <1>3 DEF Segment
  <2>2. Split(s, i, g) = [s EXCEPT ![i] = g]  BY <1>3, <2>1 DEF Split
  <2> QED  BY <1>1, <2>2
<1>4. CASE s[i].lo # g.lo \/ s[i].hi # g.hi
  <2>1. Goes(s, t) /\ Len(t) = Len(s)  BY <1>4, CutGoes
  <2>2. /\ t[i].lo = IF s[i].lo = g.lo THEN g.hi + 1 ELSE s[i].lo
        /\ t[i].hi = IF s[i].lo = g.lo THEN s[i].hi ELSE g.lo - 1
        /\ \A k \in 1 .. Len(s) : k # i => t[k] = s[k]
    BY <1>4, CutGoes
  <2>3. t \in Seq(Segment) /\ Len(t) <= MaxSegments  BY <2>1 DEF Goes, SoundTable
  <2> HIDE DEF t
  <2>4. Beside(t[i], s[i], g)
    <3>1. CASE s[i].lo = g.lo
      <4>1. t[i].lo = g.hi + 1 /\ t[i].hi = s[i].hi  BY <2>2, <3>1
      <4> QED  BY <1>2, <3>1, <4>1 DEF Beside, Disjunct
    <3>2. CASE s[i].lo # g.lo
      <4>1. t[i].lo = s[i].lo /\ t[i].hi = g.lo - 1  BY <2>2, <3>2
      <4>2. t[i].hi < g.lo /\ t[i].hi + 1 = g.lo /\ t[i].hi <= s[i].hi  BY <1>2, <4>1, SMTT(30)
      <4> QED  BY <1>2, <4>1, <4>2 DEF Beside, Disjunct
    <3> QED  BY <3>1, <3>2
  <2>5. \A k \in 1 .. Len(u) : (k \in 1 .. Len(t) /\ u[k] = t[k]) \/ u[k] = g
    BY <2>3, Adding
  <2>6. u \in Seq(Segment) /\ Len(u) <= MaxSegments  BY <2>3, Adding
  <2>7. CASE s[i].lo = g.lo \/ s[i].hi = g.hi
    <3>1. Split(s, i, g) = u  BY <1>4, <2>7 DEF Split, t
    <3> HIDE DEF u
    <3> QED  BY <2>1, <2>2, <2>4, <2>5, <3>1
  <2>8. CASE s[i].lo # g.lo /\ s[i].hi # g.hi
    <3>1. Split(s, i, g) = AddSegment(u, r)  BY <2>8 DEF Split, t
    <3>2. Word(g.hi + 1) = g.hi + 1 /\ g.hi + 1 <= s[i].hi  BY <1>2, <2>8 DEF Word
    <3>3. r.lo = g.hi + 1 /\ r.hi = s[i].hi  BY <3>2 DEF Rest
    <3>4. r \in Segment  BY <1>1, <1>2, <3>2, SMTT(30) DEF Rest, Segment, Addr
    <3>5. Beside(r, s[i], g)  BY <1>2, <2>8, <3>3 DEF Beside, Disjunct
    <3> HIDE DEF u, r
    <3>6. \A k \in 1 .. Len(AddSegment(u, r)) :
              (k \in 1 .. Len(u) /\ AddSegment(u, r)[k] = u[k]) \/ AddSegment(u, r)[k] = r
      BY <2>6, <3>4, Adding
    <3> QED  BY <2>1, <2>2, <2>4, <2>5, <3>1, <3>5, <3>6
  <2> QED  BY <2>7, <2>8
<1> QED  BY <1>3, <1>4

\* What is free after an allocation was free and has nothing of what was allocated.
LEMMA GiveFree ==
    ASSUME HeapInv, NEW i \in 1 .. Len(segments), NEW g \in Segment, g.own # NoOne, Proper(g),
           segments[i].lo <= g.lo, g.hi <= segments[i].hi, Give(i, g),
           NEW j \in 1 .. Len(segments'), segments'[j].own = NoOne
    PROVE  \E k \in 1 .. Len(segments) :
               /\ segments[k].own = NoOne
               /\ \/ segments'[j] = segments[k] /\ Disjunct(segments'[j], g)
                  \/ Beside(segments'[j], segments[k], g)
<1>1. SoundTable(segments) /\ Merged(segments)  BY DEF HeapInv
<1>2. \A k \in 1 .. Len(segments) : k # i => Disjunct(segments[k], g)
  BY <1>1, PartApart
<1>3. CASE segments[i].own # NoOne
  <2>1. segments' = segments  BY <1>3 DEF Give, AllocFrom
  <2> QED  BY <1>2, <1>3, <2>1
<1>4. CASE segments[i].own = NoOne
  <2>1. segments' = Split(segments, i, g)  BY <1>4 DEF Give, AllocFrom
  <2>2. \/ \E k \in (1 .. Len(segments)) \ {i} : segments'[j] = segments[k]
        \/ Beside(segments'[j], segments[i], g)
    BY <1>1, <1>4, <2>1, SplitFree
  <2> QED  BY <1>2, <1>4, <2>2
<1> QED  BY <1>3, <1>4

\* So it is part of what was free, and apart from what was allocated.
LEMMA GiveCovers ==
    ASSUME HeapInv, NEW i \in 1 .. Len(segments), NEW g \in Segment, g.own # NoOne, Proper(g),
           segments[i].lo <= g.lo, g.hi <= segments[i].hi, Give(i, g),
           NEW j \in 1 .. Len(segments'), segments'[j].own = NoOne
    PROVE  /\ Disjunct(segments'[j], g)
           /\ \E k \in 1 .. Len(segments) :
                 /\ segments[k].own = NoOne
                 /\ segments[k].lo <= segments'[j].lo /\ segments'[j].hi <= segments[k].hi
<1>1. PICK k \in 1 .. Len(segments) :
          /\ segments[k].own = NoOne
          /\ \/ segments'[j] = segments[k] /\ Disjunct(segments'[j], g)
             \/ Beside(segments'[j], segments[k], g)
  BY GiveFree
<1>2. segments[k].lo \in Nat /\ segments[k].hi \in Nat  BY Fields DEF HeapInv, SoundTable
<1> QED  BY <1>1, <1>2 DEF Beside

\* a is no part of f, or all of it is.
Gap(f, a) == Disjunct(f, a) \/ (f.lo <= a.lo /\ a.hi <= f.hi)

\* What is left beside g of a segment is such, for what is apart from g.
LEMMA BesideGap ==
    ASSUME NEW f \in Segment, NEW e \in Segment, NEW g \in Segment, NEW a \in Segment,
           Proper(f), Proper(e), Proper(g), Proper(a),
           Beside(f, e, g), Disjunct(a, g), Gap(e, a)
    PROVE  Gap(f, a)
<1>1. /\ f.lo \in Nat /\ f.hi \in Nat /\ e.lo \in Nat /\ e.hi \in Nat
      /\ g.lo \in Nat /\ g.hi \in Nat /\ a.lo \in Nat /\ a.hi \in Nat
  BY Fields
<1>2. f.lo <= f.hi /\ e.lo <= e.hi /\ g.lo <= g.hi /\ a.lo <= a.hi  BY DEF Proper
<1> QED  BY <1>1, <1>2 DEF Gap, Beside, Disjunct
-----------------------------------------------------------------------------

\* What is mapped is not free, is no other's, and includes what was given out; but for
\* what is mapped at NULL, and for the heap's other callers.
Mapped ==
    /\ held \subseteq mapped \/ (config = <<>> /\ mapped = {})
    /\ mapped \subseteq Segment
    /\ \A m \in mapped : m.lo = 0 \/ Proper(m)
    /\ \A m \in mapped : \A i \in 1 .. Len(segments) :
           m.lo = 0 \/ segments[i].own # NoOne \/ Disjunct(segments[i], m)
    /\ \A m, n \in mapped : m.own # n.own => m.lo = 0 \/ n.lo = 0 \/ Disjunct(m, n)

\* The first k areas of the plan are mapped, the rest is still to be mapped.
Done(k) ==
    /\ Len(config) = Len(plan) - k
    /\ \A j \in 1 .. Len(config) : config[j] = plan[k + j]

\* While the areas have addresses, a free segment has all of an area that is apart from
\* what is mapped or nothing.
Gaps ==
    \A i \in 1 .. Len(segments) : segments[i].own = NoOne =>
        \A a \in Segment :
            Proper(a) /\ (\A m \in mapped : Disjunct(a, m)) => Gap(segments[i], a)
Planned ==
    \E k \in 0 .. Len(plan) :
        /\ Done(k)
        /\ config # <<>> /\ (\A j \in 1 .. k : plan[j].phys # MemAuto) =>
               /\ \A m \in mapped : \E j \in 1 .. k : m = Given(plan[j])
               /\ Gaps

MInv == PInv /\ plan \in Seq(Areas) /\ (PlanSound => Mapped /\ Planned)

\* One more area is mapped: at NULL, or where nothing else is.
LEMMA MapOne ==
    ASSUME HeapInv, HeapInv', Mapped, NEW n \in Segment, mapped' = mapped \cup {n},
           config # <<>>, held' \subseteq held \cup {n},
           n.lo = 0 \/ Proper(n),
           n.lo = 0 \/ \A m \in mapped : m.lo = 0 \/ (Disjunct(n, m) /\ Disjunct(m, n)),
           \A j \in 1 .. Len(segments') : segments'[j].own = NoOne =>
               /\ n.lo = 0 \/ Disjunct(segments'[j], n)
               /\ \E k \in 1 .. Len(segments) :
                     /\ segments[k].own = NoOne
                     /\ segments[k].lo <= segments'[j].lo /\ segments'[j].hi <= segments[k].hi
    PROVE  Mapped'
<1>1. held' \subseteq mapped' /\ mapped' \subseteq Segment  BY DEF Mapped
<1>2. \A m \in mapped' : m.lo = 0 \/ Proper(m)  BY DEF Mapped
<1>3. ASSUME NEW m \in mapped', NEW j \in 1 .. Len(segments'), m.lo # 0, segments'[j].own = NoOne
      PROVE  Disjunct(segments'[j], m)
  <2>1. CASE m = n  BY <1>3, <2>1
  <2>2. CASE m \in mapped
    <3>1. PICK k \in 1 .. Len(segments) :
              /\ segments[k].own = NoOne
              /\ segments[k].lo <= segments'[j].lo /\ segments'[j].hi <= segments[k].hi
      BY <1>3
    <3>2. Disjunct(segments[k], m)  BY <1>3, <2>2, <3>1 DEF Mapped
    <3>3. segments[k] \in Segment /\ m \in Segment /\ segments'[j] \in Segment
      BY <2>2 DEF HeapInv, SoundTable, Mapped
    <3>4. /\ segments[k].lo \in Nat /\ segments[k].hi \in Nat /\ m.lo \in Nat /\ m.hi \in Nat
          /\ segments'[j].lo \in Nat /\ segments'[j].hi \in Nat
      BY <3>3, Fields
    <3> QED  BY <3>1, <3>2, <3>4, SMTT(30) DEF Disjunct
  <2> QED  BY <2>1, <2>2
<1>4. ASSUME NEW m \in mapped', NEW p \in mapped', m.own # p.own, m.lo # 0, p.lo # 0
      PROVE  Disjunct(m, p)
  <2>1. CASE m \in mapped /\ p \in mapped  BY <1>4, <2>1 DEF Mapped
  <2>2. CASE m = n /\ p \in mapped  BY <1>4, <2>2
  <2>3. CASE p = n /\ m \in mapped  BY <1>4, <2>3
  <2>4. CASE p = n /\ m = n  BY <1>4, <2>4
  <2> QED  BY <2>1, <2>2, <2>3, <2>4
<1> QED  BY <1>1, <1>2, <1>3, <1>4 DEF Mapped

\* The area that is mapped is the next one of the plan.
LEMMA Progress ==
    ASSUME plan \in Seq(Areas), NEW k \in 0 .. Len(plan), Done(k), config \in Seq(Areas),
           config # <<>>, config' = Tail(config), plan' = plan
    PROVE  /\ k + 1 \in 1 .. Len(plan) /\ Head(config) = plan[k + 1]
           /\ Done(k + 1)'
<1>1. Len(config) \in Nat /\ Len(config) >= 1 /\ Len(plan) \in Nat /\ k \in Nat  OBVIOUS
<1>2. Head(config) = config[1]  BY <1>1
<1>3. k + 1 \in 1 .. Len(plan) /\ Head(config) = plan[k + 1]  BY <1>1, <1>2 DEF Done
<1>4. Len(config') = Len(config) - 1 /\ \A j \in 1 .. Len(config) - 1 : config'[j] = config[j + 1]
  BY <1>1
<1>5. \A j \in 1 .. Len(config') : config'[j] = plan'[(k + 1) + j]
  <2> SUFFICES ASSUME NEW j \in 1 .. Len(config') PROVE config'[j] = plan'[(k + 1) + j]
    OBVIOUS
  <2>1. j \in 1 .. Len(config) - 1 /\ j + 1 \in 1 .. Len(config)  BY <1>1, <1>4
  <2>2. config'[j] = config[j + 1] /\ config[j + 1] = plan[k + (j + 1)]
    BY <1>4, <2>1 DEF Done
  <2>3. k + (j + 1) = (k + 1) + j  BY <1>1, <2>1
  <2> QED  BY <2>2, <2>3
<1>6. Len(config') = Len(plan') - (k + 1)  BY <1>1, <1>4 DEF Done
<1> QED  BY <1>3, <1>5, <1>6 DEF Done

\* At the start the whole RAM is free.
LEMMA InitTable == Init => segments = <<[own |-> NoOne, lo |-> RamLo, hi |-> RamHi]>>
<1> SUFFICES ASSUME Init PROVE segments = <<[own |-> NoOne, lo |-> RamLo, hi |-> RamHi]>>
  OBVIOUS
<1> DEFINE f == [own |-> NoOne, lo |-> RamLo, hi |-> RamHi]
           x == [table |-> <<>>, new |-> f]
<1>1. RamLo \in Nat /\ RamHi \in Nat /\ RamLo <= RamHi /\ RamHi < WordMod
      /\ WordMod \in Nat /\ MaxSegments \in Nat \ {0}
  BY HeapAssumption DEF Addr
<1>2. Last(RamLo, RamHi - RamLo + 1) = RamHi  BY <1>1 DEF Last, Word
<1>3. \A lo, hi : Crossing(<<>>, lo, hi) = {}  BY DEF Crossing
<1>4. x.table = <<>>  OBVIOUS
<1> HIDE DEF x
<1>5. MergeCross(x) = x  BY <1>3, <1>4 DEF MergeCross
<1>6. MergeLow(x) = x  BY <1>3, <1>4 DEF MergeLow
<1>7. MergeHigh(x) = x  BY <1>3, <1>4 DEF MergeHigh
<1>8. MergeHigh(MergeLow(MergeCross(x))) = x  BY <1>5, <1>6, <1>7
<1>9. x.new = f /\ f.hi = RamHi /\ f.lo = RamLo  BY DEF x
<1>10. HeapAdd(<<>>, RamLo, RamHi - RamLo + 1) = AddSegment(<<>>, f)
  BY <1>1, <1>2, <1>4, <1>8, <1>9 DEF HeapAdd, x
<1>11. AddSegment(<<>>, f) = <<f>>  BY <1>1 DEF AddSegment
<1> QED  BY <1>10, <1>11 DEF Init

\* A plan with addresses can be carried out from the start.
LEMMA PlanInit == PInit => MInv
<1> SUFFICES ASSUME PInit PROVE MInv  OBVIOUS
<1>1. PInv  BY HeapInit, PartitionsAssumption DEF PInit, PInv, Areas
<1>2. plan \in Seq(Areas) /\ plan = config /\ mapped = {} /\ held = {}
  BY PartitionsAssumption DEF PInit, Init, Areas
<1>3. Mapped  BY <1>2 DEF Mapped
<1>4. Done(0) /\ 0 \in 0 .. Len(plan)
  <2>1. Len(plan) \in Nat  BY <1>2
  <2> QED  BY <1>2, <2>1 DEF Done
<1>5. Gaps
  <2> DEFINE f == [own |-> NoOne, lo |-> RamLo, hi |-> RamHi]
  <2>1. segments = <<f>>  BY InitTable DEF PInit
  <2>2. \A i \in 1 .. Len(segments) : segments[i] = f  BY <2>1
  <2>3. f.lo = RamLo /\ f.hi = RamHi  OBVIOUS
  <2> HIDE DEF f
  <2>4. \A a \in Segment : Proper(a) => f.lo <= a.lo /\ a.hi <= f.hi
    BY <2>3 DEF Proper
  <2> QED  BY <2>2, <2>4 DEF Gaps, Gap
<1>6. Planned  BY <1>2, <1>4, <1>5 DEF Planned
<1> QED  BY <1>1, <1>2, <1>3, <1>6 DEF MInv

\* An area without an address is mapped where nothing else is, or at NULL.
LEMMA AutoStep ==
    ASSUME MInv, PInv', PlanSound, MapAuto, plan' = plan
    PROVE  Mapped' /\ Planned'
<1> DEFINE area == Head(config)
           n    == Placed(area)
<1>1. config # <<>> /\ area.phys = MemAuto /\ config' = Tail(config) /\ mapped' = mapped \cup {n}
      /\ AllocAlign(area.own, area.size, 1)
  BY DEF MapAuto
<1>2. HeapInv /\ HeapInv' /\ config \in Seq(Areas) /\ plan \in Seq(Areas) /\ Mapped /\ Planned
  BY DEF MInv, PInv
<1>3. area \in Areas  BY <1>1, <1>2
<1>4. area.own \in Owners /\ area.size \in Addr /\ 1 \in Addr \ {0} /\ Moderate(area.size, 1)
  BY <1>3, HeapAssumption DEF Areas, Addr, Moderate
<1>5. n.own = area.own /\ n.hi = Last(n.lo, area.size)
      /\ n.lo = IF held' = held THEN 0 ELSE (CHOOSE g \in held' : g \notin held).lo
  BY DEF Placed, MappedAt
<1>6. n = MappedAt(area, n.lo)  BY DEF Placed, MappedAt
<1> HIDE DEF n
<1>7. Planned'
  <2>1. PICK k \in 0 .. Len(plan) : Done(k)  BY <1>2 DEF Planned
  <2>2. k + 1 \in 1 .. Len(plan) /\ area = plan[k + 1] /\ Done(k + 1)'
    BY <1>1, <1>2, <2>1, Progress
  <2>3. plan'[k + 1].phys = MemAuto /\ k + 1 \in 0 .. Len(plan') /\ k + 1 \in 1 .. k + 1
    BY <1>1, <2>2
  <2> QED  BY <2>2, <2>3 DEF Planned
<1>8. MappedAt(area, 0) \in Segment
  <2>1. Last(0, area.size) \in Addr /\ 0 \in Addr  BY <1>4, HeapAssumption DEF Last, Word, Addr
  <2> QED  BY <1>4, <2>1 DEF MappedAt, Segment
<1>9. CASE UNCHANGED vars
  <2>1. held' = held /\ segments' = segments  BY <1>9 DEF vars
  <2>2. n.lo = 0  BY <1>5, <2>1
  <2>3. n \in Segment  BY <1>6, <1>8, <2>2
  <2>4. \A j \in 1 .. Len(segments) : segments[j].lo <= segments[j].lo /\ segments[j].hi <= segments[j].hi
    <3>1. \A j \in 1 .. Len(segments) : segments[j] \in Segment  BY <1>2 DEF HeapInv, SoundTable
    <3> QED  BY <3>1, Fields
  <2>5. Mapped'  BY <1>1, <1>2, <2>1, <2>2, <2>3, <2>4, MapOne
  <2> QED  BY <1>7, <2>5
<1>10. ASSUME NEW i \in Fitting(area.size, 1),
              Give(i, [own |-> area.own, lo |-> RoundUp(segments[i].lo, 1),
                       hi |-> Last(RoundUp(segments[i].lo, 1), area.size)])
       PROVE  Mapped'
  <2> DEFINE start == RoundUp(segments[i].lo, 1)
             g     == [own |-> area.own, lo |-> start, hi |-> Last(start, area.size)]
  <2>1. /\ i \in 1 .. Len(segments) /\ segments[i].own = NoOne
        /\ g \in Segment /\ g.own # NoOne /\ Proper(g)
        /\ segments[i].lo <= g.lo /\ g.hi <= segments[i].hi
    BY <1>2, <1>4, Placing
  <2>2. g = MappedAt(area, g.lo)  BY DEF MappedAt
  <2>3. Give(i, g)  BY <1>10
  <2> HIDE DEF g
  <2>4. held' = held \cup {g} \/ held' = held  BY <2>3 DEF Give
  <2>5. n.lo = 0 \/ n = g
    <3>1. CASE held' = held  BY <1>5, <3>1
    <3>2. CASE held' # held /\ held' = held \cup {g}
      <4>1. (CHOOSE h \in held' : h \notin held) = g  BY <3>2
      <4>2. n.lo = g.lo  BY <1>5, <3>2, <4>1
      <4> QED  BY <1>6, <2>2, <4>2
    <3> QED  BY <2>4, <3>1, <3>2
  <2>6. n \in Segment  BY <1>6, <1>8, <2>1, <2>5
  <2>7. held' \subseteq held \cup {n}
    <3>1. CASE held' = held  BY <3>1
    <3>2. CASE held' # held
      <4>1. held' = held \cup {g}  BY <2>4, <3>2
      <4>2. (CHOOSE h \in held' : h \notin held) = g  BY <3>2, <4>1
      <4>3. n.lo = g.lo  BY <1>5, <3>2, <4>2
      <4> QED  BY <1>6, <2>2, <4>1, <4>3
    <3> QED  BY <3>1, <3>2
  <2>8. n.lo = 0 \/ Proper(n)  BY <2>1, <2>5
  <2>9. ASSUME NEW m \in mapped, m.lo # 0 PROVE Disjunct(g, m) /\ Disjunct(m, g)
    <3>1. Disjunct(segments[i], m)  BY <1>2, <2>1, <2>9 DEF Mapped
    <3>2. segments[i] \in Segment /\ m \in Segment  BY <1>2, <2>1 DEF HeapInv, SoundTable, Mapped
    <3>3. /\ segments[i].lo \in Nat /\ segments[i].hi \in Nat /\ m.lo \in Nat /\ m.hi \in Nat
          /\ g.lo \in Nat /\ g.hi \in Nat
      BY <2>1, <3>2, Fields
    <3> QED  BY <2>1, <3>1, <3>3 DEF Disjunct
  <2>10. ASSUME NEW j \in 1 .. Len(segments'), segments'[j].own = NoOne
         PROVE  /\ Disjunct(segments'[j], g)
                /\ \E k \in 1 .. Len(segments) :
                     /\ segments[k].own = NoOne
                     /\ segments[k].lo <= segments'[j].lo /\ segments'[j].hi <= segments[k].hi
    BY <1>2, <2>1, <2>3, <2>10, GiveCovers
  <2>11. \A j \in 1 .. Len(segments') : segments'[j].own = NoOne =>
            n.lo = 0 \/ Disjunct(segments'[j], n)
    BY <2>5, <2>10
  <2> QED  BY <1>1, <1>2, <2>5, <2>6, <2>7, <2>8, <2>9, <2>10, <2>11, MapOne
<1> QED  BY <1>1, <1>7, <1>9, <1>10 DEF AllocAlign

\* An area with an address is mapped there, whatever the heap says.
LEMMA FixedStep ==
    ASSUME MInv, PInv', PlanSound, MapFixed, plan' = plan
    PROVE  Mapped' /\ Planned'
<1> DEFINE area == Head(config)
           g    == MappedAt(area, area.phys)
<1>1. config # <<>> /\ area.phys # MemAuto /\ config' = Tail(config) /\ mapped' = mapped \cup {g}
      /\ AllocSegment(area.own, area.phys, area.size)
  BY DEF MapFixed
<1>2. HeapInv /\ HeapInv' /\ config \in Seq(Areas) /\ plan \in Seq(Areas) /\ Mapped /\ Planned
  BY DEF MInv, PInv
<1>3. area \in Areas  BY <1>1, <1>2
<1>4. area.own \in Owners /\ area.phys \in Addr /\ area.size \in Addr  BY <1>3 DEF Areas
<1>5. PICK k \in 0 .. Len(plan) :
          /\ Done(k)
          /\ config # <<>> /\ (\A j \in 1 .. k : plan[j].phys # MemAuto) =>
                 /\ \A m \in mapped : \E j \in 1 .. k : m = Given(plan[j])
                 /\ Gaps
  BY <1>2 DEF Planned
<1>6. k + 1 \in 1 .. Len(plan) /\ area = plan[k + 1] /\ Done(k + 1)'
  BY <1>1, <1>2, <1>5, Progress
<1>7. g = Given(plan[k + 1])  BY <1>6 DEF Given
<1>8. /\ RamLo <= g.lo /\ g.lo <= g.hi /\ g.hi <= RamHi
      /\ \A j \in 1 .. k : plan[j].phys # MemAuto /\ Disjunct(g, Given(plan[j]))
  <2>1. k + 1 \in DOMAIN plan /\ plan[k + 1].phys # MemAuto  BY <1>1, <1>2, <1>6
  <2>2. (k + 1) - 1 = k  OBVIOUS
  <2>3. /\ RamLo <= Given(plan[k + 1]).lo /\ Given(plan[k + 1]).hi <= RamHi
        /\ Given(plan[k + 1]).lo <= Given(plan[k + 1]).hi
    BY <2>1 DEF PlanSound
  <2>4. \A j \in 1 .. (k + 1) - 1 : plan[j].phys # MemAuto /\ Disjunct(Given(plan[k + 1]), Given(plan[j]))
    BY <2>1 DEF PlanSound
  <2> QED  BY <1>7, <2>2, <2>3, <2>4
<1>9. (\A m \in mapped : \E j \in 1 .. k : m = Given(plan[j])) /\ Gaps  BY <1>1, <1>5, <1>8
<1>10. g \in Segment /\ Proper(g) /\ g.own # NoOne
  <2>1. Last(area.phys, area.size) \in Addr
    BY <1>4, HeapAssumption, SMTT(30) DEF Last, Word, Addr
  <2>2. g \in Segment  BY <1>4, <2>1 DEF MappedAt, Segment
  <2>3. g.own = area.own  BY DEF MappedAt
  <2> QED  BY <1>4, <1>8, <2>2, <2>3, HeapAssumption DEF Proper, NoOne
<1>11. g.own = area.own /\ g.lo = area.phys /\ g.hi = Last(area.phys, area.size)  BY DEF MappedAt
<1>12. g = [own |-> area.own, lo |-> area.phys, hi |-> Last(area.phys, area.size)]
  BY DEF MappedAt
<1> HIDE DEF g
<1>13. \A m \in mapped : Disjunct(g, m) /\ Disjunct(m, g)  BY <1>8, <1>9 DEF Disjunct
<1>14. /\ held' \subseteq held \cup {g}
       /\ \A j \in 1 .. Len(segments') : segments'[j].own = NoOne =>
             /\ Disjunct(segments'[j], g)
             /\ \E i \in 1 .. Len(segments) :
                   /\ segments[i].own = NoOne
                   /\ segments[i].lo <= segments'[j].lo /\ segments'[j].hi <= segments[i].hi
             /\ \A a \in Segment :
                   Proper(a) /\ (\A m \in mapped' : Disjunct(a, m)) => Gap(segments'[j], a)
  <2> DEFINE whole == Containing(segments, g.lo, g.hi)
  <2>1. g.lo \in Nat /\ g.hi \in Nat /\ g.lo <= g.hi  BY <1>8, <1>10, Fields
  <2>2. \A i \in 1 .. Len(segments) :
            /\ segments[i] \in Segment /\ Proper(segments[i])
            /\ segments[i].lo \in Nat /\ segments[i].hi \in Nat
    BY <1>2, Fields DEF HeapInv, SoundTable
  <2>3. CASE whole = {}
    <3>1. held' = held /\ segments' = segments
      BY <1>1, <1>11, <2>3 DEF AllocSegment, vars
    <3>2. ASSUME NEW j \in 1 .. Len(segments), segments[j].own = NoOne
          PROVE  Disjunct(segments[j], g)
      <4>1. Gap(segments[j], g)  BY <1>9, <1>10, <1>13, <3>2 DEF Gaps
      <4>2. ~(segments[j].lo <= g.lo /\ g.hi <= segments[j].hi)
        BY <2>1, <2>2, <2>3 DEF Containing
      <4> QED  BY <4>1, <4>2 DEF Gap
    <3>3. ASSUME NEW j \in 1 .. Len(segments), segments[j].own = NoOne,
                 NEW a \in Segment, Proper(a), \A m \in mapped' : Disjunct(a, m)
          PROVE  Gap(segments[j], a)
      BY <1>1, <1>9, <3>3 DEF Gaps
    <3> QED  BY <2>2, <3>1, <3>2, <3>3
  <2>4. CASE whole # {}
    <3>1. PICK i \in Containing(segments, g.lo, g.hi) : TRUE  BY <2>4
    <3>2. First(whole) = i  BY <1>2, <2>1, OnlyOne DEF HeapInv
    <3>3. Give(i, g)
      <4>1. ~(g.hi < g.lo)  BY <2>1
      <4> QED  BY <1>1, <1>11, <1>12, <2>4, <3>2, <4>1 DEF AllocSegment
    <3>4. i \in 1 .. Len(segments) /\ segments[i].lo <= g.lo /\ g.hi <= segments[i].hi
      BY <2>1, <2>2 DEF Containing
    <3>5. held' \subseteq held \cup {g}  BY <3>3 DEF Give
    <3>6. ASSUME NEW j \in 1 .. Len(segments'), segments'[j].own = NoOne
          PROVE  /\ Disjunct(segments'[j], g)
                 /\ \E e \in 1 .. Len(segments) :
                      /\ segments[e].own = NoOne
                      /\ segments[e].lo <= segments'[j].lo /\ segments'[j].hi <= segments[e].hi
      BY <1>2, <1>10, <3>3, <3>4, <3>6, GiveCovers
    <3>7. ASSUME NEW j \in 1 .. Len(segments'), segments'[j].own = NoOne,
                 NEW a \in Segment, Proper(a), \A m \in mapped' : Disjunct(a, m)
          PROVE  Gap(segments'[j], a)
      <4>1. PICK e \in 1 .. Len(segments) :
                /\ segments[e].own = NoOne
                /\ segments'[j] = segments[e] \/ Beside(segments'[j], segments[e], g)
        BY <1>2, <1>10, <3>3, <3>4, <3>7, GiveFree
      <4>2. Gap(segments[e], a)  BY <1>1, <1>9, <3>7, <4>1 DEF Gaps
      <4>3. Disjunct(a, g)  BY <1>1, <3>7
      <4>4. segments'[j] \in Segment /\ Proper(segments'[j])  BY <1>2 DEF HeapInv, SoundTable
      <4>5. CASE segments'[j] = segments[e]  BY <4>2, <4>5
      <4>6. CASE Beside(segments'[j], segments[e], g)
        BY <1>10, <2>2, <3>7, <4>2, <4>3, <4>4, <4>6, BesideGap
      <4> QED  BY <4>1, <4>5, <4>6
    <3> QED  BY <3>5, <3>6, <3>7
  <2> QED  BY <2>3, <2>4
<1>15. Mapped'  BY <1>1, <1>2, <1>10, <1>13, <1>14, MapOne
<1>16. Planned'
  <2>1. \A m \in mapped' : \E j \in 1 .. k + 1 : m = Given(plan[j])
    <3>1. \A m \in mapped : \E j \in 1 .. k + 1 : m = Given(plan[j])  BY <1>9
    <3>2. k + 1 \in 1 .. k + 1  BY <1>6
    <3> QED  BY <1>1, <1>7, <3>1, <3>2
  <2>2. Gaps'  BY <1>14 DEF Gaps
  <2>3. k + 1 \in 0 .. Len(plan')  BY <1>6
  <2>4. \A m \in mapped' : \E j \in 1 .. k + 1 : m = Given(plan'[j])  BY <2>1
  <2> QED  BY <1>6, <2>2, <2>3, <2>4 DEF Planned
<1> QED  BY <1>15, <1>16

\* Every step keeps the invariant.
LEMMA PrivateNext == NoWrap /\ MInv /\ [PNext]_pvars => MInv'
<1> SUFFICES ASSUME NoWrap, MInv, [PNext]_pvars PROVE MInv'  OBVIOUS
<1>1. PInv'  BY PartitionsNext DEF MInv
<1>2. plan' = plan  BY DEF PNext, pvars
<1>3. PlanSound' = PlanSound  BY <1>2 DEF PlanSound, Given, MappedAt
<1>4. plan' \in Seq(Areas)  BY <1>2 DEF MInv
<1>5. ASSUME PlanSound PROVE Mapped' /\ Planned'
  <2>1. Mapped /\ Planned  BY <1>5 DEF MInv
  <2>2. CASE UNCHANGED pvars
    <3>1. /\ segments' = segments /\ held' = held /\ config' = config
          /\ mapped' = mapped /\ plan' = plan
      BY <2>2 DEF pvars
    <3>2. Mapped' = Mapped  BY <3>1 DEF Mapped
    <3>3. Gaps' = Gaps  BY <3>1 DEF Gaps
    <3>4. \A k \in 0 .. Len(plan) : Done(k)' = Done(k)  BY <3>1 DEF Done
    <3>5. Planned' = Planned  BY <3>1, <3>3, <3>4 DEF Planned
    <3> QED  BY <2>1, <3>2, <3>5
  <2>3. CASE MapAuto  BY <1>1, <1>2, <1>5, <2>3, AutoStep
  <2>4. CASE MapFixed  BY <1>1, <1>2, <1>5, <2>4, FixedStep
  <2>5. CASE Use
    <3>1. config = <<>> /\ mapped = {} /\ config' = <<>> /\ mapped' = {}  BY <2>5 DEF Use
    <3>2. Mapped'  BY <3>1 DEF Mapped
    <3>3. Planned'  BY <1>2, <2>1, <3>1 DEF Planned, Done
    <3> QED  BY <3>2, <3>3
  <2> QED  BY <2>2, <2>3, <2>4, <2>5 DEF PNext
<1> QED  BY <1>1, <1>3, <1>4, <1>5 DEF MInv

\* Of a sound plan no partition maps what another one maps or was given, for plans,
\* memories and tables of any size, a table that is too full included.
THEOREM MappedIsPrivateOK == ASSUME NoWrap PROVE PSpec => []MappedIsPrivate
<1>1. MInv /\ [PNext]_pvars => MInv'  BY PrivateNext
<1>2. MInv => MappedIsPrivate
  <2> SUFFICES ASSUME MInv, PlanSound, NEW g \in mapped, NEW h \in mapped \cup held,
                      g.own # h.own, ~Disjunct(g, h)
               PROVE  0 \in {g.lo, h.lo}
    BY DEF MappedIsPrivate
  <2>1. Mapped  BY DEF MInv
  <2>2. h \in mapped  BY <2>1 DEF Mapped
  <2> QED  BY <2>1, <2>2 DEF Mapped
<1> QED  BY PlanInit, <1>1, <1>2, PTL DEF PSpec
-----------------------------------------------------------------------------
(* What is lost when there is room in the table: nothing.                           *)

\* A split with room for the pieces covers what was covered; who owns a segment in it
\* owned it before, or was given it.
LEMMA SplitAccount ==
    ASSUME NEW s, SoundTable(s), Merged(s), NEW i \in 1 .. Len(s), s[i].own = NoOne,
           NEW g \in Segment, Proper(g), s[i].lo <= g.lo, g.hi <= s[i].hi, g.own # NoOne,
           Len(s) + 2 <= MaxSegments
    PROVE  /\ \A a \in Nat : At(s, a) => At(Split(s, i, g), a)
           /\ \A j \in 1 .. Len(Split(s, i, g)) :
                 \/ Split(s, i, g)[j].own = NoOne \/ Split(s, i, g)[j] = g
                 \/ \E k \in 1 .. Len(s) : Split(s, i, g)[j] = s[k]
<1> DEFINE t == Cut(s, i, g)
           u == AddSegment(t, g)
           r == Rest(s, i, g)
<1>1. s \in Seq(Segment) /\ s[i] \in Segment /\ Proper(s[i])  BY DEF SoundTable
<1>2. /\ s[i].lo \in Nat /\ s[i].hi \in Nat /\ s[i].lo < WordMod /\ s[i].hi < WordMod
      /\ g.lo \in Nat /\ g.hi \in Nat /\ g.lo <= g.hi /\ WordMod \in Nat /\ s[i].lo <= s[i].hi
      /\ Len(s) \in Nat /\ MaxSegments \in Nat
  BY <1>1, Fields, HeapAssumption DEF Proper
<1>3. CASE s[i].lo = g.lo /\ s[i].hi = g.hi
  <2>1. [s[i] EXCEPT !.own = g.own] = g  BY <1>1, <1>3 DEF Segment
  <2>2. Split(s, i, g) = [s EXCEPT ![i] = g]  BY <1>3, <2>1 DEF Split
  <2> DEFINE w == [s EXCEPT ![i] = g]
  <2>3. Len(w) = Len(s) /\ \A j \in 1 .. Len(s) : w[j] = IF j = i THEN g ELSE s[j]  BY <1>1
  <2> HIDE DEF w
  <2>4. \A a \in Nat : At(s, a) => At(w, a)  BY <1>3, <2>3 DEF At
  <2> QED  BY <2>2, <2>3, <2>4 DEF w
<1>4. CASE s[i].lo # g.lo \/ s[i].hi # g.hi
  <2>1. Goes(s, t) /\ Len(t) = Len(s) /\ t[i].own = NoOne  BY <1>4, CutGoes
  <2>2. /\ t[i].lo = IF s[i].lo = g.lo THEN g.hi + 1 ELSE s[i].lo
        /\ t[i].hi = IF s[i].lo = g.lo THEN s[i].hi ELSE g.lo - 1
        /\ \A k \in 1 .. Len(s) : k # i => t[k] = s[k]
    BY <1>4, CutGoes
  <2>3. t \in Seq(Segment) /\ Len(t) <= MaxSegments /\ Len(t) < MaxSegments
    BY <1>2, <2>1 DEF Goes, SoundTable
  <2> HIDE DEF t
  <2>4. /\ u \in Seq(Segment) /\ Len(u) = Len(t) + 1
        /\ \A k \in 1 .. Len(t) : k \in 1 .. Len(u) /\ u[k] = t[k]
        /\ \A k \in 1 .. Len(u) : (k \in 1 .. Len(t) /\ u[k] = t[k]) \/ u[k] = g
        /\ Len(t) + 1 \in 1 .. Len(u) /\ u[Len(t) + 1] = g
    BY <2>3, Added
  <2>5. u \in Seq(Segment) /\ Len(u) < MaxSegments  BY <1>2, <2>1, <2>4
  <2> HIDE DEF u
  <2>6. \A k \in 1 .. Len(u) : u[k].own = NoOne \/ u[k] = g \/ \E m \in 1 .. Len(s) : u[k] = s[m]
    BY <2>1, <2>2, <2>4
  <2>7. ASSUME NEW a \in Nat, At(s, a), s[i].lo = g.lo \/ s[i].hi = g.hi \/ a <= g.hi \/ a > s[i].hi
        PROVE  At(u, a)
    <3>1. PICK k \in 1 .. Len(s) : s[k].lo <= a /\ a <= s[k].hi  BY <2>7 DEF At
    <3>2. CASE k # i
      <4>1. k \in 1 .. Len(u) /\ u[k] = s[k]  BY <2>1, <2>2, <2>4, <3>2
      <4> QED  BY <3>1, <4>1 DEF At
    <3>3. CASE k = i
      <4>1. (g.lo <= a /\ a <= g.hi) \/ (t[i].lo <= a /\ a <= t[i].hi)
        <5>1. CASE g.lo <= a /\ a <= g.hi  BY <5>1
        <5>2. CASE a < g.lo
          <6>1. s[i].lo # g.lo  BY <1>2, <3>1, <3>3, <5>2
          <6>2. t[i].lo = s[i].lo /\ t[i].hi = g.lo - 1  BY <2>2, <6>1
          <6> QED  BY <1>2, <3>1, <3>3, <5>2, <6>2
        <5>3. CASE a > g.hi
          <6>1. s[i].lo = g.lo  BY <1>2, <2>7, <3>1, <3>3, <5>3
          <6>2. t[i].lo = g.hi + 1 /\ t[i].hi = s[i].hi  BY <2>2, <6>1
          <6> QED  BY <1>2, <3>1, <3>3, <5>3, <6>2
        <5> QED  BY <1>2, <5>1, <5>2, <5>3
      <4>2. i \in 1 .. Len(u) /\ u[i] = t[i]  BY <2>1, <2>4
      <4> QED  BY <2>4, <4>1, <4>2 DEF At
    <3> QED  BY <3>2, <3>3
  <2>8. CASE s[i].lo = g.lo \/ s[i].hi = g.hi
    <3>1. Split(s, i, g) = u  BY <1>4, <2>8 DEF Split, t, u
    <3> QED  BY <2>6, <2>7, <2>8, <3>1
  <2>9. CASE s[i].lo # g.lo /\ s[i].hi # g.hi
    <3>1. Split(s, i, g) = AddSegment(u, r)  BY <2>9 DEF Split, t, u
    <3>2. Word(g.hi + 1) = g.hi + 1 /\ g.hi + 1 <= s[i].hi  BY <1>2, <2>9 DEF Word
    <3>3. r.lo = g.hi + 1 /\ r.hi = s[i].hi /\ r.own = NoOne  BY <3>2 DEF Rest
    <3>4. r \in Segment  BY <1>1, <1>2, <3>2, SMTT(30) DEF Rest, Segment, Addr
    <3> HIDE DEF r
    <3> DEFINE w == AddSegment(u, r)
    <3>5. /\ \A k \in 1 .. Len(u) : k \in 1 .. Len(w) /\ w[k] = u[k]
          /\ \A k \in 1 .. Len(w) : (k \in 1 .. Len(u) /\ w[k] = u[k]) \/ w[k] = r
          /\ Len(u) + 1 \in 1 .. Len(w) /\ w[Len(u) + 1] = r
      BY <2>5, <3>4, Added
    <3> HIDE DEF w
    <3>6. ASSUME NEW a \in Nat, At(s, a) PROVE At(w, a)
      <4>1. CASE a <= g.hi \/ a > s[i].hi
        <5>1. At(u, a)  BY <2>7, <3>6, <4>1
        <5> QED  BY <3>5, <5>1 DEF At
      <4>2. CASE ~(a <= g.hi \/ a > s[i].hi)
        <5>1. r.lo <= a /\ a <= r.hi  BY <1>2, <3>3, <4>2
        <5> QED  BY <3>5, <5>1 DEF At
      <4> QED  BY <4>1, <4>2
    <3>7. \A j \in 1 .. Len(w) : w[j].own = NoOne \/ w[j] = g \/ \E m \in 1 .. Len(s) : w[j] = s[m]
      BY <2>6, <3>3, <3>5
    <3> QED  BY <3>1, <3>6, <3>7 DEF w
  <2> QED  BY <2>8, <2>9
<1> QED  BY <1>3, <1>4

\* What Accounted says of a table that is sound.
Counted(s, h) ==
    /\ \A a \in RamLo .. RamHi : At(s, a)
    /\ \A i \in 1 .. Len(s) : s[i].own = NoOne \/ s[i] \in h

\* Containing finds the segments that At is about.
LEMMA CountedIs ==
    ASSUME NEW s, SoundTable(s)
    PROVE  \A a \in RamLo .. RamHi : a \in Nat /\ (Containing(s, a, a) # {} <=> At(s, a))
<1> SUFFICES ASSUME NEW a \in RamLo .. RamHi
             PROVE  a \in Nat /\ (Containing(s, a, a) # {} <=> At(s, a))
  OBVIOUS
<1>1. a \in Nat  BY HeapAssumption DEF Addr
<1>2. \A i \in 1 .. Len(s) : s[i].hi \in Nat  BY Fields DEF SoundTable
<1>3. \A i \in 1 .. Len(s) : s[i].hi >= a <=> a <= s[i].hi  BY <1>1, <1>2
<1> QED  BY <1>1, <1>3 DEF Containing, At

\* An allocation loses nothing.
LEMMA GivesAccount ==
    ASSUME HeapInv, HeapInv', Counted(segments, held), Len(segments) + 2 <= MaxSegments, Gives
    PROVE  Counted(segments', held')
<1>1. CASE UNCHANGED vars
  BY <1>1 DEF vars
<1>2. ASSUME NEW i \in 1 .. Len(segments), NEW g \in Segment, g.own # NoOne, Proper(g),
             segments[i].lo <= g.lo, g.hi <= segments[i].hi, Give(i, g)
      PROVE  Counted(segments', held')
  <2>1. CASE segments[i].own # NoOne
    <3>1. segments' = segments /\ held \subseteq held'  BY <1>2, <2>1 DEF Give, AllocFrom
    <3> QED  BY <3>1 DEF Counted
  <2>2. CASE segments[i].own = NoOne
    <3>1. segments' = Split(segments, i, g)  BY <1>2, <2>2 DEF Give, AllocFrom
    <3>2. held' = held \cup {g}
      <4>1. Len(segments) \in Nat /\ MaxSegments \in Nat
        BY HeapAssumption DEF HeapInv, SoundTable
      <4>2. Len(segments) + Pieces(segments, i, g) <= MaxSegments  BY <4>1 DEF Pieces
      <4> QED  BY <1>2, <2>2, <4>2 DEF Give, AllocFrom
    <3>3. SoundTable(segments) /\ Merged(segments)  BY DEF HeapInv
    <3>4. /\ \A a \in Nat : At(segments, a) => At(segments', a)
          /\ \A j \in 1 .. Len(segments') :
                \/ segments'[j].own = NoOne \/ segments'[j] = g
                \/ \E k \in 1 .. Len(segments) : segments'[j] = segments[k]
      BY <1>2, <2>2, <3>1, <3>3, SplitAccount
    <3>5. \A a \in RamLo .. RamHi : a \in Nat  BY <3>3, CountedIs
    <3> QED  BY <3>2, <3>4, <3>5 DEF Counted
  <2> QED  BY <2>1, <2>2
<1> QED  BY <1>1, <1>2 DEF Gives

\* Neither does heapFree: what is freed is the whole of the segment.
LEMMA FreeAccount ==
    ASSUME HeapInv, Counted(segments, held), NEW h \in held, Free(h)
    PROVE  Counted(segments', held')
<1> DEFINE k == Around(h)
           d == DeleteSegment(segments, k)
<1>1. SoundTable(segments) /\ segments \in Seq(Segment)  BY DEF HeapInv, SoundTable
<1>2. PICK f \in Segment :
             /\ k \in 1 .. Len(segments) /\ f.lo = segments[k].lo /\ f.hi = segments[k].hi
             /\ Addable([table |-> d, new |-> f])
             /\ segments' = HeapAdd(d, f.lo, f.hi - f.lo + 1)
  BY FreeTakes
<1>3. held' = held \ {h} /\ \A g \in held \ {h} : Around(g) # k  BY DEF Free
<1>4. segments[k].own = h.own /\ h.own # NoOne
  <2>1. PICK i \in 1 .. Len(segments) :
           segments[i].own = h.own /\ segments[i].lo <= h.lo /\ h.hi <= segments[i].hi
    BY DEF HeapInv, Owned
  <2>2. i = k  BY <2>1, AroundIs
  <2> QED  BY <2>1, <2>2 DEF HeapInv
<1> HIDE DEF k
<1>5. segments[k] = h
  <2>1. segments[k] \in held  BY <1>2, <1>4 DEF Counted
  <2>2. segments[k].lo \in Nat /\ segments[k].hi \in Nat  BY <1>1, <1>2, Fields
  <2>3. segments[k].lo <= segments[k].lo /\ segments[k].hi <= segments[k].hi  BY <2>2
  <2>4. \A g \in held : g = segments[k] => Around(g) = k  BY <1>2, <2>3, AroundIs
  <2> QED  BY <1>3, <2>1, <2>4
<1>6. \A j \in 1 .. Len(d) : \E i \in 1 .. Len(segments) : i # k /\ d[j] = segments[i]
  <2> SUFFICES ASSUME NEW j \in 1 .. Len(d)
               PROVE  \E i \in 1 .. Len(segments) : i # k /\ d[j] = segments[i]
    OBVIOUS
  <2>1. Len(segments) \in Nat /\ Len(d) = Len(segments) - 1  BY <1>1, <1>2, Deleting
  <2>2. d[j] = segments[IF j < k THEN j ELSE j + 1]  BY <1>1, <1>2, <2>1, Deleting
  <2>3. (IF j < k THEN j ELSE j + 1) \in 1 .. Len(segments) /\ (IF j < k THEN j ELSE j + 1) # k
    BY <1>2, <2>1
  <2> QED  BY <2>2, <2>3
<1>7. \A i \in 1 .. Len(segments) : i # k => \E j \in 1 .. Len(d) : d[j] = segments[i]
  <2>1. Len(d) = Len(segments) - 1  BY <1>1, <1>2, Deleting
  <2> QED  BY <1>1, <1>2, <2>1, Kept
<1> HIDE DEF d
<1>8. /\ \A a \in Nat : At(d, a) \/ (f.lo <= a /\ a <= f.hi) => At(segments', a)
      /\ \A i \in 1 .. Len(segments') :
            segments'[i].own = NoOne \/ \E j \in 1 .. Len(d) : segments'[i] = d[j]
  BY <1>2, HeapAddOK
<1>9. ASSUME NEW a \in Nat, At(segments, a) PROVE At(segments', a)
  <2>1. PICK i \in 1 .. Len(segments) : segments[i].lo <= a /\ a <= segments[i].hi
    BY <1>9 DEF At
  <2>2. CASE i = k
    BY <1>2, <1>8, <2>1, <2>2
  <2>3. CASE i # k
    <3>1. At(d, a)  BY <1>7, <2>1, <2>3 DEF At
    <3> QED  BY <1>8, <3>1
  <2> QED  BY <2>2, <2>3
<1>10. \A i \in 1 .. Len(segments) : i # k => segments[i] # h
  <2> SUFFICES ASSUME NEW i \in 1 .. Len(segments), i # k, segments[i] = segments[k]
               PROVE  FALSE
    BY <1>5
  <2>1. Disjunct(segments[i], segments[k]) /\ segments[k] \in Segment /\ Proper(segments[k])
    BY <1>1, <1>2 DEF SoundTable
  <2>2. segments[k].lo \in Nat /\ segments[k].hi \in Nat  BY <2>1, Fields
  <2> QED  BY <2>1, <2>2 DEF Disjunct, Proper
<1>11. \A i \in 1 .. Len(segments') : segments'[i].own = NoOne \/ segments'[i] \in held'
  BY <1>3, <1>6, <1>8, <1>10 DEF Counted
<1>12. \A a \in RamLo .. RamHi : a \in Nat  BY <1>1, CountedIs
<1> QED  BY <1>9, <1>11, <1>12 DEF Counted

\* No step of the heap loses anything that was accounted for.
LEMMA NextAccount ==
    ASSUME NoWrap, HeapInv, HeapInv', [Next]_vars, Accounted, Len(segments) + 2 <= MaxSegments
    PROVE  Accounted'
<1>1. SoundTable(segments) /\ SoundTable(segments')  BY DEF HeapInv
<1>2. Counted(segments, held)  BY <1>1, CountedIs DEF Accounted, Counted
<1>3. ASSUME NEW o \in Owners, NEW a \in Asks, AllocAlign(o, a[1], a[2]) PROVE Gives
  <2>1. a[1] \in Addr /\ a[2] \in Addr \ {0}  BY HeapAssumption
  <2>2. Moderate(a[1], a[2])  BY DEF NoWrap
  <2> QED  BY <1>3, <2>1, <2>2, AlignGives
<1>4. ASSUME NEW o \in Owners, NEW r \in Regions, AllocSegment(o, r[1], r[2]) PROVE Gives
  <2>1. r[1] \in Addr /\ r[2] \in Addr  BY HeapAssumption
  <2> QED  BY <1>4, <2>1, SegmentGives
<1>5. Gives \/ \E h \in held : Free(h)
  BY <1>3, <1>4 DEF Next, Gives
<1>6. Counted(segments', held')  BY <1>2, <1>5, GivesAccount, FreeAccount
<1> QED  BY <1>1, <1>6, CountedIs DEF Accounted, Counted

\* As long as the table has room for two more segments, no memory gets lost, and who owns a
\* segment holds it: allocations and frees in any order, memories and tables of any size.
THEOREM NothingLostOK == ASSUME NoWrap PROVE Spec => NothingLost
<1>1. HeapInv /\ [Next]_vars => HeapInv'  BY HeapNext
<1>2. HeapInv /\ HeapInv' /\ [Next]_vars =>
        [Accounted /\ Len(segments) + 2 <= MaxSegments => Accounted']_vars
  BY NextAccount
<1> QED  BY HeapInit, <1>1, <1>2, PTL DEF Spec, NothingLost

\* The same while prtnInit maps whatever is configured.
THEOREM PartitionsLoseNothing == ASSUME NoWrap PROVE PSpec => NothingLost
<1>1. PInit => PInv  BY HeapInit, PartitionsAssumption DEF PInit, PInv, Areas
<1>2. PInv /\ [PNext]_pvars => PInv'  BY PartitionsNext
<1>3. ASSUME PInv, PInv', [PNext]_pvars, Accounted, Len(segments) + 2 <= MaxSegments
      PROVE  Accounted'
  <2>1. HeapInv /\ HeapInv' /\ config \in Seq(Areas)  BY <1>3 DEF PInv
  <2>2. SoundTable(segments) /\ SoundTable(segments')  BY <2>1 DEF HeapInv
  <2>3. Counted(segments, held)  BY <1>3, <2>2, CountedIs DEF Accounted, Counted
  <2>4. config # <<>> => Head(config) \in Areas  BY <2>1
  <2>5. CASE MapAuto
    <3>1. config # <<>> /\ AllocAlign(Head(config).own, Head(config).size, 1)
      BY <2>5 DEF MapAuto
    <3>2. /\ Head(config).own \in Owners /\ Head(config).size \in Addr
          /\ 1 \in Addr \ {0} /\ Moderate(Head(config).size, 1)
      BY <2>4, <3>1, HeapAssumption DEF Areas, Addr, Moderate
    <3>3. Gives  BY <2>1, <3>1, <3>2, AlignGives
    <3>4. Counted(segments', held')  BY <1>3, <2>1, <2>3, <3>3, GivesAccount
    <3> QED  BY <2>2, <3>4, CountedIs DEF Accounted, Counted
  <2>6. CASE MapFixed
    <3>1. config # <<>> /\ AllocSegment(Head(config).own, Head(config).phys, Head(config).size)
      BY <2>6 DEF MapFixed
    <3>2. /\ Head(config).own \in Owners /\ Head(config).size \in Addr
          /\ Head(config).phys \in Addr
      BY <2>4, <3>1 DEF Areas
    <3>3. Gives  BY <2>1, <3>1, <3>2, SegmentGives
    <3>4. Counted(segments', held')  BY <1>3, <2>1, <2>3, <3>3, GivesAccount
    <3> QED  BY <2>2, <3>4, CountedIs DEF Accounted, Counted
  <2>7. CASE Use \/ UNCHANGED pvars
    <3>1. [Next]_vars  BY <2>7 DEF Use, pvars, vars
    <3> QED  BY <1>3, <2>1, <3>1, NextAccount
  <2> QED  BY <1>3, <2>5, <2>6, <2>7 DEF PNext
<1>4. PInv /\ PInv' /\ [PNext]_pvars =>
        [Accounted /\ Len(segments) + 2 <= MaxSegments => Accounted']_vars
  BY <1>3
<1> QED  BY <1>1, <1>2, <1>4, PTL DEF PSpec, NothingLost
=============================================================================
