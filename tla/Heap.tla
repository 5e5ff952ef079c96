--------------------------------- MODULE Heap ---------------------------------
(***************************************************************************)
(* The kernel heap (core/heap.c): a table of segments of physical memory,    *)
(* each free or owned by a partition.  Allocation takes the first free        *)
(* segment that fits, or a given region; the rest of the segment stays free.  *)
(* Freeing merges a segment with its free neighbours.                         *)
(*                                                                         *)
(* Partitions are the callers.  The heap has no lock and is used at boot,     *)
(* one call at a time: a call is one action.                                  *)
(***************************************************************************)
EXTENDS Integers, Sequences

CONSTANTS
    WordMod,       \* 2^32: the width of an address
    RamLo, RamHi,  \* the partition RAM of the board
    MaxSegments,   \* MX_CFG_MAX_SEGMENTS
    Owners,        \* the partitions
    Asks,          \* sizes and alignments that are asked for: <<size, align>>
    Regions        \* regions that are asked for: <<start, size>>

Addr == 0 .. WordMod - 1
NoOne == 0

ASSUME HeapAssumption ==
    /\ WordMod \in Nat /\ RamLo \in Addr \ {0} /\ RamHi \in Addr /\ RamLo <= RamHi
    /\ MaxSegments \in Nat \ {0}
    /\ Owners \subseteq Nat \ {NoOne}
    /\ Asks \subseteq Addr \X (Addr \ {0}) /\ Regions \subseteq Addr \X Addr

VARIABLES
    segments,      \* HEAP_segments, up to HEAP_uiValidNum
    held           \* what the partitions were given and did not free (not in the code)
vars == <<segments, held>>

Segment == [own : Owners \cup {NoOne}, lo : Addr, hi : Addr]
TypeOK ==
    /\ segments \in Seq(Segment) /\ Len(segments) <= MaxSegments
    /\ held \subseteq Segment
-----------------------------------------------------------------------------
\* Arithmetic of ULONG: n is a sum or a difference of two addresses.
Word(n) == IF n >= WordMod THEN n - WordMod ELSE IF n < 0 THEN n + WordMod ELSE n
Last(start, size) == Word(start + size - 1)

\* ROUND_UP
RoundUp(a, align) == Word((a + align - 1) - ((a + align - 1) % align))

Disjunct(g, h) == g.hi < h.lo \/ h.hi < g.lo

First(S) == CHOOSE i \in S : \A j \in S : i <= j

\* __findCrossSegment and __findContainSegment take the first of these.
Crossing(s, lo, hi)   == {i \in 1 .. Len(s) : s[i].lo <= hi /\ s[i].hi >= lo}
Containing(s, lo, hi) == {i \in 1 .. Len(s) : s[i].lo <= lo /\ s[i].hi >= hi}

\* __addSegment: nothing happens when the table is full.
AddSegment(s, g) == IF Len(s) < MaxSegments THEN Append(s, g) ELSE s

\* __deleteSegment: the ones behind move up.
DeleteSegment(s, i) == [j \in 1 .. Len(s) - 1 |-> IF j < i THEN s[j] ELSE s[j + 1]]

\* __allocFrom on a free segment: what is left of it at the place it had ...
Cut(s, i, g) ==
    IF s[i].lo = g.lo THEN [s EXCEPT ![i].lo = Word(g.hi + 1)]
                      ELSE [s EXCEPT ![i].hi = Word(g.lo - 1)]
\* ... what is added ...
\* Mutant: from its last address on.
RestEarly(s, i, g) == [own |-> s[i].own, lo |-> g.hi, hi |-> s[i].hi]
Rest(s, i, g) == [own |-> s[i].own, lo |-> Word(g.hi + 1), hi |-> s[i].hi]
Split(s, i, g) ==
    IF s[i].lo = g.lo /\ s[i].hi = g.hi THEN [s EXCEPT ![i].own = g.own]
    ELSE IF s[i].lo = g.lo \/ s[i].hi = g.hi THEN AddSegment(Cut(s, i, g), g)
    ELSE AddSegment(AddSegment(Cut(s, i, g), g), Rest(s, i, g))
\* ... and whether there was room for it.
Pieces(s, i, g) ==
    IF s[i].lo = g.lo /\ s[i].hi = g.hi THEN 0
    ELSE IF s[i].lo = g.lo \/ s[i].hi = g.hi THEN 1 ELSE 2
\* Mutant: the owner of the region around is not looked at.
AllocFromAny(s, i, g) ==
    [ok |-> s[i].own # NoOne \/ Len(s) + Pieces(s, i, g) <= MaxSegments,
     table |-> IF s[i].own # NoOne THEN s ELSE Split(s, i, g)]
AllocFrom(s, i, g) ==
    IF s[i].own # NoOne
    THEN [ok |-> s[i].own = g.own, table |-> s]
    ELSE [ok |-> Len(s) + Pieces(s, i, g) <= MaxSegments, table |-> Split(s, i, g)]

\* The three merges of heapAdd on a table and the segment to be added: with one
\* that crosses it, and with a free one right below and right above.
MergeCross(x) ==
    LET over == Crossing(x.table, x.new.lo, x.new.hi)
        k    == First(over)
    IN  IF over = {} THEN x
        ELSE [table |-> DeleteSegment(x.table, k),
              new   |-> [own |-> x.new.own,
                         lo  |-> IF x.table[k].lo < x.new.lo THEN x.table[k].lo ELSE x.new.lo,
                         hi  |-> IF x.table[k].hi > x.new.hi THEN x.table[k].hi ELSE x.new.hi]]
MergeLow(x) ==
    LET below == Crossing(x.table, x.new.lo - 1, x.new.hi)
        k     == First(below)
    IN  IF x.new.lo = 0 \/ below = {} THEN x
        ELSE IF x.table[k].own # x.new.own THEN x
        ELSE [table |-> DeleteSegment(x.table, k), new |-> [x.new EXCEPT !.lo = x.table[k].lo]]
\* Mutant: the end of the one above is not taken over.
MergeHighShort(x) ==
    LET above == Crossing(x.table, x.new.lo, x.new.hi + 1)
        k     == First(above)
    IN  IF Word(x.new.hi + 1) = 0 \/ above = {} THEN x
        ELSE IF x.table[k].own # x.new.own THEN x
        ELSE [table |-> DeleteSegment(x.table, k), new |-> x.new]
MergeHigh(x) ==
    LET above == Crossing(x.table, x.new.lo, x.new.hi + 1)
        k     == First(above)
    IN  IF Word(x.new.hi + 1) = 0 \/ above = {} THEN x
        ELSE IF x.table[k].own # x.new.own THEN x
        ELSE [table |-> DeleteSegment(x.table, k), new |-> [x.new EXCEPT !.hi = x.table[k].hi]]

HeapAdd(s, start, size) ==
    LET new == [own |-> NoOne, lo |-> start, hi |-> Last(start, size)]
        x   == MergeHigh(MergeLow(MergeCross([table |-> s, new |-> new])))
    IN  IF new.hi < new.lo THEN s ELSE AddSegment(x.table, x.new)
-----------------------------------------------------------------------------
\* heapInit
Init ==
    /\ segments = HeapAdd(<<>>, RamLo, RamHi - RamLo + 1)
    /\ held = {}

Give(i, g) ==
    LET r == AllocFrom(segments, i, g)
    IN  /\ segments' = r.table
        /\ held' = IF r.ok THEN held \cup {g} ELSE held

\* heapAllocAlign: the free segments the request fits in; heapAlloc aligns to 1.
Fits(i, size, align) ==
    LET seg   == segments[i]
        start == RoundUp(seg.lo, align)
    IN  /\ seg.own = NoOne
        /\ Last(seg.lo, size) >= seg.lo
        /\ start < seg.hi
        /\ Last(start, size) <= seg.hi
Fitting(size, align) == {i \in 1 .. Len(segments) : Fits(i, size, align)}
AllocAlign(o, size, align) ==
    \/ \E i \in Fitting(size, align) :
          /\ \A j \in Fitting(size, align) : i <= j
          /\ LET start == RoundUp(segments[i].lo, align)
             IN  Give(i, [own |-> o, lo |-> start, hi |-> Last(start, size)])
    \/ Fitting(size, align) = {} /\ UNCHANGED vars

\* heapAllocSegment
AllocSegment(o, start, size) ==
    LET g     == [own |-> o, lo |-> start, hi |-> Last(start, size)]
        whole == Containing(segments, g.lo, g.hi)
    IN  IF g.hi < g.lo \/ whole = {} THEN UNCHANGED vars ELSE Give(First(whole), g)

\* heapFree of memory that was given: the segment around its first address.  Nobody
\* frees a part of a segment of which it holds another part.
Around(h) == First(Containing(segments, h.lo, h.lo))
Free(h) ==
    LET k == Around(h)
    IN  /\ h \in held /\ \A g \in held \ {h} : Around(g) # k
        /\ held' = held \ {h}
        /\ segments' = HeapAdd(DeleteSegment(segments, k), segments[k].lo,
                               segments[k].hi - segments[k].lo + 1)

Next ==
    \/ \E o \in Owners : \E a \in Asks : AllocAlign(o, a[1], a[2])
    \/ \E o \in Owners : \E r \in Regions : AllocSegment(o, r[1], r[2])
    \/ \E h \in held : Free(h)
Spec == Init /\ [][Next]_vars
-----------------------------------------------------------------------------
\* No two segments overlap, and none is empty.
Disjoint ==
    /\ \A i \in 1 .. Len(segments) : segments[i].lo <= segments[i].hi
    /\ \A i, j \in 1 .. Len(segments) : i # j => Disjunct(segments[i], segments[j])

\* Free neighbours are merged at once.
Coalesced ==
    \A i, j \in 1 .. Len(segments) :
        segments[i].own = NoOne /\ segments[j].own = NoOne => segments[i].hi + 1 # segments[j].lo

\* What a partition holds lies in a segment that the table says is its own.
HeldOwned ==
    \A h \in held : \E i \in 1 .. Len(segments) :
        /\ segments[i].own = h.own
        /\ segments[i].lo <= h.lo /\ h.hi <= segments[i].hi

\* The table is sound, and so is what it says of the memory that was given out, whatever
\* was allocated and freed and however full the table is.
HeapSound == TypeOK /\ Disjoint /\ Coalesced /\ HeldOwned

\* Every address of the RAM is in a segment, and owned segments have a holder ...
Accounted ==
    /\ \A a \in RamLo .. RamHi : Containing(segments, a, a) # {}
    /\ \A i \in 1 .. Len(segments) : segments[i].own = NoOne \/ segments[i] \in held
\* ... so no memory gets lost, except by a step that finds no room for what it adds:
\* __addSegment tells nobody then.
NothingLost == [][Accounted /\ Len(segments) + 2 <= MaxSegments => Accounted']_vars
=============================================================================
