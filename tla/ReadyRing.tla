------------------------------- MODULE ReadyRing ------------------------------
(***************************************************************************)
(* A ready table as the kernel keeps it: a ring of pointers per priority        *)
(* (list/list.c) and a bit map of two levels that says which rings are not       *)
(* empty (core/sched/_BitmapLib.c), one action per word that is written.        *)
(* The scheduler adds and takes threads with the kernel lock; vcpuStart adds     *)
(* one with interrupts off and without the lock.  Every |= and &= is one step.   *)
(***************************************************************************)
EXTENDS Naturals, FiniteSets, Sequences

CONSTANTS CPU, Thread, None,
          PrioOf,      \* VCPU_uiPriority
          Group        \* the priorities of one word of the bit map: 32

Prio == {PrioOf[t] : t \in Thread}

VARIABLES
    hdr,        \* RDYP_pringReadyHeader of a priority
    next, prev, \* RING_plistNext and RING_plistPrev; those of None are what a
                \* write through a null pointer hits
    map, sub,   \* the bits of BMAP_uiMap and of BMAP_uiSubMap
    init,       \* the threads with MX_VCPU_STATUS_INIT
    out,        \* the threads that are taken, to run or to sleep
    lock,       \* the owner of the kernel lock
    at,         \* where a processor is
    thr, pri,   \* the thread and the priority it is busy with
    old         \* the header it has read
links == <<hdr, next, prev>>
bits  == <<map, sub>>
cpu   == <<thr, pri, old>>
vars  == <<links, bits, init, out, lock, at, cpu>>

Node == Thread \cup {None}
Adding   == {"init", "read", "link", "left", "right", "self", "head", "one", "map", "sub"}
Taking   == {"seek", "take", "del", "unlink", "join", "empty", "clrsub", "test", "clrmap"}
Word(p)  == p \div Group

TypeOK ==
    /\ hdr \in [Prio -> Node] /\ next \in [Node -> Node] /\ prev \in [Node -> Node]
    /\ sub \subseteq Prio /\ map \subseteq {p \div Group : p \in Prio}
    /\ init \subseteq Thread /\ out \subseteq Thread /\ lock \in CPU \cup {None}
    /\ at \in [CPU -> {"idle", "lost"} \cup Adding \cup Taking]
    /\ thr \in [CPU -> Node] /\ pri \in [CPU -> Prio \cup {None}] /\ old \in [CPU -> Node]

Init ==
    /\ hdr = [p \in Prio |-> None]
    /\ next = [n \in Node |-> None] /\ prev = [n \in Node |-> None]
    /\ map = {} /\ sub = {} /\ init = Thread /\ out = {} /\ lock = None
    /\ at = [c \in CPU |-> "idle"] /\ thr = [c \in CPU |-> None]
    /\ pri = [c \in CPU |-> None] /\ old = [c \in CPU |-> None]

Go(c, from, to) == at[c] = from /\ at' = [at EXCEPT ![c] = to]
Begin(c, to, t, p) ==
    /\ Go(c, "idle", to) /\ thr' = [thr EXCEPT ![c] = t] /\ pri' = [pri EXCEPT ![c] = p]
    /\ UNCHANGED <<links, bits, init, old>>
\* The end of an operation: the kernel lock is left if it was taken.
End(c) ==
    /\ at' = [at EXCEPT ![c] = "idle"] /\ lock' = IF lock = c THEN None ELSE lock
    /\ thr' = [thr EXCEPT ![c] = None] /\ pri' = [pri EXCEPT ![c] = None]
    /\ old' = [old EXCEPT ![c] = None]
Step(c, from, to) == Go(c, from, to) /\ UNCHANGED <<init, out, lock, cpu>>
-----------------------------------------------------------------------------
\* vcpuStart, for a thread that it still finds in MX_VCPU_STATUS_INIT
Start(c, t) == t \in init /\ Begin(c, "init", t, PrioOf[t]) /\ UNCHANGED <<out, lock>>
Started(c) ==
    /\ Go(c, "init", "read") /\ init' = init \ {thr[c]}
    /\ UNCHANGED <<links, bits, out, lock, cpu>>
\* __candTableClear and the wakeups: a thread becomes ready again.
Back(c, t) ==
    /\ lock = None /\ lock' = c /\ t \in out /\ out' = out \ {t}
    /\ Begin(c, "read", t, PrioOf[t])
\* __candTableFill, for the most urgent priority that has a bit: _BitmapHigh
High(w) == CHOOSE p \in sub : Word(p) = w /\ \A q \in sub : Word(q) = w => p <= q
Fill(c) ==
    LET w == CHOOSE w \in map : \A v \in map : w <= v
    IN  /\ map # {} /\ lock = None /\ lock' = c /\ UNCHANGED out
        /\ IF \E p \in sub : Word(p) = w THEN Begin(c, "seek", None, High(w))
                                         ELSE Begin(c, "lost", None, None)
-----------------------------------------------------------------------------
\* _ReadyTableAdd: _List_Ring_Add_Ahead ...
Read(c) ==
    /\ Go(c, "read", IF hdr[pri[c]] = None THEN "self" ELSE "link")
    /\ old' = [old EXCEPT ![c] = hdr[pri[c]]]
    /\ UNCHANGED <<links, bits, init, out, lock, thr, pri>>
Link(c) ==
    /\ next' = [next EXCEPT ![thr[c]] = old[c]] /\ prev' = [prev EXCEPT ![thr[c]] = prev[old[c]]]
    /\ Step(c, "link", "left") /\ UNCHANGED <<hdr, bits>>
Left(c) ==
    /\ next' = [next EXCEPT ![prev[old[c]]] = thr[c]]
    /\ Step(c, "left", "right") /\ UNCHANGED <<hdr, prev, bits>>
Right(c) ==
    /\ prev' = [prev EXCEPT ![old[c]] = thr[c]]
    /\ Step(c, "right", "head") /\ UNCHANGED <<hdr, next, bits>>
Self(c) ==
    /\ next' = [next EXCEPT ![thr[c]] = thr[c]] /\ prev' = [prev EXCEPT ![thr[c]] = thr[c]]
    /\ Step(c, "self", "head") /\ UNCHANGED <<hdr, bits>>
\* Mutant: the header stays, as in _List_Ring_Add_Last.
NewHeaderLast(c) == IF old[c] = None THEN thr[c] ELSE old[c]
NewHeader(c)     == thr[c]
Header(c) ==
    /\ Step(c, "head", "one") /\ hdr' = [hdr EXCEPT ![pri[c]] = NewHeader(c)]
    /\ UNCHANGED <<next, prev, bits>>

\* ... and _BitmapAdd, if it is alone in its ring
IsOne(p) == hdr[p] # None /\ hdr[p] = next[hdr[p]]
One(c) ==
    /\ at[c] = "one"
    /\ IF IsOne(pri[c]) THEN Step(c, "one", "map") ELSE End(c) /\ UNCHANGED <<init, out>>
    /\ UNCHANGED <<links, bits>>
SetMap(c) ==
    /\ Step(c, "map", "sub") /\ map' = map \cup {Word(pri[c])} /\ UNCHANGED <<links, sub>>
SetSub(c) ==
    /\ at[c] = "sub" /\ sub' = sub \cup {pri[c]} /\ End(c) /\ UNCHANGED <<links, map, init, out>>
-----------------------------------------------------------------------------
\* _ReadyTableSeek: the header, or the next one if the header has used up its slice
Rotate(c) ==
    /\ Step(c, "seek", "take") /\ hdr' = [hdr EXCEPT ![pri[c]] = next[@]]
    /\ UNCHANGED <<next, prev, bits>>
Seek(c) ==
    /\ at[c] \in {"seek", "take"} /\ at' = [at EXCEPT ![c] = "del"]
    /\ thr' = [thr EXCEPT ![c] = hdr[pri[c]]]
    /\ UNCHANGED <<links, bits, init, out, lock, pri, old>>

\* _ReadyTableDel: _List_Ring_Del ...
DelLast(c) ==
    LET t == thr[c]
    IN  /\ Step(c, "del", "empty") /\ next[t] = t
        /\ hdr' = [hdr EXCEPT ![pri[c]] = None]
        /\ next' = [next EXCEPT ![t] = None] /\ prev' = [prev EXCEPT ![t] = None]
        /\ UNCHANGED bits
DelOne(c) ==
    LET t == thr[c]
    IN  /\ Step(c, "del", "unlink") /\ next[t] # t
        /\ hdr' = [hdr EXCEPT ![pri[c]] = IF @ = t THEN next[t] ELSE @]
        /\ UNCHANGED <<next, prev, bits>>
Unlink(c) ==
    /\ Step(c, "unlink", "join") /\ next' = [next EXCEPT ![prev[thr[c]]] = next[thr[c]]]
    /\ UNCHANGED <<hdr, prev, bits>>
Join(c) ==
    LET t == thr[c]
    IN  /\ Step(c, "join", "empty")
        /\ prev' = [prev EXCEPT ![next[t]] = prev[t], ![t] = None]
        /\ next' = [next EXCEPT ![t] = None] /\ UNCHANGED <<hdr, bits>>

\* ... and _BitmapDel, if the ring is empty.  Mutant: the word's bit is cleared
\* at once.
WordEmptyNow(w) == TRUE
WordEmpty(w)    == \A p \in sub : Word(p) # w
Taken(c) == End(c) /\ out' = out \cup ({thr[c]} \ {None}) /\ UNCHANGED init
Empty(c) ==
    /\ at[c] = "empty"
    /\ IF hdr[pri[c]] = None THEN Step(c, "empty", "clrsub") ELSE Taken(c)
    /\ UNCHANGED <<links, bits>>
ClrSub(c) ==
    /\ Step(c, "clrsub", "test") /\ sub' = sub \ {pri[c]} /\ UNCHANGED <<links, map>>
Test(c) ==
    /\ at[c] = "test"
    /\ IF WordEmpty(Word(pri[c])) THEN Step(c, "test", "clrmap") ELSE Taken(c)
    /\ UNCHANGED <<links, bits>>
ClrMap(c) ==
    /\ at[c] = "clrmap" /\ map' = map \ {Word(pri[c])} /\ Taken(c) /\ UNCHANGED <<links, sub>>
-----------------------------------------------------------------------------
Next == \E c \in CPU :
    \/ \E t \in Thread : Start(c, t) \/ Back(c, t)
    \/ Fill(c) \/ Started(c)
    \/ Read(c) \/ Link(c) \/ Left(c) \/ Right(c) \/ Self(c) \/ Header(c)
    \/ One(c) \/ SetMap(c) \/ SetSub(c)
    \/ Rotate(c) \/ Seek(c) \/ DelLast(c) \/ DelOne(c) \/ Unlink(c) \/ Join(c)
    \/ Empty(c) \/ ClrSub(c) \/ Test(c) \/ ClrMap(c)
Spec == Init /\ [][Next]_vars
-----------------------------------------------------------------------------
\* A thread that is being put into its ring or taken out of it
Moving == {thr[c] : c \in {d \in CPU : at[d] \in {"left", "right", "head", "unlink", "join"}}}

\* The ring of p: the nodes from the header on, until it closes or comes to a thread that does
\* not count yet, or no more
Follow(p, n) == IF n = None \/ next[n] \in {hdr[p]} \cup Moving THEN None ELSE next[n]
Walk(p) ==
    LET f[i \in 1 .. Cardinality(Thread)] == IF i = 1 THEN hdr[p] ELSE Follow(p, f[i - 1])
    IN  f
RingOf(p) ==
    LET w == Walk(p) IN [i \in 1 .. Cardinality({j \in DOMAIN w : w[j] # None}) |-> w[i]]

\* Between operations every thread that is ready is in the ring of its priority, the
\* rings are closed both ways, and the bits say which are not empty.
Quiet == \A c \in CPU : at[c] = "idle"
Listed == Quiet =>
    /\ \A t \in Thread \ (init \cup out) : \E i \in DOMAIN RingOf(PrioOf[t]) : RingOf(PrioOf[t])[i] = t
    /\ \A t \in Thread : next[t] # None => prev[next[t]] = t
    /\ sub = {p \in Prio : hdr[p] # None}
    /\ map = {Word(p) : p \in sub}

\* A set bit of the first level leads to a priority.
Found == \A c \in CPU : at[c] # "lost"

\* With the operations taken as one, this is a ready table.
Table == INSTANCE ReadyTable WITH ring <- [p \in Prio |-> RingOf(p)]
IsReadyTable == Table!Spec
=============================================================================
