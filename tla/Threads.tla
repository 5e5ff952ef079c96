------------------------------- MODULE Threads --------------------------------
(***************************************************************************)
(* From creation to running: vcpuCreate takes a thread object (Kobj), vcpuStart *)
(* puts the thread into the ready table (ReadyRing), where the scheduler takes   *)
(* it from.  vcpuCreate and vcpuStart hold no lock that the other would take.    *)
(***************************************************************************)
EXTENDS Kobj

CONSTANTS CPU,
          VCPUs,      \* the class of threads, _KOBJ_VCPU
          PrioOf,     \* VCPU_uiPriority of each thread
          Group       \* the priorities of one word of the bit map: 32

Thread == {o \in Object : o[1] = VCPUs}
ASSUME ThreadsAssumption ==
    /\ VCPUs \in Class /\ Null \notin CPU \cup Nat /\ Group \in Nat \ {0}
    /\ \A t \in Thread : PrioOf[t] \in Nat

VARIABLES hdr, next, prev, map, sub, init, out, lock, rat, thr, pri, old
ready == <<hdr, next, prev, map, sub, init, out, lock, rat, thr, pri, old>>

Ring == INSTANCE ReadyRing WITH None <- Null, at <- rat

TInit == Init /\ Ring!Init

\* A thread is started by the partition whose it is, after vcpuCreate gave it the id.
Created == UNION {held[c] : c \in Creator}
Starting == {thr'[c] : c \in {d \in CPU : rat[d] = "idle" /\ rat'[d] = "init"}}
RingStep ==
    /\ mode.starts /\ raced \cap Thread = {}
    /\ Ring!Next /\ Starting \subseteq Created /\ UNCHANGED vars

\* A thread that is started or about to be is not given back.
Fresh == {t \in init : \A c \in CPU : thr[c] # t}
Freeing == used \ used'
ObjStep == Next /\ (Freeing \cap Thread) \subseteq Fresh /\ UNCHANGED ready

TNext == RingStep \/ ObjStep
TSpec == TInit /\ [][TNext]_<<vars, ready>>
-----------------------------------------------------------------------------
\* Between operations the rings hold the threads that are ready and the bit map agrees
\* with them, a bit leads to a priority, and who is ready was created and is in use.
Listed ==
    /\ TypeOK /\ Ring!TypeOK /\ Ring!Found /\ Ring!Listed
    /\ \A t \in Thread \ (init \cup raced) : t \in used /\ \E c \in Creator : owner[t] = c /\ t \in held[c]

\* The pointers and bits implement the ready table of which MatrixSched is made.
IsReadyTable == Ring!IsReadyTable
=============================================================================
