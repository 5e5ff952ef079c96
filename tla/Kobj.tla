--------------------------------- MODULE Kobj ---------------------------------
(***************************************************************************)
(* Kernel objects (core/kobj.c): threads and partitions in tables of fixed      *)
(* size, and the ids by which system calls name them.  Objects are created by    *)
(* vcpuCreate and at boot, without the kernel lock and with interrupts on, so     *)
(* that two creators may be at it at once.  kobjFree has no caller in the         *)
(* repository; it is modelled as what an object's creator may call.               *)
(***************************************************************************)
EXTENDS Integers, FiniteSets

CONSTANTS Creator,
          MaxOf,      \* MX_CFG_MAX_VCPUS for _KOBJ_VCPU, MX_CFG_MAX_PRTNS for _KOBJ_PRTN
          Null,       \* no object
          Boards      \* the circumstances a behaviour may have

Class == DOMAIN MaxOf
Half  == 256 * 256   \* an index has 16 bits
ASSUME KobjAssumption ==
    /\ Class \subseteq 1 .. 255 /\ \A k \in Class : MaxOf[k] \in 1 .. Half
    /\ Null \notin Class /\ Null \notin Class \X Nat
-----------------------------------------------------------------------------
Object == UNION {{k} \X (0 .. MaxOf[k] - 1) : k \in Class}
Board ==
    [ crew : SUBSET Creator,    \* who is at it
      taken : SUBSET Object,    \* the objects in use from the start: the idle threads
      starts : BOOLEAN ]        \* threads are started (Threads)
ASSUME BoardsAssumption == Boards \subseteq Board
INVALID == 0
ID(o)   == o[1] * Half + o[2]

\* __kobjGetClass, __kobjGetIndex
ClassOf(id) == (id \div Half) % 256
IndexOf(id) == id % Half

\* kobjGet: the object of an id that has a class and an index in its table
Get(id) == IF ClassOf(id) \in Class /\ IndexOf(id) < MaxOf[ClassOf(id)]
             THEN <<ClassOf(id), IndexOf(id)>> ELSE Null
\* kobjCheck
Check(id, k) == ClassOf(id) = k /\ k \in Class /\ IndexOf(id) < MaxOf[k]
-----------------------------------------------------------------------------
VARIABLES
    mode,     \* the circumstances, chosen once
    used,     \* VCPU_bIsUsed, PRTN_bIsUsed: the objects in use
    owner,    \* the fields that vcpuCreate sets: whose they are
    at,       \* where a creator is
    cls, idx, \* ucClass and i: the place it looks at
    id,       \* the id it gets
    held,     \* what creators were given (not in the code)
    raced     \* the objects that one creator took after another one had
              \* taken them, both having found them free (not in the code)
vars == <<mode, used, owner, at, cls, idx, id, held, raced>>

TypeOK ==
    /\ mode \in Boards /\ used \subseteq Object
    /\ owner \in [Object \cup {Null} -> Creator \cup {Null}]
    /\ at \in [Creator -> {"idle", "look", "take", "fill"}]
    /\ cls \in [Creator -> Class \cup {Null}] /\ idx \in [Creator -> 0 .. Half]
    /\ id \in [Creator -> {INVALID} \cup {ID(o) : o \in Object}]
    /\ held \in [Creator -> SUBSET (Object \cup {Null})] /\ raced \subseteq Object

Init ==
    /\ mode \in Boards /\ used = mode.taken
    /\ owner = [o \in Object \cup {Null} |-> Null]
    /\ at = [c \in Creator |-> "idle"] /\ cls = [c \in Creator |-> Null]
    /\ idx = [c \in Creator |-> 0] /\ id = [c \in Creator |-> INVALID]
    /\ held = [c \in Creator |-> {}] /\ raced = {}

Go(c, from, to) == at[c] = from /\ at' = [at EXCEPT ![c] = to]

\* kobjAlloc: the first object that is not in use ...
Alloc(c, k) ==
    /\ Go(c, "idle", "look") /\ cls' = [cls EXCEPT ![c] = k] /\ idx' = [idx EXCEPT ![c] = 0]
    /\ UNCHANGED <<used, owner, id, held, raced, mode>>
End(c) == idx[c] >= MaxOf[cls[c]]
Place(c) == <<cls[c], idx[c]>>
Look(c) ==
    /\ at[c] = "look" /\ ~End(c) /\ Place(c) \in used /\ idx' = [idx EXCEPT ![c] = @ + 1]
    /\ UNCHANGED <<used, owner, at, cls, id, held, raced, mode>>
Find(c) ==
    /\ Go(c, "look", "take") /\ ~End(c) /\ Place(c) \notin used
    /\ UNCHANGED <<used, owner, cls, idx, id, held, raced, mode>>
Fail(c) ==
    /\ Go(c, "look", "fill") /\ End(c) /\ id' = [id EXCEPT ![c] = INVALID]
    /\ UNCHANGED <<used, owner, cls, idx, held, raced, mode>>
\* ... which it takes.  Mutant: it does not mark it.
NowUsedNot(c) == used
NowUsed(c)    == used \cup {Place(c)}
Take(c) ==
    /\ Go(c, "take", "fill") /\ used' = NowUsed(c) /\ id' = [id EXCEPT ![c] = ID(Place(c))]
    /\ raced' = raced \cup ({Place(c)} \cap used)
    /\ UNCHANGED <<owner, cls, idx, held, mode>>

\* vcpuCreate sets the fields of what kobjGet has for the id.
Create(c) ==
    LET o == Get(id[c])
    IN  /\ Go(c, "fill", "idle")
        /\ owner' = [owner EXCEPT ![o] = c] /\ held' = [held EXCEPT ![c] = @ \cup {o}]
        /\ id' = [id EXCEPT ![c] = INVALID] /\ cls' = [cls EXCEPT ![c] = Null]
        /\ idx' = [idx EXCEPT ![c] = 0] /\ UNCHANGED <<used, raced, mode>>

\* kobjFree
Free(c, o) ==
    /\ at[c] = "idle" /\ o \in held[c] \ {Null}
    /\ used' = used \ {Get(ID(o))} /\ held' = [held EXCEPT ![c] = @ \ {o}]
    /\ UNCHANGED <<owner, at, cls, idx, id, raced, mode>>

Next == \E c \in mode.crew :
    \/ \E k \in Class : Alloc(c, k)
    \/ Look(c) \/ Find(c) \/ Fail(c) \/ Take(c) \/ Create(c)
    \/ \E o \in held[c] : Free(c, o)
Spec == Init /\ [][Next]_vars
-----------------------------------------------------------------------------
\* An object that no creator took under the hands of another one (kobj.c:78-79) has one
\* owner as long as it is held, through frees and new allocations, and its fields are
\* those its owner set.
Own ==
    \A c \in Creator : \A o \in held[c] \ (raced \cup {Null}) :
        o \in used /\ owner[o] = c /\ \A d \in Creator \ {c} : o \notin held[d]
=============================================================================
