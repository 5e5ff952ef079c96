------------------------------ MODULE Partitions ------------------------------
(***************************************************************************)
(* The memory of the partitions (core/partition.c): at boot prtnInit takes     *)
(* each memory area of each configured partition from the kernel heap, at a    *)
(* given address or anywhere, and maps it into the partition's page table.     *)
(***************************************************************************)
EXTENDS Heap

CONSTANTS MemAuto,   \* MX_PRTN_MEM_AUTO: any place will do
          Configs    \* the configurations: sequences of [own, phys, size]

ASSUME PartitionsAssumption == Configs \subseteq Seq([own : Owners, phys : Addr, size : Addr])

VARIABLES config,    \* the areas that are still to be mapped
          mapped,    \* the physical memory that the page tables map
          plan       \* history: the areas that were configured
pvars == <<segments, held, config, mapped, plan>>

MappedAt(area, phys) == [own |-> area.own, lo |-> phys, hi |-> Last(phys, area.size)]

PInit == Init /\ config \in Configs /\ mapped = {} /\ plan = config

\* __prtnUserMemMap.  An area without an address: heapAlloc gives it one, or NULL.
Placed(area) ==
    MappedAt(area, IF held' = held THEN 0 ELSE (CHOOSE g \in held' : g \notin held).lo)
MapAuto ==
    /\ config # <<>> /\ Head(config).phys = MemAuto
    /\ AllocAlign(Head(config).own, Head(config).size, 1)
    /\ mapped' = mapped \cup {Placed(Head(config))}
    /\ config' = Tail(config)

\* An area with an address; what heapAllocSegment says is not looked at.
MapFixed ==
    /\ config # <<>> /\ Head(config).phys # MemAuto
    /\ AllocSegment(Head(config).own, Head(config).phys, Head(config).size)
    /\ mapped' = mapped \cup {MappedAt(Head(config), Head(config).phys)}
    /\ config' = Tail(config)

\* With no areas configured, the heap is there for other callers.
Use == config = <<>> /\ mapped = {} /\ Next /\ UNCHANGED <<config, mapped>>

PNext == (MapAuto \/ MapFixed \/ Use) /\ UNCHANGED plan
PSpec == PInit /\ [][PNext]_pvars
-----------------------------------------------------------------------------
\* A plan is sound if its areas with an address are some RAM each, apart, and come before
\* those without one.
Given(area) == MappedAt(area, area.phys)
PlanSound ==
    /\ \A i \in DOMAIN plan :
          /\ plan[i].phys # MemAuto =>
                /\ RamLo <= Given(plan[i]).lo /\ Given(plan[i]).hi <= RamHi
                /\ Given(plan[i]).lo <= Given(plan[i]).hi
          /\ \A j \in 1 .. i - 1 : plan[i].phys # MemAuto =>
                plan[j].phys # MemAuto /\ Disjunct(Given(plan[i]), Given(plan[j]))

\* Of a sound plan, no partition maps what another one maps, and so none what the heap
\* gave to another, but for an area that found no room and is mapped at NULL.
MappedIsPrivate ==
    PlanSound => \A g \in mapped : \A h \in mapped \cup held :
        g.own # h.own /\ ~Disjunct(g, h) => 0 \in {g.lo, h.lo}
=============================================================================
