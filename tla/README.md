# The matrix microkernel in TLA+

`matrix` is a small SMP microkernel in C that runs partitions (address spaces)
with their threads, called vCPUs, on up to four processors
(`src/matrix_base/l4matrix/matrix`). This directory holds TLA+ models of it,
the TLC configurations that check them, and proofs checked with TLAPS.
Paths below are relative to `src/matrix_base/l4matrix/matrix` unless they begin
with `src/`.

## 1. Inventory

| Component | State | Operations | Interacts with |
|---|---|---|---|
| SMP scheduler (`core/sched.c`, `core/sched/_CandTable.c`, `_ReadyTable.c`, `_RdyPrio.c`, `_BitmapLib.c`) | one global ready table and one per processor (bitmap + ring per priority), candidate and rotation mark of each processor, slice counters | `schedule`, `schedTick`, `schedYield`, `schedActiveCpu`, `_CandTableUpdate/TryAdd/TryDel` | called by thread operations, ticks, interrupt exit; sends scheduling IPIs |
| Kernel lock (`core/kernel.c`) | lock word and owner, kernel counter per processor, lock count per thread | enter, exit, lock hand-over during a switch | every operation below |
| Spin locks (`core/spin.c`) | lock words, lock count per thread | lock, unlock (may reschedule) | scheduler |
| Thread operations (`core/vcpu.c`) | status flags, affinity, priority | create, start, sleep, suspend, wakeup | scheduler, wakeup list, IPC |
| Wakeup list (`core/sched/_Wakeup.c`) | delta list of sleepers | add, delete, tick | thread operations, IPC timeouts |
| Inter-processor interrupts (`core/sched/_SmpIpi.c`) | pend bits and message ring per processor | send, call and wait, handler | scheduler, spinning for the kernel lock |
| Interrupts (`core/irq.c`, `core/virq/_vIrq.c`) | nesting level, table of attached vCPUs, pending/masked virtual interrupts | `irqEnter`, `irqIsr`, `irqExit`, attach, detach, deliver | scheduler, IPI |
| IPC (`core/ipc.c`) | per thread: state word, sender queue, event queue, signal counter | send, reply, receive, close, timeout | thread operations, wakeup list |
| Heap (`core/heap.c`) | table of memory segments | add, allocate, free | loader, partitions |
| Kernel objects (`core/kobj.c`) | slot table | allocate, free, check | system calls |
| Partitions, system calls, boot (`core/partition.c`, `syscall.c`, `init.c`) | partition list | start-up, decoding of calls | everything |
| Lists (`list/list.c`) | the nodes | ring and line insert, delete | ready tables, wakeup list, IPC |
| Architecture and boards (`arch/`, `src/matrix_bsp_*`) | registers, MMU, interrupt controller | context switch, try-lock, raise an interrupt | external to the models |
| User API (`src/matrix_base/l4api`) | - | system call wrappers | callers of the kernel |
| Loader, libraries, demos, guests (`l4loader`, `l4libc`, `src/matrix_app`, `src/sylixos_base`) | - | applications and vendor code | not modelled |

What is hard in this code, and the properties that make each part correct:

* **Scheduler**: two processors act on one set of tables between any two
  kernel entries of each other; a switch is decided in one place (a mark) and
  done in another (leaving the kernel or an interrupt). Correct means: a ready
  thread is in exactly one place, a thread runs on one processor, processors
  run their candidate, more urgent threads are not passed over, marks are
  acted on.
* **Kernel lock and spin locks**: the lock is handed from thread to thread
  inside a switch. Correct means: the count of a thread equals the locks held
  for it, and a holder of a spin lock keeps its processor.
* **Wakeup list**: a tick races a wakeup. Correct means: sleepers are on the
  list exactly once, and every timed sleep ends.
* **IPI**: a pend bit shared by sender and handler. Correct means: a set bit
  always has an interrupt on its way.
* **IPC**: requests, replies, timeouts, signals and close race each other.
  Correct means: each request is decided once, the reply reaches the call it
  answers, no client sleeps where nobody will wake it, the counts are right.
* **Calls between processors**: the caller spins for the answer, and so may the
  processors it calls. Correct means: a call returns when everybody has run it,
  and every call returns.
* **Virtual interrupts**: a pending word that several processors change, a mask
  that is set on one processor and taken off on another. Correct means: nothing
  pending is lost or handled twice, a service function runs only while its thread
  has interrupts on, a device is not masked for ever, everybody gets the tick.
* **Heap and partitions**: a table that may be full, addresses that wrap.
  Correct means: segments stay apart, memory is given to one partition and none
  is lost.
* **Ready table and objects**: unlocked insertion and search. Correct means: a
  ready thread is found, a creator owns what it was given.

`PROJECT.json` lists every hazard at its line.

## 2. Modules

| Module | What it is |
|---|---|
| `Rings` | the kernel's ring lists as sequences, header first (`list/list.c`) |
| `MatrixSched` | scheduler, kernel lock, one spin lock, thread operations, tick, scheduling IPI, boot |
| `Dispatcher` | what the scheduler promises, without tables, locks or interrupts |
| `MCSched` | instances of `MatrixSched` for TLC |
| `Handover` | the context switch step by step: saving, `schedSwap`, the hand-over of the kernel lock, loading, the reads and writes of the lock counts |
| `MCHandover` | instances of `Handover` for TLC |
| `WakeupList` | the delta list of sleepers with its pointers (`core/sched/_Wakeup.c`, the line list of `list/list.c`) |
| `Timers` | what the wakeup list promises: a number of ticks per sleeper |
| `MCWakeup` | instances of `WakeupList` for TLC |
| `ReadyRing` | a ready table with its ring pointers and its bit map of two levels, word by word (`list/list.c`, `core/sched/_BitmapLib.c`) |
| `ReadyTable` | what a ready table promises: rings as sequences, the form `MatrixSched` uses |
| `MatrixIpc` | one service thread and its clients (`core/ipc.c`) |
| `RequestReply` | what an IPC promises: each request decided exactly once |
| `MCIpc` | instances of `MatrixIpc` for TLC |
| `SmpIpi` | calls from one processor to others, with the kernel lock whose spinners serve them |
| `MCSmpIpi` | instances of `SmpIpi` for TLC |
| `VIrq` | virtual interrupts: attach, record, pass on, mask, handle |
| `MCVIrq` | instances of `VIrq` for TLC |
| `Heap` | the table of memory segments (`core/heap.c`) |
| `Partitions` | the memory of the partitions at boot, on top of `Heap` |
| `MCPartitions` | instances of `Partitions`, and with it of `Heap`, for TLC |
| `Kobj` | kernel objects and their ids, with `vcpuCreate` (`core/kobj.c`) |
| `Threads` | from creation to running: `Kobj` and `ReadyRing` composed |
| `MCThreads` | instances of `Threads` for TLC |
| `MatrixSchedProofs` | what rings preserve, what each table operation does to fitting tables, the inductive invariant and the safety theorems of the scheduler, the refinement of `Dispatcher`, the marks (`RotCovers`) |
| `HandoverProofs` | the invariant and the safety theorems of `Handover` |
| `WakeupProofs` | the line of sleepers is sound, and `WakeupList` implements `Timers` |
| `ThreadsProofs` | ids and objects, ownership for any number of creators; on one processor the pointers and bits of `ReadyRing` implement `ReadyTable` |
| `HeapProofs` | the segment table is sound, in `Heap` and in `Partitions`, what partitions map is private, and nothing is lost |
| `SmpIpiProofs` | calls between processors: who has run what, which messages are alive |
| `VIrqProofs` | virtual interrupts are handled once, the tick is recorded for everyone it finds on its list |
| `IpcProofs` | the safety properties of `MatrixIpc`, and that it implements `RequestReply` |

How they fit together. `MatrixSched` is the centre: its tables are the rings of
`ReadyTable`, which `ReadyRing` implements; its context switch is split by
`Handover`; its sleepers' numbers of ticks are `Timers`, which `WakeupList`
implements; it implements `Dispatcher`. `MatrixIpc` keeps of the scheduler who is
asleep and who is in the wakeup list. `SmpIpi` and `VIrq` have the other two bits
of `CPU_ulIpiPend` beside the one of `MatrixSched`. `Partitions` extends `Heap`,
`Threads` extends `Kobj` and instantiates `ReadyRing`.

### MatrixSched and the code

One step is a stretch of code of which no other processor sees the middle:
the body of an operation under the kernel lock with interrupts off, or one
unprotected access. The variables are the fields of the C structures
(`status` = `VCPU_uiStatus`, `ring` = `RDYP_pringReadyHeader` of each table and
priority, `cand` and `rot` = `MX_CAND`, `cur` = `CPU_pvcpuCur`, `counter` =
`VCPU_usSchedCounter`, `lockCnt` = `VCPU_ulLockCounter`, `ipi` = the
`MX_IPI_SCHED` bit of `CPU_ulIpiPend`), and `pc` says where each processor is:
`run` (in a thread, interrupts on), `kernel` (the body of a call is done, the
lock is held), `relock` (a thread that was switched in spins for the lock),
`ipi`, `tickirq`, `tick`, `irqexit` (in an interrupt handler).

A call is therefore two steps: the body (`Sleep`, `Suspend`, `Wakeup`, `Yield`,
`KernelSched`) takes the kernel lock and changes the tables, and `KernelExit`
runs `schedule()` and unlocks. An interrupt is `Ipi`/`TickIrq` (taken),
the handler (`SmpIpiProc`; `TickBegin`, `TickExpire`*, `TickSlice`), and
`IrqExit`. A bitmap bit is derived from its ring (`Bitmap`): `_ReadyTableAdd`
and `_ReadyTableDel` change both in one step. `VCPU_bIsCand` is derived from
`cand`. The IPI handler and `schedTick` run with interrupts off, so nesting
stays at 1.

`vcpuWakeup` is split where the system call looks the thread up
(`CallWakeup`) before the kernel is entered (`Wakeup`): the sleeper's timer and
other processors act in between. With `StrayWakeup = FALSE` callers wake only
suspended threads, one caller per thread. This is a contract of the callers that
nothing in the kernel establishes: the system call wakes any thread, and the IPC wakes
a client that is not yet asleep (finding `ipc_lost`). With `TRUE` a thread gets into its
ring twice (section 5). All that the runs and proofs of `MatrixSched` show is
therefore about callers that keep this contract.

### Dispatcher and the refinement

`Dispatcher` has four actions: a thread is released, a processor takes a first
thread, a running thread blocks, a running thread gives way. Each choice takes
a member of `Best(c)`, the most urgent threads that are ready and may run on
processor `c`. `MatrixSched` implements it under `stage <- Stage`,
`on <- cand`: a processor is given to its candidate from the moment the
candidate table is changed, also while it still runs the thread it leaves.

### Handover

`MatrixSched` takes a context switch as one step. In the code it is several:
`archVcpuCtxSwitch` saves the context, `schedSwap` sets `CPU_pvcpuCur`,
`kernelUnlockSched` releases the kernel lock and then takes down the count of
the thread it leaves, and only then the new context, with its stack, is loaded.
A thread that comes back locks the kernel again (`kernelLockIgnIrq`). `Handover`
has one action for each of these and splits every `++` and `--` of
`VCPU_ulLockCounter` into its read and its write. Tables and priorities are left
out: a processor may switch to any thread that no processor has as its current one, also
to one whose stack another processor is still on, which is what the code allows
(finding `stack`). What a processor does after it loaded a stack that is shared is not
followed beyond the lock counts.

`torn` is the history of the threads whose count two processors changed at the same
time, one of them having read it before the other wrote it (`Collides`): the decrement of
`core/kernel.c:178` by a processor that left the thread against the increments of the one
that resumed it. The properties say what is right for all other threads, also while
switches overlap, and each of the exceptions they name does happen: `torn` is not
always empty, a torn count lets a holder of a spin lock be switched away from, and a
count that has still to be taken down (`Leaving`) refuses a switch that nothing speaks
against. `MatrixSched` takes the whole switch as one step and has none of this.

### WakeupList and Timers

Each node of the wakeup list keeps the ticks it waits longer than its left
neighbour (`cnt` = `WUN_ulCounter`), so every insertion, deletion and tick has
to correct a neighbour. `header`, `next`, `prev` are the pointers. All calls run
under the kernel lock, so there is at most one in progress, kept in `job`, and
each turn of a loop is an action: `AddPass`, `AddHere`, `AddLast` (`_WakeupAdd`),
`TickBreak`, `TickExpire`, `TickSkip`, `TickEnd` (`_WakeupTick`). Threads of `Ipc`
sleep in an IPC: their expiry leaves `MX_VCPU_STATUS_DELAY` set for the receiver to
clear, and is put off when `spinTryLock` on their state fails (`TickSkip`).

`Timers` is the abstract specification: `left` ticks per sleeper, one taken from
all of them by a tick, none due when the tick ends. `WakeupList` implements it
(`KeepsTime`) with `left` the sum of the counters up to the thread (`Left`), from
which the part of a tick not yet taken is subtracted. This is the view
`MatrixSched` has of sleepers (its `left`, `TickBegin` and `TickExpire`).

### ReadyRing, ReadyTable and Threads

The bodies of `_List_Ring_Add_Ahead`, `_List_Ring_Del`, `_BitmapAdd` and
`_BitmapDel` with one action per word that is written; a `|=` or `&=` is one
action, which is coarser than the machine. `Start` is `vcpuStart`, with interrupts
off and without the kernel lock; `Back` and `Fill` are the scheduler's additions
and removals, with the lock (`lock`). On one processor operations do not
interleave, as all run with interrupts off. Writes through a null pointer hit the
entry of `None`. Whether the slice is used up (`Rotate` before `Seek` or not) is
free. `RingOf` reads the ring off the pointers: it follows `next` from the header
until it is back there or comes to a thread that is half in or half out (`Moving`).

`Threads` puts `Kobj` in front: a thread can be started only when `vcpuCreate`
has handed out its id (`Starting`), and its object is given back only before it is
started (`Fresh`; `kobjFree` has no caller in the repository, and nothing in it
would take a thread out of the ready table). Once two creators were given the same thread
(`raced`), none is started any more: the second `vcpuCreate` would reset the nodes of a thread
that may be in a ring.

### MatrixIpc and RequestReply

One service and its clients. An action is a section that the kernel lock or the
spin lock of the event queue or of a state word makes atomic, or the code between
two such sections; `loc` says where a thread is in its system call. A request goes
through the event queue (`evtq`, `hand` when it is taken off) into the ring of its
priority (`ring`, `prioCur`, `signal`) and is taken by the service (`tag`). READY
in the client's state decides between the service and the tick. Flags that others
want set or cleared in a state word wait in `rmAdd` and `rmDel` until the owner
applies them. `asleep` is the set of threads whose status is not READY, `online` the
wakeup list.

Choices: the two prechecks of a call (`core/ipc.c:747` and `828`) are one, the test
and the kernel section of `vcpuWakeup` are one, the sleep a service is put to by
`core/ipc.c:1366` is immediate. What may happen beside the IPC is chosen at the start
(`mode`, from `Circumstances`) and never changes: `expireIn`, the stages at which a
timeout may strike; `preempt`, whether others run between the two critical sections
of a sender; `smp`, whether others run during the tick's handler; `closing`, `napping`
and `strays`, whether the service closes, clients also sleep, third threads wake
clients; `calls`, the number of IPCs of a client (a bound).

`RequestReply` is the promise: a request is sent, answered, expired or refused,
once, the service serves one at a time, and the decision stands until the client
returns. `MatrixIpc` implements it (`PromiseKept`).

### SmpIpi

`_SmpIpiCall` and its handler, one action per access to the message ring, the
message or a lock, with entries to the kernel and requests to schedule in between.
The insertion into the ring is one step because its lock is held. The caller keeps its processor (it has locked
scheduling), makes one call at a time and no call from a handler; the functions it
passes are external and return. `due` is the history of who has not yet run the
function. No code in the repository uses `_SmpCallFunc*`.

### VIrq

`irqIsr` and what it calls, one action per access to a word that other processors
use; physical interrupts are off from an interrupt to its end. The board is chosen
at the start (`mode`, from `Boards`): its processors and threads, whether the `|=` and
`&=` of the pending word are torn into read and write (`torn`), whether threads are
restarted (`restarts`), how often a device interrupts (`raises`). The service functions are external and return.
`Switch` lets threads move between processors, `Restart` is `prtnRestart`.
`owed` is the history of what was recorded and not handled, `left` (bound `Raises`)
how often a device still interrupts. `due` is the history of whom the tick in progress
has yet to reach, of those it found before a free place; a restart of a listed thread
empties it, so nothing is claimed of a tick in which that happens. `gone` has who was taken
off the list and did not attach again, `twice` says that a thread attached the tick again
while it was listed behind a free place: the search of `irqAttach` stops at the first place
that is free or its own. That search is one step, although `core/irq.c:74-81` has no lock.
The vectors of one pending word stand for the
several words of the code.

### Heap and Partitions

The heap is used at boot only, without a lock: a call is one action. `segments` is
the table in its order, since searches take the first match; `held` is the history of
what callers were given. `Asks` and `Regions` are the requests of a run. Addresses wrap
at `WordMod`. The branch of `heapAdd` for a crossing segment (`MergeCross`) is never
taken by its callers. `heapFree` has no caller in the repository, and its documentation
(`core/heap.c:341`) names another result than it returns; `Free` asks that nobody frees a
part of a segment of which it holds another part.
`Partitions` runs `prtnInit`: every area of every configured partition is allocated
and mapped, whatever the heap said. `plan` is the history of what was configured.
With an empty plan other callers use the heap (`Use`).

### Kobj

A search of `kobjAlloc` is a step per place of the table (`Look`, `Find`), and taking it a
step (`Take`): creation runs without a lock and with interrupts on, so the actors
are creators (threads), not processors. `Create` is the rest of `vcpuCreate`, also when
there was no object. `held` is the history of what creators got, `raced` that of the
objects that were taken while another creator had taken them: both had found them free.
`Boards` says which creators there are, which objects are in use from the start (the idle
threads) and whether threads are started. `Free` has no caller.
An id is a class and an index in one word; `Get` and `Check` take it apart.

## 3. Runs

| Run | Properties | What it shows |
|---|---|---|
| `sleep` | `TypeOK`, `OnePlace`, `OneCpu`, `RunsCandidate`, `LockAccounting`, `IpiNotLost`, `RotCovers`, `HolderKeepsCpu`, `FairPreemption` | two processors and three unbound threads that sleep and take a spin lock, under ticks, slices and scheduling interrupts: the tables stay consistent, no thread is on two processors, no switch is lost, holders of locks keep their processor |
| `bound` | `IInv`, `Dispatches` | bound and free threads, one started late, that yield, suspend and wake each other, the call racing the suspension: the inductive invariant holds and every step is one of `Dispatcher` |
| `fair` | `RotServed`, `SleepEnds` | under fairness a marked processor does reschedule and every timed sleep ends |
| `counts` | `SwitchAllowed`, `HolderStays` | switches that overlap on two processors, each access to a lock count a step: unless a change of its count was lost, a thread is refused a switch only for a spin lock or a count that is still being taken down, and a holder keeps its processor |
| `line` | `LineOK`, `KeepsTime`, `SleepOver` | sleepers inserted, woken and expired in every order: the line is sound and holds exactly the sleepers, each has the ticks left that it asked for less those that passed, and every sleep outside an IPC ends |
| `ipc` | `NothingLeftBehind`, `MostUrgentFirst`, `SignalCounts`, `NoRequestForgotten`, `NoLostSleeper`, `OkIsAnswered`, `CloseCounts`, `PromiseKept`, `UndecidedSleeps`, `IpcEnds` | two clients and a service, in five circumstances: requests are counted, ordered, decided once, answered and ended |
| `ipi` | `AnsweredByAll`, `MessagesLive`, `CallsEnd` | processors that call each other while they enter the kernel and ask each other to schedule: a call returns when all have run it, its message is alive while it is listed, and nobody waits in a circle |
| `virq` | `HandledOnce`, `TickReaches`, `DeliveredByTick` | four boards, restarts among them: interrupts are handled once and with leave, the tick is recorded for everyone it finds before a free place of its list, there is such a place only for a thread that was taken off, and a thread with interrupts on that the tick finds keeps nothing pending |
| `heap` | `HeapSound`, `MappedIsPrivate`, `NothingLost` | every configuration of three areas of two partitions, and every sequence of allocations and frees: segments stay apart and merged, no partition of a sound plan maps another's memory, nothing is lost while there is room in the table |
| `threads` | `Own`, `Listed`, `IsReadyTable` | threads are created by one creator or by two at once, started, run and given back, one word at a time: objects that were not taken twice have one owner, the bits say which rings are not empty, the pointers implement the ready table |
| `stack` | `OneStack`, violated | the same instance: a thread is resumed on a stack that is still in use (section 4) |
| `ipc_lost` | `SleepersKnown`, violated | a service that answers between a sender's two critical sections (section 4) |

Properties that hold under certain circumstances only have them as their
precondition (in `MatrixIpc`, `VIrq`: `Orderly`, `Punctual`, `Alone`, ...), and one
run has all the circumstances: the initial state chooses. Section 5 says what happens
outside.

### Bounds

`sleep`, `bound`, `fair`: two processors, the idle threads `i0`, `i1`, three user
threads `a`, `b`, `e`, four priorities, a slice of one tick. Two processors are
enough for every two-actor race, and three user threads for two of them to run while
a third one waits. The priorities give an equal pair, a less urgent thread and
the idle level. With a slice of one tick the slice expires in every run; the code
uses 10 (`include/k_value.h:125`). Delays reach 2 in `fair`, so a sleeper outlives a
tick, and there is a delay of 0. One spin lock beside the kernel lock is enough to
make the count of a thread exceed 1. In `bound` and `fair` `b` is bound to processor
1, `e` to processor 0 and not running at first. Nothing else is bounded.

`counts`, `stack`: two processors and three threads, so that a thread can be left by one
processor and taken by the other while the first has a third one to go to. `Wrap` is 4:
a right count is at most 3 (the kernel lock on two processors, and a spin lock), so it
does not wrap.

`line`: four nodes, one of them in an IPC, delays 0 to 3: an inner node has neighbours
on both sides, in front of it, behind it and equal to it.

`ipc`: two clients of different priority, so that one can be served while the other is
queued, listed or expired; two IPCs each, so that what the first leaves behind can
harm the second (one in the circumstance in which everything may happen).
`SignalMod` 8 tells a count that went below 0 from a right one (at most 2). Clients
stop after their IPCs, hence `CHECK_DEADLOCK FALSE`.

`ipi`: two processors that call each other are the smallest circle; the third one is
not up (0 and 1 name it as a target all the same), or up and called. `Loads` bounds
calls and kernel entries to one per processor. `CHECK_DEADLOCK FALSE`: it stops then.

`virq`: a thread on one processor, restarted, its pending word torn; two threads on
one processor; the same two restarted, with ticks only, so that there is a hole in front of
a thread; a thread that moves between two processors. `Raises` 2: the device
interrupts again while its first interrupt is handled.

`heap`: eight addresses of RAM in words of 16, a table of five segments, which fills
up; sizes 0, 1, 2 and too large; regions that are free, taken, across a border; areas
of sizes 2 and 4 at two places or anywhere. `CHECK_DEADLOCK FALSE`: with a plan the
system stops when all areas are mapped.

`threads`: four threads of three priorities, two in one ring; words of the bit map have
two priorities (`Group`), so a word with one used priority is emptied while the other
is not. One creator; two for the last object of the table, with threads that are started;
two for the last two objects, with none started. One processor, for the reasons in
section 5.

Symmetry is not used: threads differ in priority and affinity, and the liveness
properties would not allow it.

### Fairness

`FairKernel` asks weak fairness for the straight-line steps (leaving the
kernel, the bodies of handlers, boot): a processor does not stop. It asks
strong fairness for taking the kernel lock after a switch, in a handler and at
interrupt exit, and for taking an interrupt. The kernel lock is a test-and-set
lock without a queue, so the code gives no bound there; strong fairness is the
assumption that a processor which keeps trying succeeds some time. Interrupts
stay pending in the hardware while the thread is in the kernel and are taken
when it comes back, which is again strong fairness. The tick is strongly fair:
the timer does not stop. Nothing is assumed of threads: no call has to happen.
`WakeupList` asks weak fairness of the turns of a loop and strong fairness of
the tick, for the same reasons.

`MatrixIpc`: threads that are not asleep run (weak fairness of their steps), ticks
occur, the service answers and receives again, as every server of the repository does;
no client has to call. `SmpIpi`: weak fairness of a processor's own steps, strong
fairness of taking a lock that is free again and again (the locks are test-and-set),
of interrupts, which stay raised, and of the return of called functions. `VIrq`: weak
fairness of the steps of a handler, strong fairness of the tick on each processor.
`DeliveredByTick` is about a thread that keeps its interrupts on and is not switched
away for ever, as its definition says.

## 4. Findings

* `stack`: `kernelUnlockSched` releases the kernel lock inside `schedSwap`
  (`core/sched.c:78`), while the processor still runs on the stack of the thread
  it leaves; another processor can take the lock, choose that thread and resume
  it on the same stack. `core/kernel.c:165` describes the function as the one for
  after the switch.
* `ipc_lost`: a sender queues its request in one critical section
  (`core/ipc.c:840-842`) and sleeps in another (`core/ipc.c:844-859`). If the service
  answers in between, its `vcpuWakeup` only adds the running client to the ready ring
  again (`core/vcpu.c:274-278`; `MatrixIpc`, which has no ready rings, takes it as no
  change). The client then sleeps without looking at READY, which the answer has set; the
  tick takes it off the wakeup list because READY is set and wakes it no more. `include/k_ipc.h:89` says READY is there to synchronise service
  and tick.

## 5. Under which conditions the properties hold

The models allow more than the runs' properties ask about. These conditions are in
the constants or in the properties; without each of them the property fails, for
the reason given.

* `MatrixSched`, `StrayWakeup = FALSE`: only suspended threads are woken, which is up to
  the callers and not kept by all of them (section 2). `vcpuWakeup`
  (`core/vcpu.c:274`) does not look whether its thread sleeps; a ready thread
  would be put into its ring a second time.
* `RotServed`: candidates of priority above 0. `__schedIpiLowCandCpu`
  (`core/sched.c:39-56`) starts its search at 0 and sends nothing when the result is 0, so
  among threads of priority 0 a processor that takes no tick does not rotate.
* `RotCovers`: no thread but the idle ones is bound, none is started late
  (`vcpuStart` marks no processor), and the idle threads are the least urgent, as
  `core/sched.c:332` creates them.
* `Handover`: `SwitchAllowed` and `HolderStays` except the threads in `torn`, since the
  decrement at `core/kernel.c:178` races the increments of the processor that resumed the
  thread, and `SwitchAllowed` while that decrement is outstanding.
* `Threads`, one processor: `vcpuStart` inserts into a ring, and sets two
  levels of the bit map, without the kernel lock (`core/vcpu.c:147`); two processors that
  do so can lose a thread or a bit.
* `Kobj`: `Own` excepts the objects in `raced`. `kobjAlloc` tests and marks an object in two
  steps (`core/kobj.c:68`), so two creators can get the same one, and do in run `threads`.
  When the table is full, `vcpuCreate` goes on with a null pointer (`core/vcpu.c:97`).
* `MatrixIpc`. The properties of the first column fail when the circumstance is added:

| Circumstance | What it breaks |
|---|---|
| timeouts of queued requests (`expireIn`) | `SignalCounts`: the counter is taken down for a request that was not counted yet |
| timeouts of an event in hand (`popped`) | `NothingLeftBehind`, `MostUrgentFirst`, `SignalCounts`: the event is entered for a client that is gone |
| timeouts of listed or taken requests | `OkIsAnswered`; with `smp` or `closing` also `NoRequestForgotten` |
| timeouts outside of `Orderly` | `NoLostSleeper`: the tick woke the service for an event that is gone, and a later request is left with nobody |
| others between a sender's sections (`preempt`) | `NoLostSleeper` (run `ipc_lost`), `NoRequestForgotten`, `CloseCounts` |
| wakeups by third threads (`strays`) | `NothingLeftBehind`, `OkIsAnswered`: the client leaves its IPC |
| a closing service (`closing`) | `NoLostSleeper`, `OkIsAnswered`: the client being served is not woken; with timeouts also `CloseCounts`, `SignalCounts`, `PromiseKept` |
| plain sleeps of clients (`napping`) | `NoLostSleeper`: READY is left from the last IPC, the flag that says a sleeper is in an IPC too |

  `UndecidedSleeps` holds in all of them. That `NoRequestForgotten` fails with timeouts and
  a closing service, `NoLostSleeper` with the timeouts of the first two lines, and
  `CloseCounts` with `preempt`, was found by proof attempts: the invariants were not
  inductive, and TLC with all circumstances at once showed the step to be reachable.
* `VIrq`. With the pending word torn on two processors an interrupt is lost; on two
  processors one that occurs while its service function runs is cleared with the first
  one, a thread can turn interrupts off between the test and the handling, and a vector
  be masked after it was handled; a thread restarted leaves a hole in the list of the
  tick, behind which nobody gets it (`TickReaches` and `DeliveredByTick` speak of the
  threads before it, and say when there is one); a thread that did not attach the tick keeps
  pending what occurred while it had interrupts off.
* `SmpIpi`: of a call that does not wait, the handler reads the message after it let the
  caller go (`core/sched/_SmpIpi.c:259`). Nothing in the repository uses `_SmpCallFunc*`.
* `Heap`, `Partitions`: a full table loses memory in silence (`core/heap.c:147`); freeing a
  part of a segment frees the segment with what else one holds of it (the guard of
  `Free` excludes it); the test for a size that wraps comes before the alignment
  (`core/heap.c:260`), so a size near the end of addresses passes (`NoWrap` excludes it in
  the proofs, and the run asks for no such size); a plan in which
  an area with an address follows one without may have the latter lie in it, and
  `__prtnUserMemMap` maps the area although the heap refused it (`core/partition.c:138`).
* `scTimeToTicks` (`core/syscall.c:48-52`): a delay of `SC_UTIME_FOREVER` gives 0 ticks, and
  the product wraps from 4294968 ticks on. The models take a number of ticks.
* `IPC_uiRmStateAdd` and `IPC_uiRmStateDel` are changed by several threads with a plain read
  and write (`core/ipc.c:119`); the models change them in one step.


## 6. Proofs

| Theorem | Statement |
|---|---|
| `MatrixSchedProofs!Inductive` | `Spec => []IInv`, the inductive invariant of the scheduler |
| `TypesOK`, `OnePlaceOK`, `OneCpuOK`, `IdleAtHandOK`, `RunsCandidateOK`, `LockAccountingOK`, `SleepersListedOK`, `IpiNotLostOK` | its safety invariants |
| `HolderOK`, `FairPreemptionOK` | the action properties `HolderKeepsCpu`, `FairPreemption` |
| `MatrixSchedProofs!DispatchesOK` | `Spec => Dispatches`, the refinement |
| `MatrixSchedProofs!RotCoversOK` | a waiting thread more urgent than a candidate has marked its processor, under `Unbound` and `NoneLate` |
| `HandoverProofs!CountsRight`, `SwitchAllowedOK`, `HolderStaysOK` | every count that no two processors changed at the same time is right, however switches overlap, and the properties of run `counts` |
| `WakeupProofs!LineSound` | the list of sleepers is sound, and agrees with who is delayed (`LineOK`) |
| `WakeupProofs!ImplementsTimers` | `Spec => KeepsTime`: `WakeupList` implements `Timers` |
| `ThreadsProofs!GetID` | the id `kobjAlloc` returns leads `kobjGet` and `kobjCheck` to the object, the invalid id to none |
| `ThreadsProofs!TypeCorrect`, `OwnOK`, `OwnThreads` | objects are those of a table; an object that was not taken twice has one owner, whatever creators do at once, and while the scheduler works with threads on any number of processors |
| `ThreadsProofs!ListedOK` | on one processor, with any number of creators, the rings hold the ready threads and the bits agree with them between operations, and a ready thread is in use |
| `ThreadsProofs!IsReadyTableOK` | on one processor `TSpec => IsReadyTable`: pointers and bits implement `ReadyTable` |
| `HeapProofs!HeapSoundOK`, `PartitionsSoundOK` | `HeapSound` in the heap alone and while `prtnInit` maps any configuration, under `NoWrap` |
| `HeapProofs!MappedIsPrivateOK` | of a sound plan no partition maps what another one maps or was given, under `NoWrap` |
| `HeapProofs!NothingLostOK`, `PartitionsLoseNothing` | `NothingLost`, in the heap alone and while `prtnInit` maps any configuration, under `NoWrap` |
| `SmpIpiProofs!AnsweredByAllOK`, `MessagesLiveOK`, `NoCallDroppedOK` | a call returns when all have run it; a processor finds only messages whose caller waits for it; while a caller waits, the processor it calls has its message |
| `VIrqProofs!HandledOnceOK`, `TickReachesOK` | the safety properties of run `virq`, restarts included |
| `IpcProofs!TypesOK`, `UndecidedSleepsOK` | types of the IPC, and nobody wakes an undecided client, in every circumstance |
| `IpcProofs!TidyOK`, `NothingLeftBehindOK`, `MostUrgentFirstOK` | each client is in exactly the structures its place in its call says; the priority noted is that of the most urgent request |
| `IpcProofs!ReckoningOK`, `SignalCountsOK`, `CloseCountsOK` | the signal count, in the middle of an operation too |
| `IpcProofs!NoRequestForgottenOK`, `NoLostSleeperOK`, `OkIsAnsweredOK` | the other safety properties of run `ipc` |
| `IpcProofs!PromiseKeptOK` | `Spec => PromiseKept`: `MatrixIpc` implements `RequestReply` |

They hold for every number of processors, threads, clients, vectors, priorities, slices,
delays, calls, and for tables and memories of every size, under the named assumptions on
the constants of the modules. Beside these, `MatrixSchedProofs` supposes `~StrayWakeup`,
`RotCoversOK` also `Unbound` and `NoneLate`, `HeapProofs`
`NoWrap`, and `ThreadsProofs` one processor for the rings
(`CPU = {k}`): section 5 says why the properties do not hold without. The properties of
`MatrixIpc`, `VIrq`, `Handover` and `Kobj` name the circumstances or the exceptions they are
about themselves, and the theorems quantify over all of them. The assumptions ask that clients are finite in number and fewer than
`SignalMod`, and processors and interrupt threads finite in number.

`MatrixSched`. `TypeOK` is not inductive: `Fill` takes the header of a ring and
must know that the ring is not empty. That holds because the idle thread of
the processor is its candidate or in its local ring (`IdleAtHand`), which needs
to know where every ready thread is (`TablesOK`) and that idle threads never
block (`FlagsOK`). `CandTableTryDel` finds the processor of the running thread
through `cpuRun`, which is right because the running thread is the candidate
unless the processor is leaving the kernel (`PhaseOK`). Whether the switch
happens depends on the lock count, so `LockAccounting` is part of the
invariant, and the expiry of sleepers needs `SleepersListed` and `DueOK`.
`IInv` is the conjunction of these; TLC checks it in `bound`.
The first part of `MatrixSchedProofs` proves what `Fill`, `CandTableUpdate`,
`CandTableTryDel`, `MakeReady` and `ScheduleAndUnlock` do to fitting tables; the second
has one lemma per action (`SleepStep`, `YieldStep`, ...), `StepOK` collects
them, and each safety invariant follows from `IInv`. `IpiNotLost` is inductive
on its own beside `TypeOK`. The refinement maps each action: the table lemmas
give that the header of `BestKey(c)` is a member of `Best(c)`.

`RotCovers` speaks of rings, but what keeps it is a fact about threads (`Cover`): who is
ready, free to run anywhere and more urgent than a candidate has marked that processor.
It is inductive beside `IInv` because a mark is only taken off when the processor takes a
most urgent thread, which the refinement has shown already (`Abs!Take` and its fellows), so
the proof goes by the actions of `Dispatcher` rather than by those of `MatrixSched`: a
release marks whom it preempts, a choice leaves nobody more urgent behind, and a thread that
blocks or gives way was no more urgent than those left waiting. If a thread that is put back
is more urgent than another processor's candidate, so was the one taken in its place, which
is therefore no idle thread, may run anywhere, and had marked that processor while it
waited: this is where the idle threads have to be the least urgent.

`Handover`. That counts are right is not inductive, since a processor writes back
what it read earlier. The invariant adds that what was read is still the count, or the
thread is in `torn` (`PhaseOK`): a write that changes what another processor has read puts the
thread there. A count is the number of processors on which the kernel lock is counted for
the thread (`Counting`), the one it runs on and all that left it and have not taken it
down, and one for the spin lock; each write of a count adds a processor to that set or takes
one out, and the set has at most all processors, so that the count does not wrap.
`SwitchAllowed` follows by counting, as nobody else counts for a thread that nobody is
leaving; `HolderStays` because a holder that is not torn is at least counted for twice at the
decision.

`WakeupList`. The model reads the line with recursive functions from the header on (`Walk`,
`Sum`), so neither `LineOK` nor `Timers` says anything of one step by itself. The invariant
says that there is a sequence of nodes without doubles that the pointers agree with (`Line`)
and a time for each that grows by its counter (`Times`); who is on it and who is delayed
(`Sleeping`); and where on it the call in progress stands: before the k-th node, or, for a
tick, behind nodes that have no ticks left and sleep in an IPC (`Adding`, `Ticking`). That
`Walk` and `Sum` give back this sequence and these times is shown by a least counterexample
(`WalkIs`, `SumIs`), which induction over data would otherwise be needed for. Then each turn
of a loop is given the sequence and the times after it: an insertion puts a node at its
place and takes its ticks from the next one, a deletion gives them back (`CutOK`), a tick that
goes on takes a counter off its own remainder. In this form one sees `left` change as
`Timers` says: it is what the times are less what the tick has yet to take.

`Kobj`. An id is a class times 65536 plus an index below 65536, taken apart by `%` and
division; `GetID` proves that nothing is lost as long as tables have fewer places. `Own` is
not inductive, since an object has a taker before its fields are set. The invariant is about
what a creator holds or has the id of (`Has`): it is in use, and no two creators have it
(`OwnInv`). A creator that takes a place either finds it still free, and then nobody has it,
or puts it into `raced`. Freeing an object that was not raced takes it from its only owner.

`Threads`. As for `WakeupList`, what the pointers describe is read off by recursion
(`RingOf`), so the invariant (`Good`) speaks of rings as sequences: everybody is new, taken,
in the hand of the processor or once in the ring of its priority (`Places`); `next` and `prev`
close every ring but for the two pointers that already or still lead to the thread that
moves (`Closed`, `NextGap`, `PrevGap`), which points to the neighbours it is to have or had
(`Moved`); all others point nowhere (`Apart`); the bits of a ring may be late while it is
being filled and stale while it is being emptied (`Bits`); and what the processor has read
is still so (`Facts`). The word's bit is the delicate one: it is taken off after the
priority's bit, and only if no other priority of the word has one, or `Fill` would find a
word that leads nowhere. `RingOfIs` shows that following the pointers gives back these
sequences. Of the writes of an insertion only that of the header changes them, and of a
removal only the first, so each is a step of `ReadyTable` or none. That a ready thread is
in use needs in addition that who is not new was handed to a creator (`Given`).

`Heap`. `HeapInv` says that every segment lies in the RAM and is not empty, that no two
overlap, that no two free ones touch, and that what is held lies in a segment of its
owner. The operators of the code are taken one by one: `Split` turns a sound and merged
table into one, in which what was owned is still owned, also when the table is too full for
a piece; a free segment that is taken out and added again is merged with at most one
neighbour on either side, so that after `MergeLow` and `MergeHigh` nothing free touches it;
`MergeCross` finds nothing. `Free` needs that what else is held lies in other segments,
which is its guard. That an aligned allocation lies in the free segment needs `NoWrap`:
unless the alignment is 1, the end of the RAM with the size and the alignment stays below
`WordMod`. The areas of a partition are not aligned, so `PartitionsSoundOK` uses it
only for other callers.

`NothingLost` is an action property: where there is room for two more segments, a step keeps
every address of the RAM in a segment, and every owner of a segment its holder (`Accounted`).
The same operators are followed once more: the pieces of `Split` cover what the segment
covered, merging covers what both did, and the segment `Free` takes out is all of what is
given back, since its owner holds it and the guard says that it holds no other part of it.

`MappedIsPrivate` is less plain than it looks, because `prtnInit` maps an area whether the
heap gave it or not. The invariant (`MInv`) says that nothing that is free is mapped, and,
while areas have addresses, that a free segment has all of an area that is apart from
what is mapped or nothing of it (`Gaps`). So an area that the heap refuses, because the
table was too full when the memory around it was cut, has nothing of a free segment, and
what is placed later cannot lie in it. `Gaps` is lost with the first area without an
address, which is why a sound plan has those last.

`SmpIpi`. `AnsweredByAll` says who has yet to run a function before and after the wait, but not
during it. The invariant adds the message: if it is listed, its caller waits for this very
processor, which has not run it yet (`ToRun`), no message is listed twice, and the one in
hand has been run and not answered (`HasRun`, `Waiting`); a target is neither the caller nor
one that follows (`Aiming`); and the count a handler works down never exceeds what is listed
(`Serving`). `NoCallDropped` is the converse, that a caller who waits is listed or in
hand.

`VIrq`. On one processor nobody else writes a word that was read, the vector in hand is
still pending and not owed any more, and interrupts are on (`Solitude`); with several,
what is handled is only known to have been cleared (`Cleared`). `Placed` says what a
processor has at each place of `irqIsr`, and that a thread runs on one. The list of the tick
has a free place before a thread only if there was a restart: a thread is added at the first
place that is free or its own. The holes and those who may fill them are counted (`ListOK`): as
long as nobody is missing there is none. While a tick is in progress, those it has yet to
reach stand at or behind the place it looks at, with no free place between, or are the one in
hand (`DueOK`), since others only fill free places behind them.

`MatrixIpc` is proved in layers, each inductive beside those before it:

* `Base`, in every circumstance: types, where a client may be while its state word says
  what (`Situated`), what the service has in hand at each place (`Located`).
* `Tidy`, if timeouts are orderly or there are none (`Tame`): a client is in the event
  queue, in hand, listed and served, at most one of these at a time, as its own place in the
  call says, and the ring of each priority has its own clients, once.
* `Reckoning`: the count is the number of clients that are `Ahead` (counted or about to be taken
  down) less those `Behind` (listed before they are counted), modulo `SignalMod`. Each
  step adds one client to a set or takes one out, so lemmas on cardinalities carry it; the
  count never wraps because there are fewer clients than `SignalMod`.
* `Remembered`, `Attended`: who is queued is either still in its kernel section, or the
  service is awake or will look again before it sleeps; who sleeps is in the
  wakeup list, or somebody who will wake it is on the way.
* `Truthful`: at each place of a call the buffer has the message of this very call, and the
  service has the message of the client it serves.
* `Promising`: nobody has set an end flag for a client before the decision. With it each
  action maps to one of `RequestReply`: queueing to `Ask`, the client's return to `Finish`, the
  timeout to `Expire`, taking a request to `Deliver` or `Take`, the reply to
  `Answer` or `GiveUp`, the steps of closing to `Refuse`, all others to a stutter.

Only model-checked, since it is out of the prover's reach: liveness under fairness, which is
`RotServed`, `SleepEnds`, `SleepOver`, `IpcEnds`, `CallsEnd` and `DeliveredByTick`.

## 7. Not modelled

* In `MatrixSched` the context switch is one step; `Handover` splits it, without
  tables and priorities. Equal threads taking turns is checked step by step
  (`FairPreemption`, `Dispatches`), not as liveness.
* A service that is itself a client of another one, `ipcKernSend`, a close outside of a
  request.
* `vcpuSaveStatus`, `vcpuRestoreStatus`, the threads' own `irqEnable` and `irqDisable`.
* `kernelEnter`/`kernelExit`, used by the debug dump only; nesting of interrupts, which
  this configuration does not have.
* The copy of a partition's image, and `prtnRestart` beyond what it does to attached
  interrupts: restarting the thread is commented out in the code.
* The conversion of times, `scTimeToTicks`.
* Page tables, caches, assembly, device access; the loader, `l4libc`, demos.
* `src/matrix_app/l4sylixos`, `src/matrix_bsp_imx6` and `src/sylixos_base`: a guest and
  board support, of which by far most lines are register definitions of the
  processor's vendor. They have no state of their own that the kernel would depend on, so
  the models cover little of the repository as counted in lines, and most of the kernel's
  `core/`.

## 8. Plan

Done: all modules of section 2, every run, and proofs of every safety property, action
property and refinement the passing runs check.

Left: theorems that join modules, such as that a call of `SmpIpi` and a request of
`MatrixIpc` still hold their promises when the scheduler between them is `MatrixSched`.
