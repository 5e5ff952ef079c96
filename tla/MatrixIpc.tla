------------------------------ MODULE MatrixIpc ------------------------------
(***************************************************************************)
(* Messages between threads (core/ipc.c): clients send requests to one       *)
(* service thread, with a timeout or without, and the service receives,      *)
(* replies and closes.  A request goes through the event queue and the       *)
(* priority list of the service; the flag READY of the client decides        *)
(* between the service and the tick who wakes it.                            *)
(*                                                                         *)
(* One action is one section that the kernel lock or a spin lock makes       *)
(* atomic, or the code between two of them.  A thread that is not asleep may *)
(* always step: which processor runs it is MatrixSched's subject.            *)
(***************************************************************************)
EXTENDS Integers, FiniteSetsExt, Rings

CONSTANTS
    Clients,     \* the threads that send
    Server,      \* the thread that serves
    None,        \* no thread
    Priority,    \* VCPU_uiPriority of each client
    PrioMax,     \* MX_CFG_IPC_PRIO_MAX
    SignalMod,   \* 2^32: the width of IPL_uiSignal
    Ops,         \* "send", "call": what the clients do
    Circumstances  \* the circumstances a behaviour may have

Threads == Clients \cup {Server}
Prios   == 0 .. PrioMax - 1
Stages  == {"queued", "popped", "listed", "taken"}
Circumstance ==
    [ expireIn : SUBSET Stages,  \* where a request may be when its timeout strikes
      preempt  : BOOLEAN,        \* others run between a sender's two critical sections
      smp      : BOOLEAN,        \* others run while the tick handler runs
      closing  : BOOLEAN,        \* the service closes
      napping  : BOOLEAN,        \* clients also call vcpuSleep
      strays   : BOOLEAN,        \* other threads call vcpuWakeup on a client
      calls    : Nat ]           \* bound: IPCs of one client

ASSUME ConstAssumption ==
    /\ IsFiniteSet(Clients) /\ Server \notin Clients /\ None \notin Threads
    /\ PrioMax \in Nat \ {0} /\ Priority \in [Clients -> Prios]
    /\ SignalMod \in Nat /\ SignalMod > Cardinality(Clients)
    /\ Ops \subseteq {"send", "call"} /\ Circumstances \subseteq Circumstance

VARIABLES
    mode,      \* the circumstances, chosen once
    word,      \* IPC_uiState of each thread, as a set of flags
    rmAdd,     \* IPC_uiRmStateAdd: flags others ask a thread to set
    rmDel,     \* IPC_uiRmStateDel: flags others ask a thread to clear
    tag,       \* IPC_pipcTag, None if NULL
    evtq,      \* the event queue of the service
    ring,      \* IPL_pringHead: the request list of each priority
    prioCur,   \* IPL_uiPrioCur
    signal,    \* IPL_uiSignal
    loc,       \* where each thread is in its system call
    hand,      \* the event the service took off its queue
    ticking,   \* the client whose timeout the tick is handling, or None
    asleep,    \* the threads whose status is not READY
    online,    \* the threads in the wakeup list
    msg,       \* the message buffer of each thread: <<client, call, kind>>
    calls,     \* IPCs each client started
    result     \* the result byte of the last IPC, "OK" being 0
ipcVars   == <<word, rmAdd, rmDel, tag>>
queueVars == <<evtq, ring, prioCur, signal>>
schedVars == <<asleep, online>>
userVars  == <<msg, calls, result>>
vars      == <<ipcVars, queueVars, schedVars, userVars, loc, hand, ticking, mode>>
-----------------------------------------------------------------------------
EsMask   == {"ES_TIMEOUT", "ES_ERROR"}
EvtsMask == {"REQUEST", "TIMEOUT"}
SMask    == {"SEND", "RECV", "SEND_WT", "RECV_WT", "SEND_FI", "RECV_FI"}
TsMask   == {"READY", "IN_IPC", "SER", "SER_PEND"}
Flags    == EsMask \cup EvtsMask \cup SMask \cup TsMask

ClientLocs == {"idle", "queue", "kernel", "wait", "nap"}
ServerLocs == {"user", "drain", "event", "check", "pended", "pick", "in", "took",
               "serve", "answer", "shut", "sweep", "resweep"}
Msgs == (Clients \cup {None}) \X Nat \X {"send", "call", "reply"}

TypeOK ==
    /\ mode \in Circumstances
    /\ word \in [Threads -> SUBSET Flags]
    /\ rmAdd \in [Clients -> SUBSET Flags] /\ rmDel \in [Clients -> SUBSET Flags]
    /\ tag \in [Threads -> Threads \cup {None}]
    /\ evtq \in Seq(Clients) /\ ring \in [Prios -> Seq(Clients)]
    /\ prioCur \in Prios /\ signal \in 0 .. SignalMod - 1
    /\ loc \in [Threads -> ClientLocs \cup ServerLocs]
    /\ hand \in Clients \cup {None} /\ ticking \in Clients \cup {None}
    /\ asleep \subseteq Threads /\ online \subseteq Threads
    /\ msg \in [Threads -> Msgs] /\ calls \in [Clients -> 0 .. mode.calls]
    /\ result \in [Threads -> {"OK", "NOT_SER", "STATE", "SER_SIGNAL"}]

Queued == Members(evtq)
Listed == UNION {Members(ring[p]) : p \in Prios}
Has(t, f) == f \in word[t]
KernelFree == ticking = None
At(t, l) == loc[t] = l /\ t \notin asleep
Goto(t, l) == loc' = [loc EXCEPT ![t] = l]

\* __ipcReadySet
Ready(c) == [word EXCEPT ![c] = @ \cup {"READY"}]

\* __ipcRmStateChange on the remote words of c
RmStateChange(c, del, add) ==
    /\ rmDel' = [rmDel EXCEPT ![c] = @ \cup del]
    /\ rmAdd' = [rmAdd EXCEPT ![c] = (@ \ del) \cup add]

\* vcpuWakeup: refused for a thread in an IPC that is not decided; otherwise
\* the thread leaves the wakeup list and runs.  Mutants: the status stays; nobody is
\* refused.
WakeupHalf(t) == UNCHANGED asleep /\ online' = online \ {t}
WakeupAll(t)  == KernelFree /\ asleep' = asleep \ {t} /\ online' = online \ {t}
Wakeup(t) ==
    IF "IN_IPC" \in word'[t] /\ "READY" \notin word'[t]
    THEN UNCHANGED schedVars
    ELSE /\ KernelFree
         /\ asleep' = asleep \ {t}
         /\ online' = online \ {t}

\* __ipcPlistPrioFlush: the priority to look at when cur was the last one.  Mutant:
\* the priority of an empty list is not reset.
PrioFlushStays(r, cur) ==
    LET used == {p \in Prios : r[p] # <<>>}
    IN  IF used = {} \/ cur \in used THEN cur ELSE Min(used)
PrioFlush(r, cur) ==
    LET used  == {p \in Prios : r[p] # <<>>}
        below == {p \in used : p > cur}
    IN  IF cur \in used THEN cur
        ELSE IF below # {} THEN Min(below)
        ELSE IF used # {} THEN Min(used) ELSE PrioMax - 1

SignalAdd(n) == signal' = (signal + n + SignalMod) % SignalMod
-----------------------------------------------------------------------------
\* MXI_ipcSend, MXI_ipcCall: ipcDoSyscall and __ipcSendPro up to the event queue.
Send(c, op) ==
    /\ At(c, "idle") /\ calls[c] < mode.calls
    /\ calls' = [calls EXCEPT ![c] = @ + 1]
    /\ msg'   = [msg EXCEPT ![c] = <<c, calls[c] + 1, op>>]
    /\ IF Has(Server, "SER")
       THEN /\ word' = [word EXCEPT ![c] = (@ \ {"READY"}) \cup {"SEND_WT"}
                                           \cup (IF op = "call" THEN {"RECV"} ELSE {})]
            /\ tag'    = [tag EXCEPT ![c] = Server]
            /\ result' = [result EXCEPT ![c] = "OK"]
            /\ Goto(c, "queue")
       ELSE /\ word'   = Ready(c)
            /\ result' = [result EXCEPT ![c] = "NOT_SER"]
            /\ UNCHANGED <<tag, loc>>
    /\ UNCHANGED <<rmAdd, rmDel, queueVars, schedVars, hand, ticking, mode>>

\* __ipcEvtqInsert: c is linked once, whatever the events are.  Mutant: the test of
\* the link is the wrong way round.
JoinedIfIn(c) == IF c \in Queued THEN Append(evtq, c) ELSE evtq
Joined(c)     == IF c \in Queued THEN evtq ELSE Append(evtq, c)
EvtqInsert(c, e) ==
    /\ evtq' = Joined(c)
    /\ word' = [word EXCEPT ![c] = @ \cup {e}]

\* The request joins the event queue, under the lock of the queue.
Queue(c) ==
    /\ At(c, "queue")
    /\ EvtqInsert(c, "REQUEST")
    /\ Goto(c, "kernel")
    /\ UNCHANGED <<rmAdd, rmDel, tag, ring, prioCur, signal, schedVars, userVars, hand, ticking, mode>>

\* Mutant: the service is not woken.
WokenNone == {}
Woken     == IF Has(Server, "SER_PEND") THEN {Server} ELSE {}

\* The request is counted, a pending service is woken, the sender sleeps.
Kernel(c) ==
    /\ At(c, "kernel") /\ KernelFree
    /\ SignalAdd(1)
    /\ word' = [word EXCEPT ![Server] = @ \ {"SER_PEND"}, ![c] = @ \cup {"IN_IPC"}]
    /\ asleep' = (asleep \ Woken) \cup {c}
    /\ online' = online \cup {c}
    /\ Goto(c, "wait")
    /\ UNCHANGED <<rmAdd, rmDel, tag, evtq, ring, prioCur, userVars, hand, ticking, mode>>

\* __ipcSendWaitHandle to the end of the call: the remote changes are applied and
\* the outcome is looked up.
Finish(c) ==
    /\ At(c, "wait") /\ Has(c, "READY")
    /\ LET w  == (word[c] \ rmDel[c]) \cup rmAdd[c]
           es == w \cap EsMask
       IN  /\ word' = [word EXCEPT ![c] = w \cap TsMask]
           /\ IF es = {} /\ w \cap SMask \notin {{"SEND_FI"}, {"RECV_FI"}}
              THEN result' = [result EXCEPT ![c] = "STATE"]
              ELSE UNCHANGED result
    /\ rmAdd' = [rmAdd EXCEPT ![c] = {}]
    /\ rmDel' = [rmDel EXCEPT ![c] = {}]
    /\ tag'   = [tag EXCEPT ![c] = None]
    /\ Goto(c, "idle")
    /\ UNCHANGED <<queueVars, schedVars, msg, calls, hand, ticking, mode>>

\* vcpuSleep by a client between its IPCs, and its end.
Nap(c) ==
    /\ mode.napping /\ At(c, "idle") /\ KernelFree
    /\ asleep' = asleep \cup {c} /\ online' = online \cup {c}
    /\ Goto(c, "nap")
    /\ UNCHANGED <<ipcVars, queueVars, userVars, hand, ticking, mode>>
NapOver(c) ==
    /\ At(c, "nap") /\ Goto(c, "idle")
    /\ UNCHANGED <<ipcVars, queueVars, schedVars, userVars, hand, ticking, mode>>

\* vcpuWakeup of a waiting client by a third thread (__scVcpuWakeup).
Stray(c) ==
    /\ mode.strays /\ c \in asleep
    /\ UNCHANGED word /\ Wakeup(c)
    /\ UNCHANGED <<rmAdd, rmDel, tag, queueVars, userVars, loc, hand, ticking, mode>>
-----------------------------------------------------------------------------
Stage(c) ==
    IF c \in Queued      THEN "queued"
    ELSE IF c = hand     THEN "popped"
    ELSE IF c \in Listed THEN "listed" ELSE "taken"

\* _WakeupTick on a sleeper whose time is up: a plain sleeper is woken; in an IPC
\* that is decided it only leaves the list; otherwise the tick decides it and
\* queues the timeout for the service (ipcTickTimeoutPro).
TickPlain(t) ==
    /\ t \in online /\ KernelFree /\ ~Has(t, "IN_IPC")
    /\ online' = online \ {t} /\ asleep' = asleep \ {t}
    /\ UNCHANGED <<ipcVars, queueVars, userVars, loc, hand, ticking, mode>>
TickDecided(c) ==
    /\ c \in online /\ KernelFree /\ Has(c, "IN_IPC") /\ Has(c, "READY")
    /\ online' = online \ {c}
    /\ UNCHANGED <<ipcVars, queueVars, userVars, loc, hand, ticking, asleep, mode>>
TickExpire(c) ==
    /\ c \in online /\ KernelFree /\ Has(c, "IN_IPC") /\ ~Has(c, "READY")
    /\ Stage(c) \in mode.expireIn
    /\ online' = online \ {c}
    /\ RmStateChange(c, {}, {"ES_TIMEOUT"})
    /\ IF mode.smp
       THEN ticking' = c /\ word' = Ready(c) /\ UNCHANGED evtq
       ELSE /\ word' = [word EXCEPT ![c] = @ \cup {"READY", "TIMEOUT"}]
            /\ evtq' = Joined(c)
            /\ UNCHANGED ticking
    /\ UNCHANGED <<tag, ring, prioCur, signal, userVars, loc, hand, asleep, mode>>
TickEvent ==
    /\ ticking # None
    /\ EvtqInsert(ticking, "TIMEOUT")
    /\ ticking' = None
    /\ UNCHANGED <<rmAdd, rmDel, tag, ring, prioCur, signal, schedVars, userVars, loc, hand, mode>>
-----------------------------------------------------------------------------
\* MXI_ipcOpenWait: the service opens and starts to receive.
Recv ==
    /\ At(Server, "user")
    /\ word' = [word EXCEPT ![Server] = @ \cup {"SER"}]
    /\ Goto(Server, "drain")
    /\ UNCHANGED <<rmAdd, rmDel, tag, queueVars, schedVars, userVars, hand, ticking, mode>>

\* __ipcRecvWaitHandle takes one event off its queue, or goes on without.
Drain ==
    /\ At(Server, "drain")
    /\ IF evtq = <<>>
       THEN Goto(Server, "check") /\ UNCHANGED <<evtq, hand>>
       ELSE Goto(Server, "event") /\ hand' = Head(evtq) /\ evtq' = Tail(evtq)
    /\ UNCHANGED <<ipcVars, ring, prioCur, signal, schedVars, userVars, ticking, mode>>

PlistInsert(c) ==
    LET p == Priority[c]
    IN  /\ ring' = [ring EXCEPT ![p] = Append(@, c)]
        /\ prioCur' = IF p < prioCur THEN p ELSE prioCur
\* Mutant: the node is left in its ring.
PlistRemoveNot(c) == UNCHANGED <<ring, prioCur>>
PlistRemove(c) ==
    /\ ring' = [ring EXCEPT ![Priority[c]] = Without(@, c)]
    /\ prioCur' = PrioFlush(ring', prioCur)

\* __ipcRecvEventPro: a request is listed; a timed out one is unlisted and woken.
Event ==
    /\ At(Server, "event") /\ UNCHANGED word
    /\ LET evts == word[hand] \cap EvtsMask
       IN  \/ /\ evts = {"REQUEST"}
              /\ PlistInsert(hand)
              /\ RmStateChange(hand, EvtsMask, {})
              /\ UNCHANGED <<signal, schedVars>>
           \/ /\ "TIMEOUT" \in evts
              /\ IF hand \in Listed THEN PlistRemove(hand) /\ SignalAdd(-1)
                                    ELSE UNCHANGED <<ring, prioCur, signal>>
              /\ RmStateChange(hand, EvtsMask, {})
              /\ Wakeup(hand)
           \/ evts = {} /\ UNCHANGED <<ring, prioCur, signal, rmAdd, rmDel, schedVars>>
    /\ hand' = None
    /\ Goto(Server, "drain")
    /\ UNCHANGED <<tag, evtq, userVars, ticking, mode>>

\* With no request counted the service pends, else it picks one.
Check ==
    /\ At(Server, "check") /\ KernelFree
    /\ IF signal = 0
       THEN /\ word'   = [word EXCEPT ![Server] = (@ \cup {"SER_PEND"}) \ {"IN_IPC"}]
            /\ asleep' = asleep \cup {Server}
            /\ Goto(Server, "pended")
       ELSE Goto(Server, "pick") /\ UNCHANGED <<word, asleep>>
    /\ UNCHANGED <<rmAdd, rmDel, tag, queueVars, online, userVars, hand, ticking, mode>>
Resume ==
    /\ At(Server, "pended") /\ Goto(Server, "drain")
    /\ UNCHANGED <<ipcVars, queueVars, schedVars, userVars, hand, ticking, mode>>

\* __ipcPlistNext: c is the first of the most urgent ring; and __ipcRecvNextPro,
\* which also counts.  Mutant: it does not.
PlistNext(c) ==
    /\ ring[prioCur] # <<>> /\ c = Head(ring[prioCur])
    /\ ring' = [ring EXCEPT ![prioCur] = Tail(@)]
    /\ prioCur' = PrioFlush(ring', prioCur)
RecvNextFree(c) == PlistNext(c) /\ UNCHANGED signal
RecvNext(c)     == PlistNext(c) /\ SignalAdd(-1)
Pick(c) ==
    /\ At(Server, "pick") /\ RecvNext(c)
    /\ tag' = [tag EXCEPT ![Server] = c]
    /\ Goto(Server, "in")
    /\ UNCHANGED <<word, rmAdd, rmDel, evtq, schedVars, userVars, hand, ticking, mode>>
PickNone ==
    /\ At(Server, "pick") /\ ring[prioCur] = <<>> /\ Goto(Server, "drain")
    /\ UNCHANGED <<ipcVars, queueVars, schedVars, userVars, hand, ticking, mode>>

Copied(c) == [msg EXCEPT ![Server] = msg[c]]
\* Mutant: a decided request is taken.
InTimeAny(c) == TRUE
InTime(c)    == ~Has(c, "READY")

\* __ipcRecvPro and __ipcRecvInHandle on the target, under its state lock: it may
\* have timed out; a call is received whole; a send becomes ready first.
InTimeout(c) ==
    /\ At(Server, "in") /\ tag[Server] = c /\ Has(c, "READY")
    /\ tag' = [tag EXCEPT ![Server] = None]
    /\ Goto(Server, "user")
    /\ UNCHANGED <<word, rmAdd, rmDel, queueVars, schedVars, userVars, hand, ticking, mode>>
InSend(c) ==
    /\ At(Server, "in") /\ tag[Server] = c /\ InTime(c) /\ ~Has(c, "RECV")
    /\ word' = Ready(c)
    /\ Goto(Server, "took")
    /\ UNCHANGED <<rmAdd, rmDel, tag, queueVars, schedVars, userVars, hand, ticking, mode>>
InCall(c) ==
    /\ At(Server, "in") /\ tag[Server] = c /\ InTime(c) /\ Has(c, "RECV")
    /\ msg' = Copied(c)
    /\ RmStateChange(c, {"SEND_WT", "RECV"}, {"RECV_WT"})
    /\ Goto(Server, "serve")
    /\ UNCHANGED <<word, tag, queueVars, schedVars, calls, result, hand, ticking, mode>>

\* The message of a send is copied and its sender woken; the receive is over.
Took(c) ==
    /\ At(Server, "took") /\ tag[Server] = c
    /\ msg' = Copied(c)
    /\ RmStateChange(c, {"SEND_WT"}, {"SEND_FI"})
    /\ UNCHANGED word /\ Wakeup(c)
    /\ tag' = [tag EXCEPT ![Server] = None]
    /\ Goto(Server, "user")
    /\ UNCHANGED <<queueVars, calls, result, hand, ticking, mode>>

\* The service decides for c, which sleeps on.
Settle(c) == word' = Ready(c) /\ UNCHANGED schedVars

\* MXI_ipcReplyWait: __ipcSendReplyPro decides whether the client still waits ...
Reply(c) ==
    /\ At(Server, "serve") /\ tag[Server] = c
    /\ IF Has(c, "READY")
       THEN /\ tag' = [tag EXCEPT ![Server] = None]
            /\ Goto(Server, "drain") /\ UNCHANGED <<word, schedVars>>
       ELSE Settle(c) /\ Goto(Server, "answer") /\ UNCHANGED tag
    /\ UNCHANGED <<rmAdd, rmDel, queueVars, userVars, hand, ticking, mode>>
\* Mutant: the reply is not copied.
ReplyMsgOld(c) == msg[c]
ReplyMsg(c)    == <<msg[Server][1], msg[Server][2], "reply">>
\* ... then copies the reply and wakes it, and the service receives again.
Answer(c) ==
    /\ At(Server, "answer") /\ tag[Server] = c
    /\ IF tag[c] = Server /\ word[c] \cap SMask = {"SEND_WT", "RECV"}
       THEN /\ msg' = [msg EXCEPT ![c] = ReplyMsg(c)]
            /\ RmStateChange(c, {"RECV_WT"}, {"RECV_FI"})
       ELSE RmStateChange(c, {}, {"ES_ERROR"}) /\ UNCHANGED msg
    /\ UNCHANGED word /\ Wakeup(c)
    /\ tag' = [tag EXCEPT ![Server] = None]
    /\ Goto(Server, "drain")
    /\ UNCHANGED <<queueVars, calls, result, hand, ticking, mode>>
-----------------------------------------------------------------------------
\* MXI_ipcClose while a request is served: no more requests, and the served
\* client is out of reach of the tick.
Close(c) ==
    /\ mode.closing /\ At(Server, "serve") /\ tag[Server] = c
    /\ word' = [word EXCEPT ![Server] = @ \ {"SER"}, ![c] = @ \cup {"READY"}]
    /\ tag'  = [tag EXCEPT ![Server] = IF Has(c, "READY") THEN None ELSE c]
    /\ Goto(Server, "shut")
    /\ UNCHANGED <<rmAdd, rmDel, queueVars, schedVars, userVars, hand, ticking, mode>>

\* The listed requests end with an error ...
ShutNext(c) ==
    /\ At(Server, "shut") /\ RecvNext(c)
    /\ IF Has(c, "READY")
       THEN UNCHANGED <<word, rmAdd, rmDel, schedVars>>
       ELSE /\ word' = Ready(c)
            /\ RmStateChange(c, {}, {"ES_ERROR"})
            /\ Wakeup(c)
    /\ UNCHANGED <<tag, evtq, userVars, loc, hand, ticking, mode>>
ShutEnd ==
    /\ At(Server, "shut") /\ ring[prioCur] = <<>> /\ Goto(Server, "sweep")
    /\ UNCHANGED <<ipcVars, queueVars, schedVars, userVars, hand, ticking, mode>>

\* Mutant: requests in the queue are not counted off.
SweepCountNot(c) == UNCHANGED signal
SweepCount(c)    == IF Has(c, "REQUEST") THEN SignalAdd(-1) ELSE UNCHANGED signal

\* ... and so do the events, twice with a tick between.
SweepNext(c) ==
    /\ At(Server, "sweep") \/ At(Server, "resweep")
    /\ evtq # <<>> /\ c = Head(evtq) /\ evtq' = Tail(evtq)
    /\ SweepCount(c)
    /\ RmStateChange(c, EsMask, {"ES_ERROR"})
    /\ UNCHANGED word /\ Wakeup(c)
    /\ UNCHANGED <<tag, ring, prioCur, userVars, loc, hand, ticking, mode>>
SweepAgain ==
    /\ At(Server, "sweep") /\ evtq = <<>> /\ KernelFree
    /\ asleep' = asleep \cup {Server} /\ online' = online \cup {Server}
    /\ Goto(Server, "resweep")
    /\ UNCHANGED <<ipcVars, queueVars, userVars, hand, ticking, mode>>

\* The end of the close: the thread it wakes is taken from a null pointer, so the
\* served client is not woken.
Closed ==
    /\ At(Server, "resweep") /\ evtq = <<>>
    /\ result' = [result EXCEPT ![Server] = IF signal > 0 THEN "SER_SIGNAL" ELSE "OK"]
    /\ signal' = 0
    /\ tag' = [tag EXCEPT ![Server] = None]
    /\ Goto(Server, "user")
    /\ UNCHANGED <<word, rmAdd, rmDel, evtq, ring, prioCur, schedVars, msg, calls, hand, ticking, mode>>
-----------------------------------------------------------------------------
Init ==
    /\ mode \in Circumstances
    /\ word  = [t \in Threads |-> {}]
    /\ rmAdd = [c \in Clients |-> {}] /\ rmDel = [c \in Clients |-> {}]
    /\ tag   = [t \in Threads |-> None]
    /\ evtq  = <<>> /\ ring = [p \in Prios |-> <<>>]
    /\ prioCur = PrioMax - 1 /\ signal = 0
    /\ loc   = [t \in Threads |-> IF t = Server THEN "user" ELSE "idle"]
    /\ hand = None /\ ticking = None
    /\ asleep = {} /\ online = {}
    /\ msg = [t \in Threads |-> <<None, 0, "send">>]
    /\ calls = [c \in Clients |-> 0]
    /\ result = [t \in Threads |-> "OK"]

ClientStep(c) == Queue(c) \/ Finish(c) \/ NapOver(c)
Tick(t)       == TickPlain(t) \/ (t \in Clients /\ (TickDecided(t) \/ TickExpire(t)))
Receive ==
    \/ Drain \/ Event \/ Check \/ Resume \/ PickNone
    \/ \E c \in Clients : \/ Pick(c) \/ InTimeout(c) \/ InSend(c) \/ InCall(c)
                          \/ Took(c) \/ Answer(c)
ServerStep == Recv \/ Receive \/ \E c \in Clients : Reply(c)
CloseStep ==
    \/ ShutEnd \/ SweepAgain \/ Closed
    \/ \E c \in Clients : Close(c) \/ ShutNext(c) \/ SweepNext(c)

\* Unless others may run there, nothing happens between the two critical sections of a sender.
Undisturbed == mode.preempt \/ \A c \in Clients : loc[c] # "kernel"
Next ==
    \/ \E c \in Clients : Kernel(c)
    \/ /\ Undisturbed
       /\ \/ ServerStep \/ CloseStep \/ TickEvent
          \/ \E t \in Threads : Tick(t)
          \/ \E c \in Clients : ClientStep(c) \/ Nap(c) \/ Stray(c)
                                \/ \E op \in Ops : Send(c, op)
Spec == Init /\ [][Next]_vars

\* A thread that is not asleep runs, and the clock ticks; nobody has to send.
Fairness ==
    /\ WF_vars(ServerStep \/ CloseStep) /\ WF_vars(TickEvent)
    /\ \A c \in Clients : WF_vars(Kernel(c)) /\ WF_vars(ClientStep(c))
    /\ \A t \in Threads : WF_vars(Tick(t))
FairSpec == Spec /\ Fairness
-----------------------------------------------------------------------------
(* The properties, each under the circumstances that it asks for.  A timeout is   *)
(* orderly if it strikes when the service has listed or taken the request.        *)
Punctual == mode.expireIn = {}
Orderly  == mode.expireIn \subseteq {"listed", "taken"} /\ ~mode.strays
Tame     == Orderly \/ Punctual

\* A client between two IPCs is not in any structure of the service: no event, no
\* place in a list, no reply owed, no timeout under way.
NothingLeftBehind ==
    Orderly => \A c \in Clients : loc[c] \in {"idle", "nap"} =>
        /\ c \notin Queued \cup Listed \cup {hand, ticking, tag[Server]}
        /\ rmAdd[c] = {} /\ rmDel[c] = {}

\* The service serves the most urgent listed request first: the current priority is
\* that of the most urgent ring in use, and each request is in its own ring, once.
UrgentFirst ==
    LET used == {p \in Prios : ring[p] # <<>>}
    IN  /\ prioCur = IF used = {} THEN PrioMax - 1 ELSE Min(used)
        /\ \A p \in Prios : Distinct(ring[p]) /\ \A c \in Members(ring[p]) : Priority[c] = p
MostUrgentFirst == TypeOK /\ (Orderly => UrgentFirst)

\* The signal of an open service is the number of requests to be dealt with: those in
\* the queue, in hand or listed, up to the clients still on their way to count them.
Pending(c) == c \in Listed \/ (c \in Queued \cup {hand} /\ "REQUEST" \notin rmDel[c])
SignalCounts ==
    Orderly /\ ~mode.closing =>
        signal = (Cardinality({c \in Clients : loc[c] = "wait" /\ Pending(c)}) + SignalMod
                  - Cardinality({c \in Clients : loc[c] = "kernel" /\ ~Pending(c)})) % SignalMod

\* The service does not sleep on a request or a timeout: what is queued while it
\* pends belongs to a sender that is about to wake it.  With timeouts, not so if a tick
\* handler is interrupted by the service between its decision and its event, nor if a
\* service that closes left a client without a decision.
NoRequestForgotten ==
    ~mode.preempt /\ (Punctual \/ (Orderly /\ ~mode.smp /\ ~mode.closing)) =>
        (Server \in asleep /\ loc[Server] = "pended" =>
            \A c \in Queued \cup Listed : loc[c] = "kernel")

\* A client asleep in an IPC is known to someone who will end it: the wakeup list,
\* the queue or the list of the service, the tick, or the service that serves it.
SleepersKnown ==
    \A c \in Clients \cap asleep :
        \/ c \in online /\ (Has(c, "IN_IPC") => ~Has(c, "READY"))
        \/ c \in Queued \cup Listed \cup {hand, ticking, tag[Server]}

\* The same, but for a client that was answered before it slept, that slept
\* otherwise, whose service closed, or whose timeout was not orderly.
NoLostSleeper == ~mode.preempt /\ ~mode.closing /\ ~mode.napping /\ Tame => SleepersKnown

\* Result OK of a call in time means that the reply to this very call is in the buffer.
OkIsAnswered ==
    Punctual /\ ~mode.closing /\ ~mode.strays =>
        \A c \in Clients : loc[c] = "idle" /\ result[c] = "OK" /\ calls[c] > 0
            => msg[c] \in {<<c, calls[c], "reply">>, <<c, calls[c], "send">>}

\* A service that closes finds every request counted once, unless a sender is
\* interrupted before it counts its own.
CloseCounts == Punctual /\ ~mode.preempt => result[Server] # "SER_SIGNAL"

\* A client that waits in an IPC is woken by nobody before the IPC is decided.
UndecidedSleeps ==
    [][\A c \in Clients : c \in asleep \ asleep' /\ loc[c] = "wait" => Has(c, "READY")']_vars

\* Every IPC with an open service ends.
Calm    == Orderly /\ ~mode.preempt /\ ~mode.smp /\ ~mode.closing /\ ~mode.napping
IpcEnds == \A c \in Clients : Calm /\ loc[c] = "wait" ~> loc[c] = "idle"
-----------------------------------------------------------------------------
\* The decision on a request of c is READY; what it is the remote flags say, or the
\* place of the service that is about to set them.
Outcome(c) ==
    IF tag[Server] = c /\ loc[Server] = "answer"  THEN "answered"
    ELSE IF tag[Server] = c /\ loc[Server] = "took" THEN "sent"
    ELSE IF "ES_TIMEOUT" \in rmAdd[c] THEN "expired"
    ELSE IF "RECV_FI" \in rmAdd[c] THEN "answered"
    ELSE IF "SEND_FI" \in rmAdd[c] THEN "sent" ELSE "refused"
Asked(c) == loc[c] \in {"kernel", "wait"}
Decided(c) == Asked(c) /\ Has(c, "READY")

\* The service gives what RequestReply promises, to clients whose timeouts are orderly;
\* while it closes, to clients without timeouts.  Of others nothing is said.
Promised == Orderly /\ (mode.closing => Punctual)
Promise == INSTANCE RequestReply WITH
    st      <- [c \in Clients |-> IF Promised /\ Decided(c) THEN "decided"
                                  ELSE IF Promised /\ Asked(c) THEN "asked" ELSE "idle"],
    how     <- [c \in Clients |-> IF Promised /\ Decided(c) THEN Outcome(c) ELSE None],
    serving <- IF Promised /\ loc[Server] = "serve" THEN tag[Server] ELSE None
PromiseKept == Promise!Spec
=============================================================================
