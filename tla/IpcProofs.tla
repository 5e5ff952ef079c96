------------------------------ MODULE IpcProofs ------------------------------
(***************************************************************************)
(* Theorems about MatrixIpc, for any number of clients and priorities.       *)
(***************************************************************************)
EXTENDS MatrixIpc, FiniteSetTheorems, WellFoundedInduction, TLAPS

-----------------------------------------------------------------------------
(* What the operations on circular lists preserve.                           *)

\* Removing the header of a ring without doubles removes just that node.
LEMMA TailFacts ==
  ASSUME NEW S, NEW s \in Seq(S), s # <<>>
  PROVE  /\ Head(s) = s[1] /\ s[1] \in Members(s) /\ s[1] \in S /\ Tail(s) \in Seq(S)
         /\ Distinct(s) => /\ Distinct(Tail(s))
                           /\ Members(Tail(s)) = Members(s) \ {s[1]}
<1> DEFINE t == Tail(s)
<1>1. /\ t \in Seq(S) /\ Len(t) = Len(s) - 1 /\ 1 \in DOMAIN s
      /\ \A i \in 1 .. Len(t) : t[i] = s[i + 1]
      /\ Head(s) = s[1] /\ s[1] \in S
  OBVIOUS
<1>2. s[1] \in Members(s)
  BY <1>1 DEF Members
<1>3. ASSUME Distinct(s) PROVE Distinct(t)
  <2> SUFFICES ASSUME NEW i \in 1 .. Len(t), NEW j \in 1 .. Len(t), t[i] = t[j]
               PROVE  i = j
    BY <1>1 DEF Distinct
  <2>1. i + 1 \in DOMAIN s /\ j + 1 \in DOMAIN s /\ s[i + 1] = s[j + 1]
    BY <1>1
  <2> QED BY <1>3, <2>1 DEF Distinct
<1>4. ASSUME Distinct(s) PROVE Members(t) = Members(s) \ {s[1]}
  <2>1. ASSUME NEW x \in Members(t) PROVE x \in Members(s) \ {s[1]}
    <3>1. PICK i \in 1 .. Len(t) : x = t[i]
      BY DEF Members
    <3>2. i + 1 \in DOMAIN s /\ x = s[i + 1] /\ i + 1 # 1
      BY <1>1, <3>1
    <3> QED BY <1>1, <1>4, <3>2 DEF Members, Distinct
  <2>2. ASSUME NEW x \in Members(s) \ {s[1]} PROVE x \in Members(t)
    <3>1. PICK i \in 1 .. Len(s) : x = s[i] /\ i # 1
      BY DEF Members
    <3>2. i - 1 \in DOMAIN t /\ t[i - 1] = x
      BY <1>1, <3>1
    <3> QED BY <3>2 DEF Members
  <2> QED BY <2>1, <2>2
<1> QED BY <1>1, <1>2, <1>3, <1>4

\* there (_List_Ring_Add_Last).
LEMMA AppendFacts ==
  ASSUME NEW S, NEW s \in Seq(S), NEW v \in S
  PROVE  /\ Append(s, v) \in Seq(S) /\ Append(s, v) # <<>>
         /\ Members(Append(s, v)) = Members(s) \cup {v}
         /\ Distinct(s) /\ v \notin Members(s) => Distinct(Append(s, v))
<1> DEFINE t == Append(s, v)
<1>1. /\ t \in Seq(S) /\ Len(t) = Len(s) + 1
      /\ \A i \in 1 .. Len(t) : t[i] = IF i = Len(t) THEN v ELSE s[i]
  OBVIOUS
<1>2. Members(t) = Members(s) \cup {v}
  BY <1>1 DEF Members
<1>3. ASSUME Distinct(s), v \notin Members(s) PROVE Distinct(t)
  <2> SUFFICES ASSUME NEW i \in 1 .. Len(t), NEW j \in 1 .. Len(t), t[i] = t[j]
               PROVE  i = j
    BY <1>1 DEF Distinct
  <2>1. \A k \in 1 .. Len(s) : s[k] # v
    BY <1>3 DEF Members
  <2>2. CASE i = Len(t) \/ j = Len(t)
    BY <1>1, <2>1, <2>2
  <2>3. CASE i # Len(t) /\ j # Len(t)
    BY <1>1, <1>3, <2>3 DEF Distinct
  <2> QED BY <2>2, <2>3
<1>4. t # <<>> BY <1>1
<1> QED BY <1>1, <1>2, <1>3, <1>4

\* What two sequences joined hold.
LEMMA JoinedFacts ==
  ASSUME NEW S, NEW a \in Seq(S), NEW b \in Seq(S)
  PROVE  /\ a \o b \in Seq(S) /\ Len(a \o b) = Len(a) + Len(b)
         /\ \A i \in 1 .. Len(a \o b) :
                (a \o b)[i] = IF i <= Len(a) THEN a[i] ELSE b[i - Len(a)]
<1>1. a \o b \in Seq(S) /\ Len(a \o b) = Len(a) + Len(b)
  OBVIOUS
<1> QED BY <1>1

\* Removing a node of a ring without doubles removes just that node (_List_Ring_Del).
LEMMA WithoutFacts ==
  ASSUME NEW S, NEW s \in Seq(S), NEW v \in Members(s)
  PROVE  /\ Without(s, v) \in Seq(S) /\ Members(Without(s, v)) \subseteq Members(s)
         /\ Distinct(s) => /\ Distinct(Without(s, v))
                           /\ Members(Without(s, v)) = Members(s) \ {v}
<1> DEFINE t == Without(s, v)
           k == CHOOSE j \in DOMAIN s : s[j] = v
<1>1. k \in 1 .. Len(s) /\ s[k] = v
  BY DEF Members
<1>2. t = SubSeq(s, 1, k - 1) \o SubSeq(s, k + 1, Len(s))
  BY DEF Without
<1> HIDE DEF k, t
<1>3. /\ t \in Seq(S) /\ Len(t) = Len(s) - 1
      /\ \A i \in 1 .. Len(t) : t[i] = IF i < k THEN s[i] ELSE s[i + 1]
  <2> DEFINE a == SubSeq(s, 1, k - 1)
             b == SubSeq(s, k + 1, Len(s))
  <2>1. /\ a \in Seq(S) /\ Len(a) = k - 1
        /\ \A i \in 1 .. k - 1 : a[i] = s[i]
    BY <1>1
  <2>2. /\ b \in Seq(S) /\ Len(b) = Len(s) - k
        /\ \A i \in 1 .. Len(s) - k : b[i] = s[k + i]
    BY <1>1
  <2>3. t = a \o b
    BY <1>2
  <2> HIDE DEF a, b
  <2>4. /\ t \in Seq(S) /\ Len(t) = Len(s) - 1
        /\ \A i \in 1 .. Len(t) : t[i] = IF i <= k - 1 THEN a[i] ELSE b[i - (k - 1)]
    <3>1. /\ t \in Seq(S) /\ Len(t) = Len(a) + Len(b)
          /\ \A i \in 1 .. Len(t) : t[i] = IF i <= Len(a) THEN a[i] ELSE b[i - Len(a)]
      BY <2>1, <2>2, <2>3, JoinedFacts
    <3> QED BY <3>1, <1>1, <2>1, <2>2
  <2> QED BY <1>1, <2>1, <2>2, <2>4
<1>4. ASSUME NEW x \in Members(t) PROVE x \in Members(s) /\ (Distinct(s) => x # v)
  <2>1. PICK i \in 1 .. Len(t) : x = t[i]
    BY <1>3, <1>4 DEF Members
  <2>2. x = s[IF i < k THEN i ELSE i + 1] /\ (IF i < k THEN i ELSE i + 1) \in DOMAIN s
        /\ (IF i < k THEN i ELSE i + 1) # k
    BY <1>1, <1>3, <2>1
  <2> QED BY <1>1, <2>2 DEF Members, Distinct
<1>5. ASSUME NEW x \in Members(s) \ {v} PROVE x \in Members(t)
  <2>1. PICK i \in 1 .. Len(s) : x = s[i] /\ i # k
    BY <1>1, <1>5 DEF Members
  <2>2. x = t[IF i < k THEN i ELSE i - 1] /\ (IF i < k THEN i ELSE i - 1) \in DOMAIN t
    BY <1>1, <1>3, <2>1
  <2> QED BY <2>2 DEF Members
<1>6. ASSUME Distinct(s) PROVE Distinct(t)
  <2> SUFFICES ASSUME NEW i \in 1 .. Len(t), NEW j \in 1 .. Len(t), t[i] = t[j]
               PROVE  i = j
    BY <1>3 DEF Distinct
  <2> DEFINE f(l) == IF l < k THEN l ELSE l + 1
  <2>1. f(i) \in DOMAIN s /\ f(j) \in DOMAIN s /\ s[f(i)] = s[f(j)]
    BY <1>1, <1>3
  <2>2. f(i) = f(j)
    BY <1>6, <2>1 DEF Distinct
  <2> QED BY <2>2, <1>1, <1>3
<1> QED BY <1>3, <1>4, <1>5, <1>6 DEF t

-----------------------------------------------------------------------------
(* The queues of requests and what the service does with them.               *)

\* Facts about constants.
LEMMA Consts ==
  /\ IsFiniteSet(Clients) /\ Server \notin Clients /\ None \notin Threads
  /\ None \notin Clients /\ None # Server /\ Server \in Threads /\ Clients \subseteq Threads
  /\ PrioMax \in Nat /\ PrioMax > 0 /\ Priority \in [Clients -> Prios]
  /\ SignalMod \in Nat /\ SignalMod > 0 /\ Cardinality(Clients) \in Nat
  /\ SignalMod > Cardinality(Clients)
<1>1. Cardinality(Clients) \in Nat
  BY ConstAssumption, FS_CardinalityType
<1> QED BY <1>1, ConstAssumption DEF Threads

\* The signal keeps its width.
LEMMA SignalType ==
  ASSUME NEW n \in Int, signal \in 0 .. SignalMod - 1, SignalAdd(n)
  PROVE  signal' \in 0 .. SignalMod - 1
BY Consts DEF SignalAdd

\* The least element of a set of priorities.
LEMMA LeastPrio ==
  ASSUME NEW U \in SUBSET Prios, U # {}
  PROVE  Min(U) \in U /\ \A p \in U : Min(U) <= p
<1>0. Prios \subseteq Nat
  BY DEF Prios
<1> DEFINE R == {ss \in Nat \X Nat : ss[1] < ss[2]}
<1>1. IsWellFoundedOn(R, Nat)
  BY NatLessThanWellFounded DEF OpToRel
<1> HIDE DEF R
<1>2. PICK x \in U : \A y \in U : ~ (<<y, x>> \in R)
  BY <1>0, <1>1, WFMin
<1>3. \A y \in U : ~(y < x)
  BY <1>0, <1>2 DEF R
<1>4. \A y \in U : x <= y
  BY <1>0, <1>3
<1> QED BY <1>4 DEF Min

\* The rings in use, and the priority that is current when they are.
Used(r) == {p \in Prios : r[p] # <<>>}
Current(r, cur) ==
    IF Used(r) = {} THEN cur = PrioMax - 1 ELSE cur \in Used(r) /\ \A p \in Used(r) : cur <= p

\* After a removal __ipcPlistPrioFlush finds the most urgent ring in use.
LEMMA FlushFacts ==
  ASSUME NEW r, NEW cur \in Prios
  PROVE  /\ PrioFlush(r, cur) \in Prios
         /\ (\A p \in Used(r) : cur <= p) => Current(r, PrioFlush(r, cur))
<1> DEFINE below == {p \in Used(r) : p > cur}
           m == PrioFlush(r, cur)
<1>0. PrioMax - 1 \in Prios /\ Prios \subseteq Nat
  BY Consts DEF Prios
<1>1. m = IF cur \in Used(r) THEN cur ELSE IF below # {} THEN Min(below)
          ELSE IF Used(r) # {} THEN Min(Used(r)) ELSE PrioMax - 1
  BY DEF PrioFlush, Used
<1>2. below \in SUBSET Prios /\ Used(r) \in SUBSET Prios
  BY DEF Used
<1> HIDE DEF m
<1>3. m \in Prios
  BY <1>0, <1>1, <1>2, LeastPrio
<1>4. ASSUME \A p \in Used(r) : cur <= p PROVE Current(r, m)
  <2>1. CASE cur \in Used(r)
    BY <1>1, <1>4, <2>1 DEF Current
  <2>2. CASE cur \notin Used(r)
    <3>0. \A p \in Used(r) : p > cur
      <4> SUFFICES ASSUME NEW p \in Used(r) PROVE p > cur
        OBVIOUS
      <4>1. p \in Nat /\ cur \in Nat /\ cur <= p /\ p # cur
        BY <1>0, <1>2, <1>4, <2>2
      <4> QED BY <4>1
    <3>1. below = Used(r)
      BY <3>0
    <3>2. CASE below = {}
      BY <1>1, <2>2, <3>1, <3>2 DEF Current
    <3>3. CASE below # {}
      BY <1>1, <1>2, <2>2, <3>1, <3>3, LeastPrio DEF Current
    <3> QED BY <3>2, <3>3
  <2> QED BY <2>1, <2>2
<1> QED BY <1>3, <1>4 DEF m

\* The current priority is the one that UrgentFirst asks for.
LEMMA CurrentIs ==
  ASSUME NEW r, NEW cur, Current(r, cur)
  PROVE  cur = IF Used(r) = {} THEN PrioMax - 1 ELSE Min(Used(r))
<1>1. CASE Used(r) = {}
  BY <1>1 DEF Current
<1>2. CASE Used(r) # {}
  <2>1. Used(r) \in SUBSET Prios /\ Prios \subseteq Nat
    BY DEF Used, Prios
  <2>2. Min(Used(r)) \in Used(r) /\ \A p \in Used(r) : Min(Used(r)) <= p
    BY <1>2, <2>1, LeastPrio
  <2>3. cur \in Used(r) /\ \A p \in Used(r) : cur <= p
    BY <1>2 DEF Current
  <2>4. cur = Min(Used(r))
    <3>1. cur <= Min(Used(r)) /\ Min(Used(r)) <= cur
      BY <2>2, <2>3
    <3> HIDE DEF Used
    <3>2. cur \in Nat /\ Min(Used(r)) \in Nat
      BY <2>1, <2>2, <2>3
    <3> QED BY <3>1, <3>2
  <2> QED BY <1>2, <2>4
<1> QED BY <1>1, <1>2
-----------------------------------------------------------------------------
(* The steps keep the types.                                                  *)

\* All there is to a step.
ClientDoes(c) ==
    Kernel(c) \/ Queue(c) \/ Finish(c) \/ NapOver(c) \/ Nap(c) \/ Stray(c) \/ \E op \in Ops : Send(c, op)
TickDoes ==
    TickEvent \/ (\E t \in Threads : TickPlain(t)) \/ \E c \in Clients : TickDecided(c) \/ TickExpire(c)
ServerDoes ==
    Recv \/ Drain \/ Event \/ Check \/ Resume \/ PickNone
ServesDoes(c) ==
    Pick(c) \/ InTimeout(c) \/ InSend(c) \/ InCall(c) \/ Took(c) \/ Answer(c) \/ Reply(c)
CloseDoes == ShutEnd \/ SweepAgain \/ Closed \/ \E c \in Clients : Close(c) \/ ShutNext(c) \/ SweepNext(c)

LEMMA StepIs ==
  ASSUME [Next]_vars
  PROVE  \/ \E c \in Clients : ClientDoes(c)
         \/ TickDoes \/ ServerDoes \/ (\E c \in Clients : ServesDoes(c)) \/ CloseDoes
         \/ UNCHANGED vars
BY DEF Next, ServerStep, Receive, CloseStep, ClientStep, Tick, ClientDoes, TickDoes, ServerDoes,
       ServesDoes, CloseDoes

\* The circumstances stay.
LEMMA ModeSame == [Next]_vars => mode' = mode
<1> SUFFICES ASSUME [Next]_vars PROVE mode' = mode
  OBVIOUS
<1>1. ASSUME NEW c \in Clients, ClientDoes(c) PROVE mode' = mode
  BY <1>1 DEF ClientDoes, Kernel, Queue, Finish, NapOver, Nap, Stray, Send
<1>2. CASE TickDoes
  BY <1>2 DEF TickDoes, TickEvent, TickPlain, TickDecided, TickExpire
<1>3. CASE ServerDoes
  BY <1>3 DEF ServerDoes, Recv, Drain, Event, Check, Resume, PickNone
<1>4. ASSUME NEW c \in Clients, ServesDoes(c) PROVE mode' = mode
  BY <1>4 DEF ServesDoes, Pick, InTimeout, InSend, InCall, Took, Answer, Reply
<1>5. CASE CloseDoes
  BY <1>5 DEF CloseDoes, ShutEnd, SweepAgain, Closed, Close, ShutNext, SweepNext
<1>6. CASE UNCHANGED vars
  BY <1>6 DEF vars
<1> QED BY <1>1, <1>2, <1>3, <1>4, <1>5, <1>6, StepIs

\* The words and flags.
WordTypes ==
    /\ word \in [Threads -> SUBSET Flags]
    /\ rmAdd \in [Clients -> SUBSET Flags] /\ rmDel \in [Clients -> SUBSET Flags]
    /\ tag \in [Threads -> Threads \cup {None}]
QueueTypes ==
    /\ evtq \in Seq(Clients) /\ ring \in [Prios -> Seq(Clients)]
    /\ prioCur \in Prios /\ signal \in 0 .. SignalMod - 1
    /\ hand \in Clients \cup {None} /\ ticking \in Clients \cup {None}
    /\ asleep \subseteq Threads /\ online \subseteq Threads
    /\ loc \in [Threads -> ClientLocs \cup ServerLocs]
UserTypes ==
    /\ mode \in Circumstances
    /\ msg \in [Threads -> Msgs] /\ calls \in [Clients -> 0 .. mode.calls]
    /\ result \in [Threads -> {"OK", "NOT_SER", "STATE", "SER_SIGNAL"}]

LEMMA TypesAre == TypeOK <=> WordTypes /\ QueueTypes /\ UserTypes
BY DEF TypeOK, WordTypes, QueueTypes, UserTypes

\* An event queue that gets a client in.
LEMMA JoinedIs ==
  ASSUME NEW c \in Clients, evtq \in Seq(Clients), Distinct(evtq)
  PROVE  /\ Joined(c) \in Seq(Clients) /\ Distinct(Joined(c))
         /\ Members(Joined(c)) = Queued \cup {c}
BY AppendFacts DEF Joined, Queued

\* Flags that are.
LEMMA AreFlags ==
  /\ {"READY", "SEND_WT", "RECV", "REQUEST", "TIMEOUT", "SER_PEND", "IN_IPC", "SER"} \subseteq Flags
  /\ {"ES_TIMEOUT", "ES_ERROR", "RECV_WT", "SEND_FI", "RECV_FI"} \subseteq Flags
  /\ EsMask \subseteq Flags /\ EvtsMask \subseteq Flags /\ SMask \subseteq Flags /\ TsMask \subseteq Flags
BY DEF Flags, EsMask, EvtsMask, SMask, TsMask

\* Each step keeps the types of the words.
LEMMA WordsTyped ==
  ASSUME TypeOK, [Next]_vars, hand = None => loc[Server] # "event"
  PROVE  WordTypes'
<1>0. WordTypes /\ Server \in Threads /\ Clients \subseteq Threads /\ hand \in Clients \cup {None}
      /\ ticking \in Clients \cup {None} /\ None \notin Clients
  BY Consts, TypesAre DEF QueueTypes
<1>1. ASSUME NEW c \in Clients, ClientDoes(c) PROVE WordTypes'
  BY <1>0, <1>1, AreFlags DEF ClientDoes, Kernel, Queue, EvtqInsert, Finish, NapOver, Nap, Stray, Send, Ready,
     ipcVars, WordTypes
<1>2. CASE TickDoes
  BY <1>0, <1>2, AreFlags DEF TickDoes, TickEvent, TickPlain, TickDecided, TickExpire, RmStateChange, Ready, EvtqInsert,
     ipcVars, WordTypes
<1>3. CASE ServerDoes
  BY <1>0, <1>3, AreFlags DEF ServerDoes, Recv, Drain, Event, Check, Resume, PickNone, RmStateChange,
     ipcVars, WordTypes, At
<1>4. ASSUME NEW c \in Clients, ServesDoes(c) PROVE WordTypes'
  BY <1>0, <1>4, AreFlags DEF ServesDoes, Pick, InTimeout, InSend, InCall, Took, Answer, Reply, RmStateChange, Ready,
     Settle, ipcVars, WordTypes
<1>5. CASE CloseDoes
  BY <1>0, <1>5, AreFlags DEF CloseDoes, ShutEnd, SweepAgain, Closed, Close, ShutNext, SweepNext, RmStateChange, Ready,
     ipcVars, WordTypes
<1>6. CASE UNCHANGED vars
  BY <1>0, <1>6 DEF vars, ipcVars, WordTypes
<1> QED BY <1>1, <1>2, <1>3, <1>4, <1>5, <1>6, StepIs

\* A request is listed in the ring of its priority.
OwnRings == \A p \in Prios : \A c \in Members(ring[p]) : Priority[c] = p

\* Each step keeps the types of the queues and lists.
LEMMA QueuesTyped ==
  ASSUME TypeOK, [Next]_vars, Distinct(evtq), OwnRings, hand = None => loc[Server] # "event"
  PROVE  QueueTypes'
<1>0. QueueTypes /\ Server \in Threads /\ Clients \subseteq Threads /\ hand \in Clients \cup {None}
      /\ Server \notin Clients /\ None \notin Clients /\ -1 \in Int /\ 1 \in Int
  BY Consts, TypesAre DEF QueueTypes
<1>1. ASSUME NEW c \in Clients, ClientDoes(c) PROVE QueueTypes'
  <2>1. ~Kernel(c) => UNCHANGED signal
    BY <1>1 DEF ClientDoes, Queue, Finish, NapOver, Nap, Stray, Send, queueVars
  <2>2. signal' \in 0 .. SignalMod - 1
    BY <1>0, <2>1, SignalType DEF Kernel, QueueTypes
  <2>3. ~Queue(c) => UNCHANGED evtq
    BY <1>1 DEF ClientDoes, Kernel, Finish, NapOver, Nap, Stray, Send, queueVars
  <2>4. evtq' \in Seq(Clients)
    BY <1>0, <2>3, JoinedIs DEF Queue, EvtqInsert, QueueTypes
  <2>5. UNCHANGED <<ring, prioCur, hand, ticking>>
    BY <1>1 DEF ClientDoes, Kernel, Queue, Finish, NapOver, Nap, Stray, Send, queueVars
  <2>6. asleep' \subseteq Threads /\ online' \subseteq Threads
    BY <1>0, <1>1 DEF ClientDoes, Kernel, Queue, Finish, NapOver, Nap, Stray, Send, schedVars, Wakeup, Woken,
       QueueTypes
  <2>7. loc' \in [Threads -> ClientLocs \cup ServerLocs]
    BY <1>0, <1>1 DEF ClientDoes, Kernel, Queue, Finish, NapOver, Nap, Stray, Send, Goto, ClientLocs,
       QueueTypes
  <2> QED BY <1>0, <2>2, <2>4, <2>5, <2>6, <2>7 DEF QueueTypes
<1>2. CASE TickDoes
  <2>1. evtq' \in Seq(Clients)
    BY <1>0, <1>2, JoinedIs DEF TickDoes, TickEvent, TickPlain, TickDecided, TickExpire, EvtqInsert, queueVars,
       QueueTypes
  <2>2. UNCHANGED <<ring, prioCur, hand, loc, signal>>
    BY <1>2 DEF TickDoes, TickEvent, TickPlain, TickDecided, TickExpire, queueVars
  <2>3. ticking' \in Clients \cup {None} /\ asleep' \subseteq Threads /\ online' \subseteq Threads
    BY <1>0, <1>2 DEF TickDoes, TickEvent, TickPlain, TickDecided, TickExpire, schedVars, QueueTypes
  <2> QED BY <1>0, <2>1, <2>2, <2>3 DEF QueueTypes
<1>3. ASSUME NEW r \in {"drain", "user", "check", "event", "pended", "pick", "in", "took", "serve", "answer",
                        "shut", "sweep", "resweep"}
      PROVE  [loc EXCEPT ![Server] = r] \in [Threads -> ClientLocs \cup ServerLocs]
  BY <1>0, <1>3 DEF QueueTypes, ServerLocs
<1>4. CASE ServerDoes
  <2>1. CASE Event
    <3>1. hand \in Clients
      BY <1>0, <2>1 DEF Event, At
    <3>2. ring' \in [Prios -> Seq(Clients)] /\ prioCur' \in Prios
      <4>1. CASE UNCHANGED <<ring, prioCur>>
        BY <4>1, <1>0 DEF QueueTypes
      <4>2. CASE PlistInsert(hand)
        BY <4>2, <1>0, <3>1, AppendFacts, Consts DEF PlistInsert, QueueTypes
      <4>3. CASE PlistRemove(hand) /\ hand \in Listed
        <5> DEFINE s == ring[Priority[hand]]
        <5>1. s \in Seq(Clients) /\ Priority[hand] \in Prios
          BY <1>0, <3>1, Consts DEF QueueTypes
        <5>2. Without(s, hand) \in Seq(Clients)
          <6>1. hand \in Members(s)
            BY <4>3 DEF Listed, OwnRings
          <6> QED BY <5>1, <6>1, WithoutFacts
        <5>3. ring' \in [Prios -> Seq(Clients)]
          BY <4>3, <5>1, <5>2, <1>0 DEF PlistRemove, QueueTypes
        <5>4. prioCur' \in Prios
          BY <4>3, <1>0, FlushFacts DEF PlistRemove, QueueTypes
        <5> QED BY <5>3, <5>4
      <4> QED BY <2>1, <4>1, <4>2, <4>3 DEF Event
    <3>3. signal' \in 0 .. SignalMod - 1
      BY <1>0, <2>1, SignalType DEF Event, QueueTypes
    <3>4. asleep' \subseteq Threads /\ online' \subseteq Threads
      BY <1>0, <2>1 DEF Event, Wakeup, schedVars, QueueTypes
    <3>5. evtq' = evtq /\ hand' = None /\ ticking' = ticking /\ loc' = [loc EXCEPT ![Server] = "drain"]
      BY <2>1 DEF Event, Goto
    <3> QED BY <1>0, <1>3, <3>2, <3>3, <3>4, <3>5 DEF QueueTypes
  <2>2. CASE Drain
    <3>1. evtq # <<>> => Head(evtq) \in Clients /\ Tail(evtq) \in Seq(Clients)
      BY <1>0 DEF QueueTypes
    <3>2. UNCHANGED <<ring, prioCur, signal, asleep, online, ticking>>
      BY <2>2 DEF Drain, schedVars
    <3>3. evtq' \in Seq(Clients) /\ hand' \in Clients \cup {None}
      BY <1>0, <2>2, <3>1 DEF Drain, QueueTypes
    <3>4. loc' \in [Threads -> ClientLocs \cup ServerLocs]
      BY <1>3, <2>2 DEF Drain, Goto
    <3> QED BY <1>0, <3>2, <3>3, <3>4 DEF QueueTypes
  <2>3. CASE Recv \/ Check \/ Resume \/ PickNone
    <3>1. UNCHANGED <<evtq, ring, prioCur, signal, online, ticking, hand>> /\ asleep' \subseteq Threads
      BY <1>0, <2>3 DEF Recv, Check, Resume, PickNone, queueVars, schedVars, QueueTypes
    <3>2. loc' \in [Threads -> ClientLocs \cup ServerLocs]
      BY <1>3, <2>3 DEF Recv, Check, Resume, PickNone, Goto
    <3> QED BY <1>0, <3>1, <3>2 DEF QueueTypes
  <2> QED BY <1>4, <2>1, <2>2, <2>3 DEF ServerDoes
<1>5. ASSUME NEW c \in Clients, RecvNext(c)
      PROVE  ring' \in [Prios -> Seq(Clients)] /\ prioCur' \in Prios /\ signal' \in 0 .. SignalMod - 1
  <2>1. ring' = [ring EXCEPT ![prioCur] = Tail(@)] /\ ring[prioCur] # <<>>
    BY <1>5 DEF RecvNext, PlistNext
  <2>2. ring' \in [Prios -> Seq(Clients)]
    BY <1>0, <2>1 DEF QueueTypes
  <2>3. prioCur' \in Prios
    BY <1>0, <1>5, FlushFacts DEF RecvNext, PlistNext, QueueTypes
  <2>4. signal' \in 0 .. SignalMod - 1
    BY <1>0, <1>5, SignalType DEF RecvNext, QueueTypes
  <2> QED BY <2>2, <2>3, <2>4
<1>6. ASSUME NEW c \in Clients, ServesDoes(c) PROVE QueueTypes'
  <2>1. ~Pick(c) => UNCHANGED <<ring, prioCur, signal>>
    BY <1>6 DEF ServesDoes, InTimeout, InSend, InCall, Took, Answer, Reply, queueVars
  <2>2. ring' \in [Prios -> Seq(Clients)] /\ prioCur' \in Prios /\ signal' \in 0 .. SignalMod - 1
    BY <1>0, <1>5, <2>1 DEF Pick, QueueTypes
  <2>3. UNCHANGED <<evtq, hand, ticking>>
    BY <1>6 DEF ServesDoes, Pick, InTimeout, InSend, InCall, Took, Answer, Reply, queueVars
  <2>4. asleep' \subseteq Threads /\ online' \subseteq Threads
    BY <1>0, <1>6 DEF ServesDoes, Pick, InTimeout, InSend, InCall, Took, Answer, Reply, schedVars, Wakeup, Settle,
       QueueTypes
  <2>5. loc' \in [Threads -> ClientLocs \cup ServerLocs]
    BY <1>3, <1>6 DEF ServesDoes, Pick, InTimeout, InSend, InCall, Took, Answer, Reply, Goto
  <2> QED BY <1>0, <2>2, <2>3, <2>4, <2>5 DEF QueueTypes
<1>7. CASE CloseDoes
  <2>1. ASSUME NEW c \in Clients, ShutNext(c) PROVE QueueTypes'
    <3>1. UNCHANGED <<evtq, hand, ticking, loc>> /\ asleep' \subseteq Threads /\ online' \subseteq Threads
      BY <1>0, <2>1 DEF ShutNext, Wakeup, schedVars, QueueTypes
    <3> QED BY <1>0, <1>5, <2>1, <3>1 DEF ShutNext, QueueTypes
  <2>2. ASSUME NEW c \in Clients, SweepNext(c) PROVE QueueTypes'
    <3>1. UNCHANGED <<ring, prioCur, hand, ticking, loc>> /\ asleep' \subseteq Threads /\ online' \subseteq Threads
      BY <1>0, <2>2 DEF SweepNext, Wakeup, schedVars, QueueTypes
    <3>2. evtq # <<>> /\ evtq' = Tail(evtq)
      BY <2>2 DEF SweepNext
    <3>3. evtq' \in Seq(Clients)
      BY <1>0, <3>2 DEF QueueTypes
    <3>4. signal' \in 0 .. SignalMod - 1
      BY <1>0, <2>2, SignalType DEF SweepNext, SweepCount, QueueTypes
    <3> QED BY <1>0, <3>1, <3>3, <3>4 DEF QueueTypes
  <2>3. ASSUME ShutEnd \/ SweepAgain \/ Closed \/ \E c \in Clients : Close(c) PROVE QueueTypes'
    <3>1. UNCHANGED <<evtq, ring, prioCur, hand, ticking>> /\ signal' \in {0, signal}
          /\ asleep' \subseteq Threads /\ online' \subseteq Threads
      BY <1>0, <2>3 DEF ShutEnd, SweepAgain, Closed, Close, queueVars, schedVars, QueueTypes
    <3>2. loc' \in [Threads -> ClientLocs \cup ServerLocs]
      BY <1>3, <2>3 DEF ShutEnd, SweepAgain, Closed, Close, Goto
    <3>3. signal' \in 0 .. SignalMod - 1
      BY <1>0, <3>1, Consts DEF QueueTypes
    <3> QED BY <1>0, <3>1, <3>2, <3>3 DEF QueueTypes
  <2> QED BY <1>7, <2>1, <2>2, <2>3 DEF CloseDoes
<1>8. CASE UNCHANGED vars
  BY <1>0, <1>8 DEF vars, queueVars, schedVars, QueueTypes
<1> QED BY <1>1, <1>2, <1>4, <1>6, <1>7, <1>8, StepIs

\* Each step keeps the types of what the clients see.
LEMMA UsersTyped ==
  ASSUME TypeOK, [Next]_vars, loc[Server] \in {"took", "serve", "answer"} => tag[Server] \in Clients
  PROVE  UserTypes'
<1>0. /\ UserTypes /\ Server \in Threads /\ Clients \subseteq Threads /\ mode' = mode
      /\ mode.calls \in Nat
  <2>1. UserTypes /\ mode' = mode
    BY ModeSame, TypesAre
  <2>2. mode \in Circumstance
    BY <2>1, ConstAssumption DEF UserTypes
  <2> QED BY <2>1, <2>2, Consts DEF Circumstance
<1>1. ASSUME NEW c \in Clients, ClientDoes(c) PROVE UserTypes'
  <2>1. CASE \E op \in Ops : Send(c, op)
    <3> PICK op \in Ops : Send(c, op)
      BY <2>1
    <3>1. calls[c] \in Nat /\ calls[c] + 1 \in 0 .. mode.calls
      BY <1>0 DEF Send, UserTypes
    <3>2. <<c, calls[c] + 1, op>> \in Msgs
      BY <3>1, ConstAssumption DEF Msgs
    <3>3. calls' = [calls EXCEPT ![c] = calls[c] + 1] /\ msg' = [msg EXCEPT ![c] = <<c, calls[c] + 1, op>>]
          /\ (result' = [result EXCEPT ![c] = "OK"] \/ result' = [result EXCEPT ![c] = "NOT_SER"])
      BY DEF Send
    <3> QED BY <1>0, <3>1, <3>2, <3>3 DEF UserTypes
  <2>2. CASE ~ \E op \in Ops : Send(c, op)
    <3>1. UNCHANGED <<msg, calls>> /\ result' \in {result, [result EXCEPT ![c] = "STATE"]}
      BY <1>1, <2>2 DEF ClientDoes, Kernel, Queue, Finish, NapOver, Nap, Stray, userVars
    <3> QED BY <1>0, <3>1 DEF UserTypes
  <2> QED BY <2>1, <2>2
<1>2. CASE TickDoes
  BY <1>0, <1>2 DEF TickDoes, TickEvent, TickPlain, TickDecided, TickExpire, userVars, UserTypes
<1>3. CASE ServerDoes
  BY <1>0, <1>3 DEF ServerDoes, Recv, Drain, Event, Check, Resume, PickNone, userVars, UserTypes
<1>4. ASSUME NEW c \in Clients, ServesDoes(c) PROVE UserTypes'
  <2>1. /\ UNCHANGED <<calls, result>>
        /\ msg' \in {msg, [msg EXCEPT ![Server] = msg[c]], [msg EXCEPT ![c] = ReplyMsg(c)]}
    BY <1>4 DEF ServesDoes, Pick, InTimeout, InSend, InCall, Took, Answer, Reply, userVars, Copied
  <2>2. msg[c] \in Msgs /\ msg[Server] \in Msgs
    BY <1>0 DEF UserTypes
  <2>3. ReplyMsg(c) \in Msgs
    BY <2>2 DEF ReplyMsg, Msgs
  <2>4. msg' \in [Threads -> Msgs]
    BY <1>0, <2>1, <2>2, <2>3 DEF UserTypes
  <2> QED BY <1>0, <2>1, <2>4 DEF UserTypes
<1>5. CASE CloseDoes
  <2>1. UNCHANGED <<msg, calls>> /\ result' \in {result, [result EXCEPT ![Server] = "OK"],
                                                [result EXCEPT ![Server] = "SER_SIGNAL"]}
    BY <1>5 DEF CloseDoes, ShutEnd, SweepAgain, Closed, Close, ShutNext, SweepNext, userVars
  <2> QED BY <1>0, <2>1 DEF UserTypes
<1>6. CASE UNCHANGED vars
  BY <1>0, <1>6 DEF vars, userVars, UserTypes
<1> QED BY <1>1, <1>2, <1>3, <1>4, <1>5, <1>6, StepIs
-----------------------------------------------------------------------------
(* Where the threads are, whatever the circumstances.                         *)
Located ==
    /\ loc[Server] \in ServerLocs /\ \A c \in Clients : loc[c] \in ClientLocs
    /\ hand # None <=> loc[Server] = "event"
    /\ loc[Server] \in {"in", "took", "serve", "answer"} => tag[Server] \in Clients
    /\ loc[Server] \in {"user", "drain", "event", "check", "pended", "pick"} => tag[Server] = None
    /\ tag[Server] # Server
    /\ online \subseteq asleep
    /\ Server \in asleep => loc[Server] \in {"pended", "resweep"}
    /\ Server \in online => loc[Server] = "resweep"
    /\ word[Server] \subseteq {"SER", "SER_PEND"}
    /\ "SER_PEND" \in word[Server] <=> loc[Server] = "pended" /\ Server \in asleep
    /\ Distinct(evtq)

\* A client sleeps in an IPC or in a nap; in an IPC it is marked and aims at the
\* service, and it is awake at the end only with a decision.  The remote words hold
\* nothing that is the client's own.
Situated(c) ==
    /\ c \in asleep => loc[c] \in {"wait", "nap"}
    /\ loc[c] = "wait" => "IN_IPC" \in word[c]
    /\ loc[c] = "wait" /\ c \notin asleep => "READY" \in word[c]
    /\ loc[c] \in {"idle", "nap"} => /\ word[c] \subseteq TsMask /\ tag[c] = None
                                     /\ "IN_IPC" \in word[c] => "READY" \in word[c]
    /\ loc[c] \in {"queue", "kernel", "wait"} =>
           /\ tag[c] = Server
           /\ word[c] \cap SMask = {"SEND_WT"} \cup ({"RECV"} \cap word[c])
    /\ ticking = c => loc[c] = "wait" /\ c \in asleep /\ "READY" \in word[c]
    /\ rmAdd[c] \subseteq EsMask \cup SMask /\ rmDel[c] \cap TsMask = {}

Base == TypeOK /\ OwnRings /\ Located /\ \A c \in Clients : Situated(c)

\* Types are kept.
LEMMA TypesKept ==
  ASSUME Base, [Next]_vars
  PROVE  TypeOK'
<1>1. hand = None => loc[Server] # "event"
  BY DEF Base, Located
<1>2. loc[Server] \in {"took", "serve", "answer"} => tag[Server] \in Clients
  BY DEF Base, Located
<1>3. WordTypes' /\ QueueTypes' /\ UserTypes'
  BY <1>1, <1>2, WordsTyped, QueuesTyped, UsersTyped DEF Base, Located
<1> QED BY <1>3 DEF TypeOK, WordTypes, QueueTypes, UserTypes

\* The head of the event queue.
LEMMA HeadIs ==
  ASSUME evtq \in Seq(Clients), Distinct(evtq), evtq # <<>>
  PROVE  /\ Head(evtq) \in Clients /\ Head(evtq) \in Queued /\ Tail(evtq) \in Seq(Clients)
         /\ Distinct(Tail(evtq)) /\ Members(Tail(evtq)) = Queued \ {Head(evtq)}
BY TailFacts DEF Queued

\* Requests stay in their rings.
LEMMA RingsKept ==
  ASSUME Base, [Next]_vars
  PROVE  OwnRings'
<1>0. TypeOK /\ OwnRings /\ Located /\ QueueTypes /\ Priority \in [Clients -> Prios]
  BY TypesAre, Consts DEF Base
<1>1. CASE UNCHANGED ring
  BY <1>0, <1>1 DEF OwnRings
<1>2. ASSUME NEW c \in Clients, PlistInsert(c) PROVE OwnRings'
  <2> DEFINE p == Priority[c]
  <2>1. p \in Prios /\ ring[p] \in Seq(Clients)
    BY <1>0 DEF QueueTypes
  <2>2. ring' = [ring EXCEPT ![p] = Append(ring[p], c)]
    BY <1>2 DEF PlistInsert
  <2>3. Members(Append(ring[p], c)) = Members(ring[p]) \cup {c}
    BY <2>1, AppendFacts
  <2>4. \A q \in Prios : ring'[q] = IF q = p THEN Append(ring[p], c) ELSE ring[q]
    BY <1>0, <2>1, <2>2 DEF QueueTypes
  <2> QED BY <1>0, <2>3, <2>4 DEF OwnRings
<1>3. ASSUME NEW c \in Clients, PlistRemove(c), c \in Listed PROVE OwnRings'
  <2> DEFINE p == Priority[c]
  <2>1. p \in Prios /\ ring[p] \in Seq(Clients) /\ c \in Members(ring[p])
    BY <1>0, <1>3 DEF QueueTypes, Listed, OwnRings
  <2>2. ring' = [ring EXCEPT ![p] = Without(ring[p], c)]
    BY <1>3 DEF PlistRemove
  <2>3. Members(Without(ring[p], c)) \subseteq Members(ring[p])
    BY <2>1, WithoutFacts
  <2>4. \A q \in Prios : ring'[q] = IF q = p THEN Without(ring[p], c) ELSE ring[q]
    BY <1>0, <2>1, <2>2 DEF QueueTypes
  <2> QED BY <1>0, <2>3, <2>4 DEF OwnRings
<1>4. ASSUME NEW c \in Clients, RecvNext(c) PROVE OwnRings'
  <2>1. prioCur \in Prios /\ ring[prioCur] \in Seq(Clients) /\ ring[prioCur] # <<>>
    BY <1>0, <1>4 DEF QueueTypes, RecvNext, PlistNext
  <2>2. ring' = [ring EXCEPT ![prioCur] = Tail(ring[prioCur])]
    BY <1>4 DEF RecvNext, PlistNext
  <2>3. Members(Tail(ring[prioCur])) \subseteq Members(ring[prioCur])
    <3> DEFINE s == ring[prioCur]
    <3>1. Len(Tail(s)) = Len(s) - 1 /\ \A i \in 1 .. Len(Tail(s)) : Tail(s)[i] = s[i + 1]
      BY <2>1
    <3> QED BY <2>1, <3>1 DEF Members
  <2>4. \A q \in Prios : ring'[q] = IF q = prioCur THEN Tail(ring[prioCur]) ELSE ring[q]
    BY <1>0, <2>1, <2>2 DEF QueueTypes
  <2> QED BY <1>0, <2>3, <2>4 DEF OwnRings
<1>5. ASSUME NEW c \in Clients, ClientDoes(c) PROVE UNCHANGED ring
  BY <1>5 DEF ClientDoes, Kernel, Queue, Finish, NapOver, Nap, Stray, Send, queueVars
<1>6. TickDoes => UNCHANGED ring
  BY DEF TickDoes, TickEvent, TickPlain, TickDecided, TickExpire, queueVars
<1>7. ServerDoes => UNCHANGED ring \/ PlistInsert(hand) \/ (hand \in Listed /\ PlistRemove(hand))
  BY DEF ServerDoes, Recv, Drain, Event, Check, Resume, PickNone, queueVars
<1>8. ServerDoes /\ ~UNCHANGED ring => hand \in Clients
  BY <1>0 DEF ServerDoes, Recv, Drain, Event, Check, Resume, PickNone, queueVars, At, Located, QueueTypes
<1>9. ASSUME NEW c \in Clients, ServesDoes(c) PROVE UNCHANGED ring \/ RecvNext(c)
  BY <1>9 DEF ServesDoes, Pick, InTimeout, InSend, InCall, Took, Answer, Reply, queueVars
<1>10. CloseDoes => UNCHANGED ring \/ \E c \in Clients : RecvNext(c)
  BY DEF CloseDoes, ShutEnd, SweepAgain, Closed, Close, ShutNext, SweepNext, queueVars
<1>11. UNCHANGED vars => UNCHANGED ring
  BY DEF vars, queueVars
<1> QED BY <1>1, <1>2, <1>3, <1>4, <1>5, <1>6, <1>7, <1>8, <1>9, <1>10, <1>11, StepIs


\* Each step leaves the threads where Located says.
LEMMA LocatedKept ==
  ASSUME Base, [Next]_vars
  PROVE  Located'
<1>0. /\ WordTypes /\ QueueTypes /\ Located /\ Server \in Threads /\ Clients \subseteq Threads
      /\ Server \notin Clients /\ None \notin Clients /\ None # Server
      /\ \A c \in Clients : Situated(c)
  BY Consts, TypesAre DEF Base
<1>1. ASSUME NEW c \in Clients, ClientDoes(c) PROVE Located'
  <2>1. Distinct(evtq')
    BY <1>0, <1>1, JoinedIs DEF ClientDoes, Kernel, Queue, EvtqInsert, Finish, NapOver, Nap, Stray, Send, queueVars,
       Located, QueueTypes
  <2>2. UNCHANGED <<hand>> /\ loc'[Server] = loc[Server] /\ tag'[Server] = tag[Server]
        /\ word'[Server] \subseteq word[Server]
    BY <1>0, <1>1 DEF ClientDoes, Kernel, Queue, EvtqInsert, Finish, NapOver, Nap, Stray, Send, Ready, Goto, ipcVars,
       WordTypes, QueueTypes
  <2>3. \A d \in Clients : loc'[d] \in ClientLocs
    BY <1>0, <1>1 DEF ClientDoes, Kernel, Queue, Finish, NapOver, Nap, Stray, Send, Goto, ClientLocs,
       Located, QueueTypes
  <2>4. online' \subseteq asleep'
    <3>1. CASE Kernel(c)
      BY <1>0, <3>1 DEF Kernel, Woken, Has, Located
    <3>2. CASE ~Kernel(c)
      BY <1>0, <1>1, <3>2 DEF ClientDoes, Queue, Finish, NapOver, Nap, Stray, Send, Wakeup, schedVars, At, Located
    <3> QED BY <3>1, <3>2
  <2>5. (Server \in online' => Server \in online) /\ (Server \in asleep' => Server \in asleep)
    BY <1>0, <1>1 DEF ClientDoes, Kernel, Queue, Finish, NapOver, Nap, Stray, Send, Wakeup, schedVars
  <2>6. "SER_PEND" \in word'[Server] <=> loc[Server] = "pended" /\ Server \in asleep'
    <3>1. CASE Kernel(c)
      <4>1. "SER_PEND" \notin word'[Server]
        BY <1>0, <3>1 DEF Kernel, WordTypes
      <4>2. Server \in asleep' => loc[Server] # "pended"
        BY <1>0, <3>1 DEF Kernel, Woken, Has, Located
      <4> QED BY <4>1, <4>2
    <3>2. CASE ~Kernel(c)
      <4>1. word'[Server] = word[Server]
        BY <1>0, <1>1, <3>2 DEF ClientDoes, Queue, EvtqInsert, Finish, NapOver, Nap, Stray, Send, Ready, ipcVars, WordTypes
      <4>2. Server \in asleep' <=> Server \in asleep
        BY <1>0, <1>1, <3>2 DEF ClientDoes, Queue, Finish, NapOver, Nap, Stray, Send, Wakeup, schedVars
      <4> QED BY <1>0, <4>1, <4>2 DEF Located
    <3> QED BY <3>1, <3>2
  <2> QED BY <1>0, <2>1, <2>2, <2>3, <2>4, <2>5, <2>6 DEF Located
<1>2. CASE TickDoes
  <2>1. Distinct(evtq')
    BY <1>0, <1>2, JoinedIs DEF TickDoes, TickEvent, TickPlain, TickDecided, TickExpire, EvtqInsert, queueVars,
       Located, QueueTypes
  <2>2. UNCHANGED <<hand, loc, tag>> /\ word'[Server] = word[Server]
    BY <1>0, <1>2 DEF TickDoes, TickEvent, TickPlain, TickDecided, TickExpire, EvtqInsert, Ready, ipcVars,
       WordTypes, QueueTypes
  <2>3. online' \subseteq asleep' /\ asleep' \subseteq asleep /\ online' \subseteq online
    BY <1>0, <1>2 DEF TickDoes, TickEvent, TickPlain, TickDecided, TickExpire, schedVars, Located
  <2>4. loc[Server] = "pended" /\ Server \in asleep => Server \in asleep'
    BY <1>0, <1>2 DEF TickDoes, TickEvent, TickPlain, TickDecided, TickExpire, schedVars, Located
  <2> QED BY <1>0, <2>1, <2>2, <2>3, <2>4 DEF Located
<1>3. CASE ServerDoes
  <2>1. Distinct(evtq')
    BY <1>0, <1>3, HeadIs DEF ServerDoes, Recv, Drain, Event, Check, Resume, PickNone, queueVars,
       Located, QueueTypes
  <2>2. UNCHANGED tag /\ word'[Server] \subseteq {"SER", "SER_PEND"}
    BY <1>0, <1>3 DEF ServerDoes, Recv, Drain, Event, Check, Resume, PickNone, ipcVars, Located, WordTypes
  <2>3. (hand' # None <=> loc'[Server] = "event") /\ loc'[Server] \in {"drain", "event", "check", "pended", "pick"}
    BY <1>0, <1>3, HeadIs DEF ServerDoes, Recv, Drain, Event, Check, Resume, PickNone, Goto, At, Located, QueueTypes
  <2>4. \A d \in Clients : loc'[d] = loc[d]
    BY <1>0, <1>3 DEF ServerDoes, Recv, Drain, Event, Check, Resume, PickNone, Goto, QueueTypes
  <2>5. online' \subseteq asleep' /\ (Server \in asleep' => loc'[Server] = "pended")
    BY <1>0, <1>3 DEF ServerDoes, Recv, Drain, Event, Check, Resume, PickNone, Goto, At, Wakeup, schedVars, Located,
       QueueTypes
  <2>6. tag[Server] = None /\ Server \notin asleep /\ Server \notin online
    BY <1>0, <1>3 DEF ServerDoes, Recv, Drain, Event, Check, Resume, PickNone, At, Located
  <2>7. online' \subseteq online
    BY <1>3 DEF ServerDoes, Recv, Drain, Event, Check, Resume, PickNone, Wakeup, schedVars
  <2>8. "SER_PEND" \in word'[Server] <=> loc'[Server] = "pended" /\ Server \in asleep'
    <3>1. CASE Check
      BY <1>0, <2>6, <3>1 DEF Check, At, Goto, Located, WordTypes, QueueTypes
    <3>2. CASE ~Check
      <4>1. ("SER_PEND" \in word'[Server] <=> "SER_PEND" \in word[Server]) /\ Server \notin asleep'
        BY <1>0, <1>3, <2>6, <3>2 DEF ServerDoes, Recv, Drain, Event, Resume, PickNone, ipcVars, schedVars, Wakeup,
           WordTypes
      <4> QED BY <1>0, <2>6, <4>1 DEF Located
    <3> QED BY <3>1, <3>2
  <2> QED BY <1>0, <2>1, <2>2, <2>3, <2>4, <2>5, <2>6, <2>7, <2>8 DEF Located, ServerLocs
<1>4. ASSUME NEW c \in Clients, ServesDoes(c) PROVE Located'
  <2>1. UNCHANGED <<evtq, hand>> /\ loc[Server] # "event" /\ Server \notin asleep
    BY <1>4 DEF ServesDoes, Pick, InTimeout, InSend, InCall, Took, Answer, Reply, queueVars, At
  <2>2. word'[Server] = word[Server]
    BY <1>0, <1>4 DEF ServesDoes, Pick, InTimeout, InSend, InCall, Took, Answer, Reply, Ready, Settle, WordTypes
  <2>3. \/ loc'[Server] \in {"user", "drain"} /\ tag'[Server] = None
        \/ loc'[Server] \in {"in", "took", "serve", "answer"} /\ tag'[Server] = c
    BY <1>0, <1>4 DEF ServesDoes, Pick, InTimeout, InSend, InCall, Took, Answer, Reply, Goto, At, WordTypes, QueueTypes
  <2>4. \A d \in Clients : loc'[d] = loc[d]
    BY <1>0, <1>4 DEF ServesDoes, Pick, InTimeout, InSend, InCall, Took, Answer, Reply, Goto, QueueTypes
  <2>5. online' \subseteq asleep' /\ Server \notin asleep' /\ Server \notin online'
    BY <1>0, <1>4, <2>1 DEF ServesDoes, Pick, InTimeout, InSend, InCall, Took, Answer, Reply, Wakeup, Settle, schedVars,
       Located
  <2> QED BY <1>0, <2>1, <2>2, <2>3, <2>4, <2>5 DEF Located, ServerLocs
<1>5. CASE CloseDoes
  <2>1. Distinct(evtq') /\ UNCHANGED hand /\ loc[Server] # "event"
    BY <1>0, <1>5, HeadIs DEF CloseDoes, ShutEnd, SweepAgain, Closed, Close, ShutNext, SweepNext, queueVars, At,
       Located, QueueTypes
  <2>2. word'[Server] \subseteq word[Server]
    BY <1>0, <1>5 DEF CloseDoes, ShutEnd, SweepAgain, Closed, Close, ShutNext, SweepNext, ipcVars, Ready, WordTypes
  <2>3. \/ loc'[Server] = "user" /\ tag'[Server] = None
        \/ loc'[Server] \in {"shut", "sweep", "resweep"} /\ tag'[Server] \in {tag[Server], None}
    BY <1>0, <1>5 DEF CloseDoes, ShutEnd, SweepAgain, Closed, Close, ShutNext, SweepNext, ipcVars, Goto, At, WordTypes,
       QueueTypes
  <2>4. \A d \in Clients : loc'[d] = loc[d]
    BY <1>0, <1>5 DEF CloseDoes, ShutEnd, SweepAgain, Closed, Close, ShutNext, SweepNext, Goto, QueueTypes
  <2>5. online' \subseteq asleep' /\ (Server \in asleep' => loc'[Server] = "resweep")
        /\ "SER_PEND" \notin word[Server]
    BY <1>0, <1>5 DEF CloseDoes, ShutEnd, SweepAgain, Closed, Close, ShutNext, SweepNext, Wakeup, schedVars, At, Goto,
       Located, QueueTypes
  <2> QED BY <1>0, <2>1, <2>2, <2>3, <2>4, <2>5 DEF Located, ServerLocs
<1>6. CASE UNCHANGED vars
  BY <1>0, <1>6 DEF vars, ipcVars, queueVars, schedVars, Located
<1> QED BY <1>1, <1>2, <1>3, <1>4, <1>5, <1>6, StepIs

\* Each step leaves a client where Situated says.
LEMMA SituatedKept ==
  ASSUME Base, [Next]_vars, NEW c \in Clients
  PROVE  Situated(c)'
<1>0. /\ WordTypes /\ QueueTypes /\ Located /\ Server \in Threads /\ Clients \subseteq Threads
      /\ c \in Threads /\ c # Server /\ None \notin Clients /\ None # Server /\ c # None /\ Situated(c)
  BY Consts, TypesAre DEF Base
<1>1. ASSUME word'[c] = word[c], rmAdd'[c] = rmAdd[c], rmDel'[c] = rmDel[c], tag'[c] = tag[c],
             loc'[c] = loc[c], c \in asleep' <=> c \in asleep, ticking' = c => ticking = c
      PROVE  Situated(c)'
  BY <1>0, <1>1 DEF Situated
<1>2. ASSUME NEW d \in Clients, d # c, ClientDoes(d) PROVE Situated(c)'
  <2>1. /\ word'[c] = word[c] /\ rmAdd'[c] = rmAdd[c] /\ rmDel'[c] = rmDel[c] /\ tag'[c] = tag[c]
        /\ loc'[c] = loc[c] /\ ticking' = ticking
    BY <1>0, <1>2 DEF ClientDoes, Kernel, Queue, EvtqInsert, Finish, NapOver, Nap, Stray, Send, Ready, Goto, ipcVars,
       WordTypes, QueueTypes
  <2>2. c \in asleep' <=> c \in asleep
    BY <1>0, <1>2 DEF ClientDoes, Kernel, Queue, Finish, NapOver, Nap, Stray, Send, Wakeup, Woken, schedVars
  <2> QED BY <1>1, <2>1, <2>2
<1>3. CASE ClientDoes(c)
  <2>1. CASE Kernel(c)
    <3>1. /\ word'[c] = word[c] \cup {"IN_IPC"} /\ rmAdd'[c] = rmAdd[c] /\ rmDel'[c] = rmDel[c] /\ tag'[c] = tag[c]
          /\ loc'[c] = "wait" /\ ticking' = ticking /\ ticking = None /\ c \in asleep' /\ loc[c] = "kernel"
      BY <1>0, <2>1 DEF Kernel, Goto, At, KernelFree, WordTypes, QueueTypes
    <3> QED BY <1>0, <3>1 DEF Situated, SMask
  <2>2. CASE Queue(c)
    <3>1. /\ word'[c] = word[c] \cup {"REQUEST"} /\ rmAdd'[c] = rmAdd[c] /\ rmDel'[c] = rmDel[c] /\ tag'[c] = tag[c]
          /\ loc'[c] = "kernel" /\ ticking' = ticking /\ asleep' = asleep /\ loc[c] = "queue" /\ c \notin asleep
      BY <1>0, <2>2 DEF Queue, EvtqInsert, Goto, At, schedVars, WordTypes, QueueTypes
    <3> QED BY <1>0, <3>1 DEF Situated, SMask
  <2>3. CASE Finish(c)
    <3>1. /\ word'[c] = ((word[c] \ rmDel[c]) \cup rmAdd[c]) \cap TsMask /\ rmAdd'[c] = {} /\ rmDel'[c] = {}
          /\ tag'[c] = None
          /\ loc'[c] = "idle" /\ ticking' = ticking /\ asleep' = asleep /\ loc[c] = "wait" /\ c \notin asleep
          /\ "READY" \in word[c]
      BY <1>0, <2>3 DEF Finish, Has, Goto, At, schedVars, WordTypes, QueueTypes
    <3>2. "READY" \in word'[c]
      BY <1>0, <3>1 DEF Situated, TsMask
    <3> QED BY <1>0, <3>1, <3>2 DEF Situated
  <2>4. CASE Nap(c) \/ NapOver(c)
    <3>1. /\ word'[c] = word[c] /\ rmAdd'[c] = rmAdd[c] /\ rmDel'[c] = rmDel[c] /\ tag'[c] = tag[c]
          /\ ticking' = ticking /\ loc[c] \in {"idle", "nap"} /\ loc'[c] \in {"idle", "nap"}
          /\ (c \in asleep' => loc'[c] = "nap")
      BY <1>0, <2>4 DEF Nap, NapOver, Goto, At, ipcVars, schedVars, WordTypes, QueueTypes
    <3> QED BY <1>0, <3>1 DEF Situated
  <2>5. CASE Stray(c)
    <3>1. /\ word'[c] = word[c] /\ rmAdd'[c] = rmAdd[c] /\ rmDel'[c] = rmDel[c] /\ tag'[c] = tag[c]
          /\ ticking' = ticking /\ loc'[c] = loc[c] /\ c \in asleep
      BY <2>5 DEF Stray
    <3>2. c \in asleep' \/ (ticking = None /\ ("IN_IPC" \in word[c] => "READY" \in word[c]))
      BY <1>0, <2>5 DEF Stray, Wakeup, KernelFree, schedVars
    <3> QED BY <1>0, <3>1, <3>2 DEF Situated
  <2>6. ASSUME NEW op \in Ops, Send(c, op) PROVE Situated(c)'
    <3>1. /\ rmAdd'[c] = rmAdd[c] /\ rmDel'[c] = rmDel[c] /\ loc[c] = "idle" /\ c \notin asleep
          /\ ticking' = ticking /\ asleep' = asleep
      BY <1>0, <2>6 DEF Send, At, schedVars
    <3>2. \/ /\ word'[c] = word[c] \cup {"READY"} /\ tag'[c] = tag[c] /\ loc'[c] = "idle"
          \/ /\ tag'[c] = Server /\ loc'[c] = "queue"
             /\ \/ word'[c] = (word[c] \ {"READY"}) \cup {"SEND_WT"}
                \/ word'[c] = (word[c] \ {"READY"}) \cup {"SEND_WT"} \cup {"RECV"}
      BY <1>0, <2>6, <3>1 DEF Send, Ready, Goto, WordTypes, QueueTypes
    <3> QED BY <1>0, <3>1, <3>2 DEF Situated, SMask, TsMask
  <2> QED BY <1>3, <2>1, <2>2, <2>3, <2>4, <2>5, <2>6 DEF ClientDoes
<1>4. CASE TickDoes
  <2>1. CASE TickEvent
    <3>1. /\ \E e \in {"TIMEOUT"} : word'[c] = word[c] \/ word'[c] = word[c] \cup {e}
          /\ rmAdd'[c] = rmAdd[c] /\ rmDel'[c] = rmDel[c] /\ tag'[c] = tag[c]
          /\ loc'[c] = loc[c] /\ ticking' = None /\ asleep' = asleep
          /\ word'[c] # word[c] => ticking = c
      BY <1>0, <2>1 DEF TickEvent, EvtqInsert, schedVars, WordTypes, QueueTypes
    <3> QED BY <1>0, <3>1 DEF Situated, SMask
  <2>2. ASSUME NEW t \in Threads, TickPlain(t) PROVE Situated(c)'
    <3>1. /\ word'[c] = word[c] /\ rmAdd'[c] = rmAdd[c] /\ rmDel'[c] = rmDel[c] /\ tag'[c] = tag[c]
          /\ loc'[c] = loc[c] /\ ticking' = ticking /\ ticking = None
      BY <2>2 DEF TickPlain, KernelFree, ipcVars
    <3>2. asleep' = asleep \ {t} /\ t \in online /\ "IN_IPC" \notin word[t]
      BY <2>2 DEF TickPlain, Has
    <3> QED BY <1>0, <3>1, <3>2 DEF Situated, Located
  <2>3. ASSUME NEW d \in Clients, TickDecided(d) PROVE Situated(c)'
    <3>1. /\ word'[c] = word[c] /\ rmAdd'[c] = rmAdd[c] /\ rmDel'[c] = rmDel[c] /\ tag'[c] = tag[c]
          /\ loc'[c] = loc[c] /\ ticking' = ticking /\ asleep' = asleep
      BY <2>3 DEF TickDecided, ipcVars
    <3> QED BY <1>1, <3>1
  <2>4. ASSUME NEW d \in Clients, TickExpire(d) PROVE Situated(c)'
    <3>1. /\ rmDel'[c] = rmDel[c] \cup {} /\ tag'[c] = tag[c] /\ rmAdd'[c] \subseteq rmAdd[c] \cup {"ES_TIMEOUT"}
          /\ loc'[c] = loc[c] /\ ticking' \in {ticking, d} /\ asleep' = asleep
          /\ ticking = None /\ d \in asleep
      BY <1>0, <2>4 DEF TickExpire, RmStateChange, KernelFree, WordTypes, Located
    <3>2. CASE d # c
      <4>1. word'[c] = word[c] /\ ticking' # c /\ rmAdd'[c] = rmAdd[c]
        BY <1>0, <2>4, <3>1, <3>2 DEF TickExpire, RmStateChange, Ready, WordTypes
      <4> QED BY <1>1, <3>1, <4>1
    <3>3. CASE d = c
      <4>1. word'[c] \in {word[c] \cup {"READY"}, word[c] \cup {"READY", "TIMEOUT"}} /\ "IN_IPC" \in word[c]
            /\ "READY" \notin word[c]
        BY <1>0, <2>4, <3>3 DEF TickExpire, Ready, Has, WordTypes
      <4>2. loc[c] = "wait"
        BY <1>0, <3>1, <3>3, <4>1 DEF Situated
      <4>3. rmAdd'[c] \subseteq EsMask \cup SMask
        BY <1>0, <3>1 DEF Situated, EsMask
      <4> QED BY <1>0, <3>1, <3>3, <4>1, <4>2, <4>3 DEF Situated, SMask
    <3> QED BY <3>2, <3>3
  <2> QED BY <1>4, <2>1, <2>2, <2>3, <2>4 DEF TickDoes
<1>5. ASSUME word'[c] = word[c] \/ word'[c] = word[c] \cup {"READY"}, tag'[c] = tag[c], loc'[c] = loc[c],
             ticking' = ticking,
             rmAdd'[c] \subseteq rmAdd[c] \cup EsMask \cup SMask, rmDel'[c] \cap TsMask \subseteq rmDel[c],
             c \in asleep' => c \in asleep,
             c \in asleep => c \in asleep' \/ (ticking = None /\ ("IN_IPC" \in word'[c] => "READY" \in word'[c]))
      PROVE  Situated(c)'
  <2>1. rmAdd'[c] \subseteq EsMask \cup SMask /\ rmDel'[c] \cap TsMask = {}
    BY <1>0, <1>5 DEF Situated
  <2>2. word'[c] \subseteq word[c] \cup {"READY"} /\ word[c] \subseteq word'[c]
        /\ word'[c] \cap SMask = word[c] \cap SMask /\ {"RECV"} \cap word'[c] = {"RECV"} \cap word[c]
    BY <1>5 DEF SMask
  <2> QED BY <1>0, <1>5, <2>1, <2>2 DEF Situated, TsMask
<1>6. EvtsMask \cap TsMask = {} /\ EsMask \cap TsMask = {} /\ {"SEND_WT", "RECV", "RECV_WT"} \cap TsMask = {}
      /\ {"ES_ERROR", "SEND_FI", "RECV_FI", "RECV_WT"} \subseteq EsMask \cup SMask
  BY DEF EvtsMask, EsMask, SMask, TsMask
<1>7. ASSUME NEW d \in Clients, NEW del, NEW add, RmStateChange(d, del, add), del \cap TsMask = {},
             add \subseteq EsMask \cup SMask
      PROVE  rmAdd'[c] \subseteq rmAdd[c] \cup EsMask \cup SMask /\ rmDel'[c] \cap TsMask \subseteq rmDel[c]
  <2>1. CASE d = c
    <3>1. rmAdd'[c] = (rmAdd[c] \ del) \cup add /\ rmDel'[c] = rmDel[c] \cup del
      BY <1>0, <1>7, <2>1 DEF RmStateChange, WordTypes
    <3> QED BY <1>7, <3>1
  <2>2. CASE d # c
    <3>1. rmAdd'[c] = rmAdd[c] /\ rmDel'[c] = rmDel[c]
      BY <1>0, <1>7, <2>2 DEF RmStateChange, WordTypes
    <3> QED BY <3>1
  <2> QED BY <2>1, <2>2
<1>8. CASE ServerDoes
  <2>1. /\ word'[c] = word[c] /\ tag'[c] = tag[c] /\ loc'[c] = loc[c] /\ ticking' = ticking
    BY <1>0, <1>8 DEF ServerDoes, Recv, Drain, Event, Check, Resume, PickNone, Goto, ipcVars, WordTypes, QueueTypes
  <2>2. (c \in asleep' => c \in asleep)
        /\ (c \in asleep => c \in asleep' \/ (ticking = None /\ ("IN_IPC" \in word'[c] => "READY" \in word'[c])))
    BY <1>0, <1>8 DEF ServerDoes, Recv, Drain, Event, Check, Resume, PickNone, Wakeup, KernelFree, schedVars
  <2>3. CASE Event /\ RmStateChange(hand, EvtsMask, {})
    <3>1. hand \in Clients
      BY <1>0, <2>3 DEF Event, At, Located, QueueTypes
    <3> QED BY <1>5, <1>6, <1>7, <2>1, <2>2, <2>3, <3>1
  <2>4. CASE UNCHANGED <<rmAdd, rmDel>>
    BY <1>5, <2>1, <2>2, <2>4
  <2> QED BY <1>8, <2>3, <2>4 DEF ServerDoes, Recv, Drain, Event, Check, Resume, PickNone, ipcVars
<1>9. ASSUME NEW d \in Clients, ServesDoes(d) PROVE Situated(c)'
  <2>1. /\ word'[c] = word[c] \/ word'[c] = word[c] \cup {"READY"}
        /\ tag'[c] = tag[c] /\ loc'[c] = loc[c] /\ ticking' = ticking
    BY <1>0, <1>9 DEF ServesDoes, Pick, InTimeout, InSend, InCall, Took, Answer, Reply, Ready, Settle, Goto, WordTypes,
       QueueTypes
  <2>2. (c \in asleep' => c \in asleep)
        /\ (c \in asleep => c \in asleep' \/ (ticking = None /\ ("IN_IPC" \in word'[c] => "READY" \in word'[c])))
    BY <1>0, <1>9 DEF ServesDoes, Pick, InTimeout, InSend, InCall, Took, Answer, Reply, Wakeup, Settle, KernelFree,
       schedVars
  <2>3. \/ UNCHANGED <<rmAdd, rmDel>>
        \/ RmStateChange(d, {"SEND_WT", "RECV"}, {"RECV_WT"})
        \/ RmStateChange(d, {"SEND_WT"}, {"SEND_FI"})
        \/ RmStateChange(d, {"RECV_WT"}, {"RECV_FI"})
        \/ RmStateChange(d, {}, {"ES_ERROR"})
    BY <1>9 DEF ServesDoes, Pick, InTimeout, InSend, InCall, Took, Answer, Reply
  <2>4. rmAdd'[c] \subseteq rmAdd[c] \cup EsMask \cup SMask /\ rmDel'[c] \cap TsMask \subseteq rmDel[c]
    <3>1. CASE UNCHANGED <<rmAdd, rmDel>>
      BY <3>1
    <3>2. CASE RmStateChange(d, {"SEND_WT", "RECV"}, {"RECV_WT"})
      BY <1>6, <1>7, <3>2
    <3>3. CASE RmStateChange(d, {"SEND_WT"}, {"SEND_FI"})
      BY <1>6, <1>7, <3>3
    <3>4. CASE RmStateChange(d, {"RECV_WT"}, {"RECV_FI"})
      BY <1>6, <1>7, <3>4
    <3>5. CASE RmStateChange(d, {}, {"ES_ERROR"})
      BY <1>6, <1>7, <3>5
    <3> QED BY <2>3, <3>1, <3>2, <3>3, <3>4, <3>5
  <2> QED BY <1>5, <2>1, <2>2, <2>4
<1>10. CASE CloseDoes
  <2>1. /\ word'[c] = word[c] \/ word'[c] = word[c] \cup {"READY"}
        /\ tag'[c] = tag[c] /\ loc'[c] = loc[c] /\ ticking' = ticking
    BY <1>0, <1>10 DEF CloseDoes, ShutEnd, SweepAgain, Closed, Close, ShutNext, SweepNext, Ready, Goto, ipcVars, WordTypes,
       QueueTypes
  <2>2. (c \in asleep' => c \in asleep)
        /\ (c \in asleep => c \in asleep' \/ (ticking = None /\ ("IN_IPC" \in word'[c] => "READY" \in word'[c])))
    BY <1>0, <1>10 DEF CloseDoes, ShutEnd, SweepAgain, Closed, Close, ShutNext, SweepNext, Wakeup, KernelFree, schedVars
  <2>3. UNCHANGED <<rmAdd, rmDel>> \/ \E d \in Clients : RmStateChange(d, {}, {"ES_ERROR"})
                                                       \/ RmStateChange(d, EsMask, {"ES_ERROR"})
    BY <1>10 DEF CloseDoes, ShutEnd, SweepAgain, Closed, Close, ShutNext, SweepNext, ipcVars
  <2>4. rmAdd'[c] \subseteq rmAdd[c] \cup EsMask \cup SMask /\ rmDel'[c] \cap TsMask \subseteq rmDel[c]
    <3>1. CASE UNCHANGED <<rmAdd, rmDel>>
      BY <3>1
    <3>2. ASSUME NEW d \in Clients, RmStateChange(d, {}, {"ES_ERROR"}) \/ RmStateChange(d, EsMask, {"ES_ERROR"})
          PROVE  rmAdd'[c] \subseteq rmAdd[c] \cup EsMask \cup SMask /\ rmDel'[c] \cap TsMask \subseteq rmDel[c]
      BY <1>6, <1>7, <3>2
    <3> QED BY <2>3, <3>1, <3>2
  <2> QED BY <1>5, <2>1, <2>2, <2>4
<1>11. CASE UNCHANGED vars
  BY <1>1, <1>11 DEF vars, ipcVars, schedVars
<1>12. ASSUME NEW d \in Clients, ClientDoes(d) PROVE Situated(c)'
  BY <1>2, <1>3, <1>12
<1> QED BY <1>4, <1>8, <1>9, <1>10, <1>11, <1>12, StepIs

\* The base is inductive.
LEMMA BaseKept ==
  ASSUME Base, [Next]_vars
  PROVE  Base'
BY TypesKept, RingsKept, LocatedKept, SituatedKept DEF Base

\* At the start all threads are in their places.
LEMMA InitBase ==
  ASSUME Init
  PROVE  Base
<1>0. /\ Server \in Threads /\ Clients \subseteq Threads /\ Server \notin Clients /\ None \notin Threads
      /\ PrioMax - 1 \in Prios /\ 0 \in 0 .. SignalMod - 1
  BY Consts DEF Prios
<1>1. <<>> \in Seq(Clients) /\ Members(<<>>) = {} /\ Distinct(<<>>)
  BY DEF Members, Distinct
<1>2. mode \in Circumstances /\ mode.calls \in Nat
  BY ConstAssumption DEF Init, Circumstance
<1>3. <<None, 0, "send">> \in Msgs
  BY DEF Msgs
<1>4. QueueTypes
  BY <1>0, <1>1 DEF Init, QueueTypes, ServerLocs, ClientLocs
<1>5. WordTypes
  BY DEF Init, WordTypes
<1>6. UserTypes
  BY <1>2, <1>3 DEF Init, UserTypes
<1>7. OwnRings
  BY <1>1 DEF Init, OwnRings
<1>8. Located
  BY <1>0, <1>1 DEF Init, Located, ServerLocs, ClientLocs
<1>9. ASSUME NEW c \in Clients PROVE Situated(c)
  BY <1>0 DEF Init, Situated
<1> QED BY <1>4, <1>5, <1>6, <1>7, <1>8, <1>9, TypesAre DEF Base

\* The base always holds; with it the types are right.
THEOREM BaseOK == Spec => []Base
<1>1. Base /\ [Next]_vars => Base'
  BY BaseKept
<1> QED BY <1>1, InitBase, PTL DEF Spec

\* The types are right (all of ipc.c).
THEOREM TypesOK == Spec => []TypeOK
<1>1. Base => TypeOK
  BY DEF Base
<1> QED BY <1>1, BaseOK, PTL

\* Nobody wakes a client that waits in an IPC before the IPC is decided
\* (the refusal of vcpuWakeup).
THEOREM UndecidedSleepsOK == Spec => UndecidedSleeps
<1>1. ASSUME Base, [Next]_vars, NEW c \in Clients, c \in asleep \ asleep', loc[c] = "wait"
      PROVE  Has(c, "READY")'
  <2>0. Base'
    BY <1>1, BaseKept
  <2>1. loc'[c] = "wait" => "READY" \in word'[c]
    BY <1>1, <2>0 DEF Base, Situated
  <2>2. loc'[c] = "wait"
    <3>0. /\ QueueTypes /\ Server \in Threads /\ c \in Threads /\ c # Server
      BY <1>1, Consts, TypesAre DEF Base
    <3>1. ASSUME NEW d \in Clients, ClientDoes(d) PROVE loc'[c] = loc[c]
      <4>1. CASE d = c
        BY <1>1, <3>0, <3>1, <4>1 DEF ClientDoes, Kernel, Queue, Finish, NapOver, Nap, Stray, Send, At
      <4>2. CASE d # c
        BY <3>0, <3>1, <4>2 DEF ClientDoes, Kernel, Queue, Finish, NapOver, Nap, Stray, Send, Goto, QueueTypes
      <4> QED BY <4>1, <4>2
    <3>2. TickDoes => loc' = loc
      BY DEF TickDoes, TickEvent, TickPlain, TickDecided, TickExpire
    <3>3. ServerDoes => loc'[c] = loc[c]
      BY <3>0 DEF ServerDoes, Recv, Drain, Event, Check, Resume, PickNone, Goto, QueueTypes
    <3>4. ASSUME NEW d \in Clients, ServesDoes(d) PROVE loc'[c] = loc[c]
      BY <3>0, <3>4 DEF ServesDoes, Pick, InTimeout, InSend, InCall, Took, Answer, Reply, Goto, QueueTypes
    <3>5. CloseDoes => loc'[c] = loc[c]
      BY <3>0 DEF CloseDoes, ShutEnd, SweepAgain, Closed, Close, ShutNext, SweepNext, Goto, QueueTypes
    <3>6. UNCHANGED vars => loc' = loc
      BY DEF vars
    <3> QED BY <1>1, <3>1, <3>2, <3>3, <3>4, <3>5, <3>6, StepIs
  <2> QED BY <2>1, <2>2 DEF Has
<1>2. Base /\ [Next]_vars => [\A c \in Clients : c \in asleep \ asleep' /\ loc[c] = "wait" => Has(c, "READY")']_vars
  BY <1>1
<1> QED BY <1>2, BaseOK, PTL DEF Spec, UndecidedSleeps

-----------------------------------------------------------------------------
(* Timeouts are orderly, or there are none.                                   *)

\* A client that is not asleep in its IPC or on its way to it ...
Away(c) == loc[c] \in {"idle", "nap", "queue"} \/ (loc[c] = "wait" /\ c \notin asleep)
Late(c) == "TIMEOUT" \in word[c]
InEvents(c) == c \in Queued \/ c = hand
\* The service has decided for its client.
Settled == loc[Server] \in {"took", "answer", "shut", "sweep", "resweep"}

\* ... is nowhere in the service, unless another thread woke it too early.
TidyAway(c) ==
    /\ Away(c) => ~InEvents(c) /\ c \notin Listed /\ c # ticking
    /\ Away(c) /\ tag[Server] = c => mode.strays /\ Settled
    /\ loc[c] = "queue" => word[c] \cap {"READY", "REQUEST", "TIMEOUT"} = {}
    /\ loc[c] \in {"idle", "nap", "queue"} => "REQUEST" \notin rmDel[c]
    /\ ~mode.strays /\ loc[c] \in {"idle", "nap", "queue"} => rmAdd[c] = {} /\ rmDel[c] = {}

\* An event of a client is a new request, which nobody has seen, or a timeout.
TidyEvent(c) ==
    /\ c \in Queued => c # hand
    /\ Late(c) => "READY" \in word[c] /\ loc[c] = "wait" /\ ~Punctual
    /\ InEvents(c) /\ ~Late(c) =>
          /\ "REQUEST" \in word[c] /\ "READY" \notin word[c] /\ "REQUEST" \notin rmDel[c]
          /\ c \notin Listed /\ c # ticking
          /\ tag[Server] = c => mode.strays /\ Settled
    /\ c = ticking => ~InEvents(c) /\ ~Late(c) /\ ~Punctual

\* A request that is listed or served is no event any more; if it is decided, the
\* timeout is under way.
Overdue(c)  == c = ticking \/ (Late(c) /\ InEvents(c))
TidyTaken(c) ==
    /\ c \in Listed \/ (c = tag[Server] /\ loc[Server] \in {"in", "serve"}) =>
          /\ "REQUEST" \in rmDel[c]
          /\ "READY" \in word[c] => Overdue(c)
    /\ c \in Listed => c # tag[Server]
    /\ c = tag[Server] /\ Settled /\ ~mode.strays =>
          "READY" \in word[c] /\ ~InEvents(c) /\ c # ticking
Tidy ==
    /\ \A c \in Clients : TidyAway(c) /\ TidyEvent(c) /\ TidyTaken(c)
    /\ UrgentFirst
    /\ loc[Server] \in {"sweep", "resweep"} => Listed = {}

\* A new request goes to the end of its ring (__ipcPlistInsert).
LEMMA InsertIs ==
  ASSUME QueueTypes, UrgentFirst, NEW d \in Clients, d \notin Listed, PlistInsert(d)
  PROVE  UrgentFirst' /\ Listed' = Listed \cup {d}
<1> DEFINE q == Priority[d]
<1>0. /\ q \in Prios /\ ring[q] \in Seq(Clients) /\ prioCur \in Prios /\ Prios \subseteq Nat
      /\ PrioMax - 1 \in Prios /\ \A p \in Prios : p <= PrioMax - 1
  BY Consts DEF QueueTypes, Prios
<1> HIDE DEF q
<1>1. /\ ring' = [ring EXCEPT ![q] = Append(ring[q], d)]
      /\ prioCur' = IF q < prioCur THEN q ELSE prioCur
  BY DEF PlistInsert, q
<1>2. /\ Append(ring[q], d) # <<>> /\ Members(Append(ring[q], d)) = Members(ring[q]) \cup {d}
      /\ Distinct(Append(ring[q], d))
  <2>1. d \notin Members(ring[q])
    BY <1>0 DEF Listed
  <2> QED BY <1>0, <2>1, AppendFacts DEF UrgentFirst
<1>3. \A p \in Prios : ring'[p] = IF p = q THEN Append(ring[q], d) ELSE ring[p]
  BY <1>0, <1>1 DEF QueueTypes
<1>4. Listed' = Listed \cup {d}
  BY <1>0, <1>2, <1>3 DEF Listed
<1>5. \A p \in Prios : Distinct(ring'[p]) /\ \A c \in Members(ring'[p]) : Priority[c] = p
  BY <1>2, <1>3 DEF UrgentFirst, q
<1>6. Current(ring', prioCur')
  <2>1. Used(ring') = Used(ring) \cup {q}
    BY <1>0, <1>2, <1>3 DEF Used
  <2>2. prioCur = IF Used(ring) = {} THEN PrioMax - 1 ELSE Min(Used(ring))
    BY DEF UrgentFirst, Used
  <2>3. Used(ring) \in SUBSET Prios
    BY DEF Used
  <2>4. Used(ring) # {} => prioCur \in Used(ring) /\ \A p \in Used(ring) : prioCur <= p
    BY <2>2, <2>3, LeastPrio
  <2> DEFINE U == Used(ring)
             V == Used(ring')
  <2> HIDE DEF U, V
  <2>5. V = U \cup {q} /\ (U = {} => prioCur = PrioMax - 1) /\ U \subseteq Prios
        /\ (U # {} => prioCur \in U /\ \A p \in U : prioCur <= p)
    BY <2>1, <2>2, <2>3, <2>4 DEF U, V
  <2>6. prioCur' \in V
    BY <1>0, <1>1, <2>5
  <2>7. \A p \in V : prioCur' <= p
    <3> SUFFICES ASSUME NEW p \in V PROVE prioCur' <= p
      OBVIOUS
    <3>1. p \in Nat /\ q \in Nat /\ prioCur \in Nat /\ (p \in U \/ p = q)
      BY <1>0, <2>5
    <3>2. p \in U => prioCur <= p
      BY <2>5
    <3> QED BY <1>1, <3>1, <3>2
  <2> QED BY <2>6, <2>7 DEF Current, V
<1> QED BY <1>4, <1>5, <1>6, CurrentIs DEF UrgentFirst, Used

\* One ring loses one request; the current priority follows.
LEMMA ShorterIs ==
  ASSUME QueueTypes, UrgentFirst, NEW q \in Prios, NEW d \in Members(ring[q]), NEW s \in Seq(Clients),
         Distinct(s), Members(s) = Members(ring[q]) \ {d},
         ring' = [ring EXCEPT ![q] = s], prioCur' = PrioFlush(ring', prioCur)
  PROVE  UrgentFirst' /\ Listed' = Listed \ {d} /\ d \in Listed
<1>0. prioCur \in Prios /\ Prios \subseteq Nat /\ Priority[d] = q
  BY DEF QueueTypes, Prios, UrgentFirst
<1>1. \A p \in Prios : ring'[p] = IF p = q THEN s ELSE ring[p]
  BY DEF QueueTypes
<1>2. \A p \in Prios : p # q => d \notin Members(ring[p])
  BY <1>0 DEF UrgentFirst
<1>3. Listed' = Listed \ {d} /\ d \in Listed
  BY <1>1, <1>2 DEF Listed
<1>4. \A p \in Prios : Distinct(ring'[p]) /\ \A c \in Members(ring'[p]) : Priority[c] = p
  BY <1>1 DEF UrgentFirst
<1>5. ring[q] # <<>>
  BY DEF Members
<1>6. Used(ring') \subseteq Used(ring)
  BY <1>1, <1>5 DEF Used
<1>7. Used(ring) \in SUBSET Prios /\ Used(ring) # {}
  BY <1>5 DEF Used
<1>8. prioCur = Min(Used(ring))
  BY <1>7 DEF UrgentFirst, Used
<1>9. \A p \in Used(ring') : prioCur <= p
  BY <1>6, <1>7, <1>8, LeastPrio
<1>10. Current(ring', prioCur')
  BY <1>0, <1>9, FlushFacts
<1>11. prioCur' = IF Used(ring') = {} THEN PrioMax - 1 ELSE Min(Used(ring'))
  BY <1>10, CurrentIs
<1> QED BY <1>3, <1>4, <1>11 DEF UrgentFirst, Used

\* A request leaves the list (__ipcPlistRemove).
LEMMA RemoveIs ==
  ASSUME QueueTypes, UrgentFirst, NEW d \in Clients, d \in Listed, PlistRemove(d)
  PROVE  UrgentFirst' /\ Listed' = Listed \ {d}
<1> DEFINE q == Priority[d]
<1>1. q \in Prios /\ d \in Members(ring[q]) /\ ring[q] \in Seq(Clients) /\ Distinct(ring[q])
  BY Consts DEF Listed, UrgentFirst, QueueTypes
<1>2. /\ ring' = [ring EXCEPT ![q] = Without(ring[q], d)]
      /\ prioCur' = PrioFlush(ring', prioCur)
  BY DEF PlistRemove
<1>3. /\ Without(ring[q], d) \in Seq(Clients) /\ Distinct(Without(ring[q], d))
      /\ Members(Without(ring[q], d)) = Members(ring[q]) \ {d}
  BY <1>1, WithoutFacts
<1> QED BY <1>1, <1>2, <1>3, ShorterIs

\* The most urgent request is taken from the list (__ipcPlistNext).
LEMMA NextIs ==
  ASSUME QueueTypes, UrgentFirst, NEW d \in Clients, PlistNext(d)
  PROVE  UrgentFirst' /\ Listed' = Listed \ {d} /\ d \in Listed
<1> DEFINE q == prioCur
<1>1. q \in Prios /\ ring[q] \in Seq(Clients) /\ Distinct(ring[q]) /\ ring[q] # <<>> /\ d = Head(ring[q])
  BY DEF UrgentFirst, QueueTypes, PlistNext
<1>2. /\ ring' = [ring EXCEPT ![q] = Tail(ring[q])]
      /\ prioCur' = PrioFlush(ring', prioCur)
  BY DEF PlistNext
<1>3. /\ Tail(ring[q]) \in Seq(Clients) /\ Distinct(Tail(ring[q])) /\ d \in Members(ring[q])
      /\ Members(Tail(ring[q])) = Members(ring[q]) \ {d}
  BY <1>1, TailFacts
<1> QED BY <1>1, <1>2, <1>3, ShorterIs

\* When the current ring is empty no request is listed.
LEMMA NoneListed ==
  ASSUME QueueTypes, UrgentFirst, ring[prioCur] = <<>>
  PROVE  Listed = {}
<1>1. Used(ring) \in SUBSET Prios
  BY DEF Used
<1>2. Used(ring) = {}
  <2> SUFFICES ASSUME Used(ring) # {} PROVE FALSE
    OBVIOUS
  <2>1. prioCur \in Used(ring)
    BY <1>1, LeastPrio DEF UrgentFirst, Used
  <2> QED BY <2>1 DEF Used
<1>3. \A p \in Prios : ring[p] = <<>>
  BY <1>2 DEF Used
<1> QED BY <1>3 DEF Listed, Members


\* The parts of Tidy for one client.
TidyClient(c) == TidyAway(c) /\ TidyEvent(c) /\ TidyTaken(c)

\* A step that changes nothing that concerns c.
LEMMA TidyFrame ==
  ASSUME NEW c, TidyClient(c), mode' = mode, word'[c] = word[c], rmAdd'[c] = rmAdd[c], rmDel'[c] = rmDel[c],
         loc'[c] = loc[c], c \in asleep' <=> c \in asleep, ticking' = c <=> ticking = c,
         InEvents(c)' <=> InEvents(c), c \in Queued' => c # hand', c \in Listed' <=> c \in Listed,
         \/ tag'[Server] = tag[Server] /\ loc'[Server] = loc[Server]
         \/ tag[Server] # c /\ tag'[Server] # c
  PROVE  TidyClient(c)'
<1>1. TidyAway(c)'
  BY DEF TidyClient, TidyAway, Away, Settled
<1>2. TidyEvent(c)'
  BY DEF TidyClient, TidyEvent, Late, Settled, Punctual
<1>3. TidyTaken(c)'
  BY DEF TidyClient, TidyTaken, Overdue, Late, Settled
<1> QED BY <1>1, <1>2, <1>3 DEF TidyClient

\* The steps of the clients.
LEMMA ClientTidy ==
  ASSUME Base, Tame, NEW c \in Clients, TidyClient(c), NEW d \in Clients, ClientDoes(d)
  PROVE  TidyClient(c)'
<1>0. /\ WordTypes /\ QueueTypes /\ Located /\ Server \in Threads /\ Clients \subseteq Threads
      /\ c \in Threads /\ d \in Threads /\ c # Server /\ d # Server /\ None \notin Clients /\ None # Server /\ c # None /\ Situated(c)
  BY Consts, TypesAre DEF Base
<1>1. /\ mode' = mode /\ hand' = hand /\ ring' = ring /\ ticking' = ticking
      /\ tag'[Server] = tag[Server] /\ loc'[Server] = loc[Server]
  <2>1. mode' = mode /\ hand' = hand /\ ring' = ring /\ ticking' = ticking
    BY <1>0 DEF ClientDoes, Kernel, Queue, Finish, NapOver, Nap, Stray, Send, queueVars
  <2>2. tag'[Server] = tag[Server]
    BY <1>0 DEF ClientDoes, Kernel, Queue, Finish, NapOver, Nap, Stray, Send, ipcVars, WordTypes
  <2>3. loc'[Server] = loc[Server]
    BY <1>0 DEF ClientDoes, Kernel, Queue, Finish, NapOver, Nap, Stray, Send, Goto, QueueTypes
  <2> QED BY <2>1, <2>2, <2>3
<1>2. Queued' = Queued \/ (Queue(d) /\ Queued' = Queued \cup {d})
  BY <1>0, JoinedIs DEF ClientDoes, Kernel, Queue, EvtqInsert, Finish, NapOver, Nap, Stray, Send, queueVars, Queued,
     Located, QueueTypes
<1>3. Listed' = Listed
  BY <1>1 DEF Listed
<1>4. CASE d # c
  <2>1. /\ word'[c] = word[c] /\ rmAdd'[c] = rmAdd[c] /\ rmDel'[c] = rmDel[c] /\ loc'[c] = loc[c]
    BY <1>0, <1>4 DEF ClientDoes, Kernel, Queue, EvtqInsert, Finish, NapOver, Nap, Stray, Send, Ready, Goto, ipcVars,
       WordTypes, QueueTypes
  <2>2. c \in asleep' <=> c \in asleep
    BY <1>0, <1>4 DEF ClientDoes, Kernel, Queue, Finish, NapOver, Nap, Stray, Send, Wakeup, Woken, schedVars
  <2>3. (InEvents(c)' <=> InEvents(c)) /\ (c \in Queued' => c # hand')
    BY <1>1, <1>2, <1>4 DEF InEvents, TidyClient, TidyEvent
  <2> QED BY <1>1, <1>3, <2>1, <2>2, <2>3, TidyFrame
<1>5. CASE d = c /\ Queue(c)
  <2>1. /\ word'[c] = word[c] \cup {"REQUEST"} /\ rmAdd'[c] = rmAdd[c] /\ rmDel'[c] = rmDel[c]
        /\ loc'[c] = "kernel" /\ asleep' = asleep /\ loc[c] = "queue" /\ Queued' = Queued \cup {c}
    BY <1>0, <1>5, JoinedIs DEF Queue, EvtqInsert, Goto, At, schedVars, Queued, WordTypes, QueueTypes, Located
  <2>2. ~InEvents(c) /\ c \notin Listed /\ c # ticking /\ (tag[Server] = c => mode.strays /\ Settled)
        /\ word[c] \cap {"READY", "REQUEST", "TIMEOUT"} = {}
    BY <2>1 DEF TidyClient, TidyAway, Away
  <2>3. "REQUEST" \notin rmDel[c]
    BY <1>0, <2>1, <2>2 DEF TidyClient, TidyAway
  <2> QED BY <1>1, <1>3, <2>1, <2>2, <2>3
          DEF TidyClient, TidyAway, TidyEvent, TidyTaken, Away, InEvents, Late, Settled, Overdue
<1>6. CASE d = c /\ Kernel(c)
  <2>1. /\ word'[c] = word[c] \cup {"IN_IPC"} /\ rmAdd'[c] = rmAdd[c] /\ rmDel'[c] = rmDel[c]
        /\ loc'[c] = "wait" /\ loc[c] = "kernel" /\ c \in asleep' /\ Queued' = Queued
    BY <1>0, <1>6 DEF Kernel, Goto, At, Queued, WordTypes, QueueTypes
  <2> QED BY <1>1, <1>3, <2>1
          DEF TidyClient, TidyAway, TidyEvent, TidyTaken, Away, InEvents, Late, Settled, Overdue, Punctual
<1>7. CASE d = c /\ Finish(c)
  <2>1. /\ word'[c] = ((word[c] \ rmDel[c]) \cup rmAdd[c]) \cap TsMask /\ rmAdd'[c] = {} /\ rmDel'[c] = {}
        /\ loc'[c] = "idle" /\ asleep' = asleep /\ loc[c] = "wait" /\ c \notin asleep
        /\ Queued' = Queued
    BY <1>0, <1>7 DEF Finish, Goto, At, schedVars, queueVars, Queued, WordTypes, QueueTypes
  <2>2. ~InEvents(c) /\ c \notin Listed /\ c # ticking /\ (tag[Server] = c => mode.strays /\ Settled)
    BY <2>1 DEF TidyClient, TidyAway, Away
  <2>3. "TIMEOUT" \notin word'[c]
    BY <2>1 DEF TsMask
  <2> QED BY <1>1, <1>3, <2>1, <2>2, <2>3
          DEF TidyClient, TidyAway, TidyEvent, TidyTaken, Away, InEvents, Late, Settled, Overdue, Punctual
<1>8. CASE d = c /\ (Nap(c) \/ NapOver(c))
  <2>1. /\ word'[c] = word[c] /\ rmAdd'[c] = rmAdd[c] /\ rmDel'[c] = rmDel[c]
        /\ loc'[c] \in {"idle", "nap"} /\ loc[c] \in {"idle", "nap"}
        /\ Queued' = Queued
    BY <1>0, <1>8 DEF Nap, NapOver, Goto, At, schedVars, queueVars, ipcVars, Queued, WordTypes, QueueTypes
  <2> QED BY <1>1, <1>3, <2>1
          DEF TidyClient, TidyAway, TidyEvent, TidyTaken, Away, InEvents, Late, Settled, Overdue, Punctual
<1>9. CASE d = c /\ \E op \in Ops : Send(c, op)
  <2>1. /\ rmAdd'[c] = rmAdd[c] /\ rmDel'[c] = rmDel[c] /\ loc[c] = "idle"
        /\ Queued' = Queued /\ loc'[c] \in {"idle", "queue"} /\ asleep' = asleep
    BY <1>0, <1>9 DEF Send, Goto, At, schedVars, queueVars, Queued, QueueTypes
  <2>2. word[c] \subseteq TsMask
    BY <1>0, <2>1 DEF Situated
  <2>3. \/ word'[c] = word[c] \cup {"READY"} /\ loc'[c] = "idle"
        \/ word'[c] \subseteq (word[c] \ {"READY"}) \cup {"SEND_WT", "RECV"}
    BY <1>0, <1>9 DEF Send, Ready, Goto, At, WordTypes, QueueTypes
  <2>4. word'[c] \cap {"REQUEST", "TIMEOUT"} = {} /\ (loc'[c] = "queue" => "READY" \notin word'[c])
    BY <2>2, <2>3 DEF TsMask
  <2> QED BY <1>1, <1>3, <2>1, <2>4
          DEF TidyClient, TidyAway, TidyEvent, TidyTaken, Away, InEvents, Late, Settled, Overdue, Punctual
<1>10. CASE d = c /\ Stray(c)
  <2>1. /\ word' = word /\ rmAdd'[c] = rmAdd[c] /\ rmDel'[c] = rmDel[c] /\ loc' = loc
        /\ Queued' = Queued /\ mode.strays /\ c \in asleep
        /\ c \in asleep' \/ ("IN_IPC" \in word[c] => "READY" \in word[c])
    BY <1>0, <1>10 DEF Stray, Wakeup, schedVars, queueVars, Queued
  <2>2. Punctual
    BY <2>1 DEF Tame, Orderly
  <2>3. c # ticking /\ ~Late(c)
    BY <2>2 DEF TidyClient, TidyEvent
  <2>4. CASE c \in asleep' \/ loc[c] # "wait"
    BY <1>1, <1>3, <2>1, <2>4
       DEF TidyClient, TidyAway, TidyEvent, TidyTaken, Away, InEvents, Late, Settled, Overdue, Punctual
  <2>5. CASE c \notin asleep' /\ loc[c] = "wait"
    <3>1. "READY" \in word[c]
      BY <1>0, <2>1, <2>5 DEF Situated
    <3>2. ~InEvents(c) /\ c \notin Listed /\ (c = tag[Server] => loc[Server] \notin {"in", "serve"})
      BY <2>3, <3>1 DEF TidyClient, TidyEvent, TidyTaken, Overdue
    <3>3. c = tag[Server] => Settled
      BY <1>0, <3>2 DEF Located, Settled, ServerLocs
    <3> QED BY <1>1, <1>3, <2>1, <2>3, <3>1, <3>2, <3>3
            DEF TidyClient, TidyAway, TidyEvent, TidyTaken, Away, InEvents, Late, Settled, Overdue, Punctual
  <2> QED BY <2>4, <2>5
<1> QED BY <1>4, <1>5, <1>6, <1>7, <1>8, <1>9, <1>10 DEF ClientDoes


\* The steps of the tick.
LEMMA TickTidy ==
  ASSUME Base, Tame, NEW c \in Clients, TidyClient(c), TickDoes
  PROVE  TidyClient(c)'
<1>0. /\ WordTypes /\ QueueTypes /\ Located /\ Server \in Threads /\ Clients \subseteq Threads
      /\ c \in Threads /\ c # Server /\ None \notin Clients /\ None # Server /\ c # None /\ Situated(c)
  BY Consts, TypesAre DEF Base
<1>1. /\ mode' = mode /\ hand' = hand /\ ring' = ring /\ tag' = tag /\ loc' = loc
  BY DEF TickDoes, TickEvent, TickPlain, TickDecided, TickExpire, queueVars, ipcVars
<1>2. Listed' = Listed
  BY <1>1 DEF Listed
<1>3. CASE TickEvent
  <2>1. /\ rmAdd' = rmAdd /\ rmDel' = rmDel /\ asleep' = asleep /\ ticking' = None
        /\ ticking \in Clients /\ word' = [word EXCEPT ![ticking] = @ \cup {"TIMEOUT"}]
        /\ Queued' = Queued \cup {ticking}
    BY <1>0, <1>3, JoinedIs DEF TickEvent, EvtqInsert, schedVars, Queued, QueueTypes, Located
  <2>2. CASE ticking # c
    <3>1. word'[c] = word[c] /\ (c \in Queued' <=> c \in Queued)
      BY <1>0, <2>1, <2>2 DEF WordTypes
    <3>2. (InEvents(c)' <=> InEvents(c)) /\ (c \in Queued' => c # hand')
      BY <1>1, <3>1 DEF InEvents, TidyClient, TidyEvent
    <3> QED BY <1>0, <1>1, <1>2, <2>1, <2>2, <3>1, <3>2, TidyFrame
  <2>3. CASE ticking = c
    <3>1. word'[c] = word[c] \cup {"TIMEOUT"}
      BY <1>0, <2>1, <2>3 DEF WordTypes
    <3>2. loc[c] = "wait" /\ c \in asleep /\ "READY" \in word[c]
      BY <1>0, <2>3 DEF Situated
    <3> QED BY <1>0, <1>1, <1>2, <2>1, <2>3, <3>1, <3>2
            DEF TidyClient, TidyAway, TidyEvent, TidyTaken, Away, InEvents, Late, Settled, Overdue, Punctual
  <2> QED BY <2>2, <2>3
<1>4. CASE \E t \in Threads : TickPlain(t)
  <2>1. PICK t \in Threads : TickPlain(t)
    BY <1>4
  <2>2. UNCHANGED <<word, rmAdd, rmDel, ticking, evtq>> /\ asleep' = asleep \ {t}
        /\ "IN_IPC" \notin word[t]
    BY <2>1 DEF TickPlain, Has, ipcVars, queueVars
  <2>3. t = c => loc[c] # "wait"
    BY <1>0, <2>2 DEF Situated
  <2> QED BY <1>0, <1>1, <1>2, <2>2, <2>3
          DEF TidyClient, TidyAway, TidyEvent, TidyTaken, Away, InEvents, Late, Settled, Overdue, Punctual, Queued
<1>5. CASE \E d \in Clients : TickDecided(d)
  <2>1. UNCHANGED <<word, rmAdd, rmDel, ticking, evtq, asleep>>
    BY <1>5 DEF TickDecided, ipcVars, queueVars
  <2> QED BY <1>0, <1>1, <1>2, <2>1
          DEF TidyClient, TidyAway, TidyEvent, TidyTaken, Away, InEvents, Late, Settled, Overdue, Punctual, Queued
<1>6. ASSUME NEW d \in Clients, TickExpire(d) PROVE TidyClient(c)'
  <2>1. /\ rmDel'[c] = rmDel[c] \cup {} /\ asleep' = asleep /\ ticking = None
        /\ d \in asleep /\ "IN_IPC" \in word[d] /\ "READY" \notin word[d] /\ Stage(d) \in mode.expireIn
    BY <1>0, <1>6 DEF TickExpire, RmStateChange, KernelFree, Has, WordTypes, Located
  <2>2. ~Punctual
    BY <2>1 DEF Punctual
  <2>3. ~mode.strays /\ Stage(d) \in {"listed", "taken"}
    BY <2>1, <2>2 DEF Tame, Orderly
  <2>4. d \notin Queued /\ d # hand
    BY <2>3 DEF Stage
  <2>5. CASE d # c
    <3>1. word'[c] = word[c] /\ rmAdd'[c] = rmAdd[c] /\ (ticking' = c <=> ticking = c)
          /\ (c \in Queued' <=> c \in Queued)
      BY <1>0, <1>6, <2>1, <2>5, JoinedIs DEF TickExpire, RmStateChange, Ready, WordTypes, Queued, QueueTypes, Located
    <3>2. (InEvents(c)' <=> InEvents(c)) /\ (c \in Queued' => c # hand')
      BY <1>1, <3>1 DEF InEvents, TidyClient, TidyEvent
    <3> QED BY <1>0, <1>1, <1>2, <2>1, <3>1, <3>2, TidyFrame
  <2>6. CASE d = c
    <3>1. loc[c] = "wait"
      <4>1. loc[c] \in {"wait", "nap"}
        BY <1>0, <2>1, <2>6 DEF Situated
      <4>2. loc[c] = "nap" => FALSE
        BY <1>0, <2>1, <2>6 DEF Situated
      <4> QED BY <4>1, <4>2
    <3>2. CASE mode.smp
      <4>1. ticking' = c /\ word'[c] = word[c] \cup {"READY"} /\ Queued' = Queued
        BY <1>0, <1>6, <2>6, <3>2 DEF TickExpire, Ready, WordTypes, Queued
      <4>2. ~Late(c)
        BY <2>1, <2>6 DEF TidyClient, TidyEvent
      <4> QED BY <1>0, <1>1, <1>2, <2>1, <2>2, <2>3, <2>4, <2>6, <3>1, <4>1, <4>2
            DEF TidyClient, TidyAway, TidyEvent, TidyTaken, Away, InEvents, Late, Settled, Overdue, Punctual
    <3>3. CASE ~mode.smp
      <4>1. ticking' = None /\ word'[c] = word[c] \cup {"READY", "TIMEOUT"} /\ Queued' = Queued \cup {c}
        BY <1>0, <1>6, <2>1, <2>6, <3>3, JoinedIs DEF TickExpire, WordTypes, Queued, QueueTypes, Located
      <4> QED BY <1>0, <1>1, <1>2, <2>1, <2>2, <2>3, <2>4, <2>6, <3>1, <4>1
            DEF TidyClient, TidyAway, TidyEvent, TidyTaken, Away, InEvents, Late, Settled, Overdue, Punctual
    <3> QED BY <3>2, <3>3
  <2> QED BY <2>5, <2>6
<1> QED BY <1>3, <1>4, <1>5, <1>6 DEF TickDoes


\* What the service does with an event, when all is tidy.
LEMMA EventIs ==
  ASSUME Base, \A d \in Clients : TidyClient(d), UrgentFirst, Event
  PROVE  \E d \in Clients :
           /\ d = hand /\ hand' = None /\ evtq' = evtq /\ word' = word /\ tag' = tag /\ ticking' = ticking
           /\ mode' = mode /\ loc' = [loc EXCEPT ![Server] = "drain"] /\ tag[Server] = None
           /\ calls' = calls /\ msg' = msg /\ result' = result
           /\ rmDel' = [rmDel EXCEPT ![d] = @ \cup EvtsMask] /\ rmAdd' = [rmAdd EXCEPT ![d] = @ \ EvtsMask]
           /\ d \notin Queued /\ "REQUEST" \in rmDel'[d] /\ Server \notin asleep
           /\ \/ /\ ~Late(d) /\ "REQUEST" \in word[d] /\ "READY" \notin word[d] /\ d \notin Listed /\ d # ticking
                 /\ "REQUEST" \notin rmDel[d]
                 /\ UrgentFirst' /\ Listed' = Listed \cup {d} /\ UNCHANGED <<asleep, online, signal>>
              \/ /\ Late(d) /\ "READY" \in word[d] /\ loc[d] = "wait" /\ ticking = None
                 /\ UrgentFirst' /\ Listed' = Listed \ {d} /\ asleep' = asleep \ {d} /\ online' = online \ {d}
                 /\ IF d \in Listed THEN SignalAdd(-1) ELSE UNCHANGED signal
<1> DEFINE d == hand
<1>0. /\ WordTypes /\ QueueTypes /\ Located
  BY TypesAre DEF Base
<1>1. d \in Clients /\ tag[Server] = None /\ Server \notin asleep
  BY <1>0 DEF Event, At, Located, QueueTypes
<1>2. TidyEvent(d) /\ InEvents(d)
  BY <1>1 DEF TidyClient, InEvents
<1>3. /\ hand' = None /\ evtq' = evtq /\ word' = word /\ tag' = tag /\ ticking' = ticking
      /\ mode' = mode /\ loc' = [loc EXCEPT ![Server] = "drain"]
      /\ calls' = calls /\ msg' = msg /\ result' = result
  BY DEF Event, Goto, userVars
<1>4. d \notin Queued
  BY <1>2 DEF TidyEvent
<1>5. CASE Late(d)
  <2>1. "READY" \in word[d] /\ loc[d] = "wait"
    BY <1>2, <1>5 DEF TidyEvent
  <2>2. word[d] \cap EvtsMask # {} /\ word[d] \cap EvtsMask # {"REQUEST"}
    BY <1>5 DEF Late, EvtsMask
  <2>3. /\ IF d \in Listed THEN PlistRemove(d) /\ SignalAdd(-1) ELSE UNCHANGED <<ring, prioCur, signal>>
        /\ RmStateChange(d, EvtsMask, {}) /\ Wakeup(d)
    BY <2>2 DEF Event
  <2>4. UrgentFirst' /\ Listed' = Listed \ {d}
    <3>1. CASE d \in Listed
      BY <1>0, <1>1, <2>3, <3>1, RemoveIs
    <3>2. CASE d \notin Listed
      BY <2>3, <3>2 DEF UrgentFirst, Listed
    <3> QED BY <3>1, <3>2
  <2>5. ticking = None /\ asleep' = asleep \ {d} /\ online' = online \ {d}
    BY <1>3, <2>1, <2>3 DEF Wakeup, KernelFree
  <2>6. rmDel' = [rmDel EXCEPT ![d] = @ \cup EvtsMask] /\ rmAdd' = [rmAdd EXCEPT ![d] = @ \ EvtsMask]
        /\ "REQUEST" \in rmDel'[d]
    <3>1. \A s : s \cup {} = s
      OBVIOUS
    <3>2. rmDel' = [rmDel EXCEPT ![d] = @ \cup EvtsMask]
      BY <2>3 DEF RmStateChange
    <3>3. rmAdd' = [rmAdd EXCEPT ![d] = (@ \ EvtsMask) \cup {}]
      BY <2>3 DEF RmStateChange
    <3>4. (rmAdd[d] \ EvtsMask) \cup {} = rmAdd[d] \ EvtsMask
      BY <3>1
    <3> QED BY <1>0, <1>1, <3>2, <3>3, <3>4 DEF EvtsMask, WordTypes
  <2> QED BY <1>1, <1>3, <1>4, <1>5, <2>1, <2>3, <2>4, <2>5, <2>6
<1>6. CASE ~Late(d)
  <2>1. /\ "REQUEST" \in word[d] /\ "READY" \notin word[d] /\ d \notin Listed /\ d # ticking
        /\ "REQUEST" \notin rmDel[d]
    BY <1>2, <1>6 DEF TidyEvent
  <2>2. word[d] \cap EvtsMask = {"REQUEST"}
    BY <1>6, <2>1 DEF Late, EvtsMask
  <2>3. PlistInsert(d) /\ RmStateChange(d, EvtsMask, {}) /\ UNCHANGED <<signal, asleep, online>>
    BY <2>2 DEF Event, schedVars
  <2>4. UrgentFirst' /\ Listed' = Listed \cup {d}
    BY <1>0, <1>1, <2>1, <2>3, InsertIs
  <2>6. rmDel' = [rmDel EXCEPT ![d] = @ \cup EvtsMask] /\ rmAdd' = [rmAdd EXCEPT ![d] = @ \ EvtsMask]
        /\ "REQUEST" \in rmDel'[d]
    <3>2. rmDel' = [rmDel EXCEPT ![d] = @ \cup EvtsMask]
      BY <2>3 DEF RmStateChange
    <3>3. rmAdd' = [rmAdd EXCEPT ![d] = (@ \ EvtsMask) \cup {}]
      BY <2>3 DEF RmStateChange
    <3>4. (rmAdd[d] \ EvtsMask) \cup {} = rmAdd[d] \ EvtsMask
      OBVIOUS
    <3> QED BY <1>0, <1>1, <3>2, <3>3, <3>4 DEF EvtsMask, WordTypes
  <2> QED BY <1>1, <1>3, <1>4, <1>6, <2>1, <2>3, <2>4, <2>6
<1> QED BY <1>5, <1>6

\* The steps of the service that receives.
LEMMA ServerTidy ==
  ASSUME Base, Tame, \A d \in Clients : TidyClient(d), UrgentFirst, NEW c \in Clients, ServerDoes
  PROVE  TidyClient(c)'
<1>0. /\ WordTypes /\ QueueTypes /\ Located /\ Server \in Threads /\ Clients \subseteq Threads
      /\ c \in Threads /\ c # Server /\ None \notin Clients /\ None # Server /\ c # None /\ Situated(c)
      /\ TidyClient(c)
  BY Consts, TypesAre DEF Base
<1>1. tag[Server] = None
  BY <1>0 DEF ServerDoes, Recv, Drain, Event, Check, Resume, PickNone, At, Located
<1>2. CASE Recv \/ Check \/ Resume \/ PickNone
  <2>1. /\ word'[c] = word[c] /\ loc'[c] = loc[c] /\ (c \in asleep' <=> c \in asleep) /\ ticking' = ticking
        /\ UNCHANGED <<mode, rmAdd, rmDel, tag, evtq, hand, ring>>
    BY <1>0, <1>2 DEF Recv, Check, Resume, PickNone, ipcVars, queueVars, schedVars, Goto, WordTypes, QueueTypes
  <2>2. (InEvents(c)' <=> InEvents(c)) /\ (c \in Queued' => c # hand') /\ Listed' = Listed
    BY <1>0, <2>1 DEF InEvents, Queued, Listed, TidyClient, TidyEvent
  <2> QED BY <1>0, <1>1, <2>1, <2>2, TidyFrame
<1>3. CASE Drain
  <2>1. /\ word'[c] = word[c] /\ loc'[c] = loc[c] /\ (c \in asleep' <=> c \in asleep) /\ ticking' = ticking
        /\ UNCHANGED <<mode, rmAdd, rmDel, tag, ring>>
    BY <1>0, <1>3 DEF Drain, ipcVars, schedVars, Goto, QueueTypes
  <2>2. (InEvents(c)' <=> InEvents(c)) /\ (c \in Queued' => c # hand')
    <3>1. CASE evtq = <<>>
      BY <1>0, <1>3, <3>1 DEF Drain, InEvents, Queued, TidyClient, TidyEvent
    <3>2. CASE evtq # <<>>
      <4>1. hand' = Head(evtq) /\ Queued' = Queued \ {Head(evtq)} /\ Head(evtq) \in Queued /\ hand = None
        BY <1>0, <1>3, <3>2, HeadIs DEF Drain, At, Queued, Located, QueueTypes
      <4> QED BY <1>0, <4>1 DEF InEvents
    <3> QED BY <3>1, <3>2
  <2>3. Listed' = Listed
    BY <2>1 DEF Listed
  <2> QED BY <1>0, <1>1, <2>1, <2>2, <2>3, TidyFrame
<1>4. CASE Event
  <2>1. PICK d \in Clients :
           /\ d = hand /\ hand' = None /\ evtq' = evtq /\ word' = word /\ tag' = tag /\ ticking' = ticking
           /\ mode' = mode /\ loc' = [loc EXCEPT ![Server] = "drain"]
           /\ rmDel' = [rmDel EXCEPT ![d] = @ \cup EvtsMask] /\ rmAdd' = [rmAdd EXCEPT ![d] = @ \ EvtsMask]
           /\ d \notin Queued /\ "REQUEST" \in rmDel'[d]
           /\ \/ /\ ~Late(d) /\ "READY" \notin word[d] /\ d \notin Listed /\ d # ticking
                 /\ Listed' = Listed \cup {d} /\ asleep' = asleep
              \/ /\ Late(d) /\ "READY" \in word[d] /\ loc[d] = "wait" /\ ticking = None
                 /\ Listed' = Listed \ {d} /\ asleep' = asleep \ {d}
    BY <1>4, EventIs
  <2>2. loc'[c] = loc[c] /\ loc'[Server] = "drain" /\ Queued' = Queued
    BY <1>0, <2>1 DEF QueueTypes, Queued
  <2>3. CASE c # d
    <3>1. rmDel'[c] = rmDel[c] /\ rmAdd'[c] = rmAdd[c]
      BY <1>0, <2>1, <2>3 DEF WordTypes
    <3>2. (c \in asleep' <=> c \in asleep) /\ (c \in Listed' <=> c \in Listed)
      BY <2>1, <2>3
    <3>3. (InEvents(c)' <=> InEvents(c)) /\ (c \in Queued' => c # hand')
      BY <1>0, <2>1, <2>2, <2>3 DEF InEvents
    <3> QED BY <1>0, <1>1, <2>1, <2>2, <2>3, <3>1, <3>2, <3>3, TidyFrame
  <2>4. CASE c = d
    <3>1. InEvents(c) /\ ~InEvents(c)'
      BY <1>0, <2>1, <2>2, <2>4 DEF InEvents
    <3>2. ~Away(c) /\ loc[c] \notin {"idle", "nap", "queue"}
      BY <1>0, <3>1 DEF TidyClient, TidyAway, Away
    <3> QED BY <1>0, <1>1, <2>1, <2>2, <2>4, <3>1, <3>2
          DEF TidyClient, TidyAway, TidyEvent, TidyTaken, Away, Late, Settled, Overdue, Punctual
  <2> QED BY <2>3, <2>4
<1> QED BY <1>2, <1>3, <1>4 DEF ServerDoes

\* A thread that is woken, or not, with its word as it is.
LEMMA WakeupIs ==
  ASSUME NEW c \in Threads, UNCHANGED word, Wakeup(c)
  PROVE  \/ asleep' = asleep /\ online' = online
         \/ /\ asleep' = asleep \ {c} /\ online' = online \ {c} /\ ticking = None
            /\ "IN_IPC" \in word[c] => "READY" \in word[c]
BY DEF Wakeup, KernelFree, schedVars

\* The steps of the service that serves d do not concern another client.
LEMMA ServesOther ==
  ASSUME Base, UrgentFirst, NEW c \in Clients, NEW d \in Clients, c # d, ServesDoes(d)
  PROVE  /\ mode' = mode /\ word'[c] = word[c] /\ rmAdd'[c] = rmAdd[c] /\ rmDel'[c] = rmDel[c]
         /\ tag'[c] = tag[c] /\ loc'[c] = loc[c] /\ (c \in asleep' <=> c \in asleep)
         /\ (c \in online' <=> c \in online) /\ msg'[c] = msg[c]
         /\ UNCHANGED <<ticking, evtq, hand, calls, result>> /\ (c \in Listed' <=> c \in Listed)
         /\ tag[Server] # c /\ tag'[Server] # c
<1>0. /\ WordTypes /\ QueueTypes /\ UserTypes /\ Located /\ Server \in Threads /\ Clients \subseteq Threads
      /\ c \in Threads /\ d \in Threads /\ c # Server /\ d # Server
      /\ None \notin Clients /\ None # Server /\ c # None
  BY Consts, TypesAre DEF Base
<1>1. mode' = mode /\ UNCHANGED <<ticking, evtq, hand, calls, result>>
  BY DEF ServesDoes, Pick, InTimeout, InSend, InCall, Took, Answer, Reply, queueVars, userVars
<1>2. word'[c] = word[c] /\ rmAdd'[c] = rmAdd[c] /\ rmDel'[c] = rmDel[c]
  BY <1>0 DEF ServesDoes, Pick, InTimeout, InSend, InCall, Took, Answer, Reply, RmStateChange, Ready, Settle, WordTypes
<1>3. tag'[c] = tag[c] /\ tag[Server] # c /\ tag'[Server] # c
  BY <1>0 DEF ServesDoes, Pick, InTimeout, InSend, InCall, Took, Answer, Reply, At, WordTypes, Located
<1>4. loc'[c] = loc[c]
  BY <1>0 DEF ServesDoes, Pick, InTimeout, InSend, InCall, Took, Answer, Reply, Goto, QueueTypes
<1>5. (c \in asleep' <=> c \in asleep) /\ (c \in online' <=> c \in online)
  BY <1>0 DEF ServesDoes, Pick, InTimeout, InSend, InCall, Took, Answer, Reply, Wakeup, Settle, schedVars
<1>6. msg'[c] = msg[c]
  BY <1>0 DEF ServesDoes, Pick, InTimeout, InSend, InCall, Took, Answer, Reply, Copied, userVars, UserTypes
<1>7. c \in Listed' <=> c \in Listed
  <2>1. Pick(d) => Listed' = Listed \ {d}
    BY <1>0, NextIs DEF Pick, RecvNext
  <2>2. ~Pick(d) => ring' = ring
    BY DEF ServesDoes, InTimeout, InSend, InCall, Took, Answer, Reply, queueVars
  <2> QED BY <2>1, <2>2 DEF Listed
<1> QED BY <1>1, <1>2, <1>3, <1>4, <1>5, <1>6, <1>7

\* The steps of the service that serves.
LEMMA ServesTidy ==
  ASSUME Base, Tame, NEW c \in Clients, TidyClient(c), UrgentFirst, NEW d \in Clients, ServesDoes(d)
  PROVE  TidyClient(c)'
<1>0. /\ WordTypes /\ QueueTypes /\ Located /\ Server \in Threads /\ Clients \subseteq Threads
      /\ c \in Threads /\ c # Server /\ None \notin Clients /\ None # Server /\ c # None /\ Situated(c)
      /\ TidyAway(c) /\ TidyEvent(c) /\ TidyTaken(c)
  BY Consts, TypesAre DEF Base, TidyClient
<1>1. CASE c # d
  <2>1. (InEvents(c)' <=> InEvents(c)) /\ (c \in Queued' => c # hand')
    BY <1>0, <1>1, ServesOther DEF InEvents, Queued, TidyEvent
  <2> QED BY <1>1, <2>1, ServesOther, TidyFrame
<1>2. /\ mode' = mode /\ ticking' = ticking /\ Queued' = Queued /\ hand' = hand /\ hand = None
      /\ loc'[c] = loc[c] /\ (InEvents(c)' <=> InEvents(c))
  <2>1. mode' = mode /\ ticking' = ticking /\ evtq' = evtq /\ hand' = hand /\ loc[Server] # "event"
    BY DEF ServesDoes, Pick, InTimeout, InSend, InCall, Took, Answer, Reply, queueVars, At
  <2>2. loc'[c] = loc[c]
    BY <1>0 DEF ServesDoes, Pick, InTimeout, InSend, InCall, Took, Answer, Reply, Goto, QueueTypes
  <2> QED BY <1>0, <2>1, <2>2 DEF Queued, InEvents, Located
<1>3. ~Pick(d) => Listed' = Listed
  BY DEF ServesDoes, InTimeout, InSend, InCall, Took, Answer, Reply, queueVars, Listed
<1>4. CASE c = d /\ Pick(c)
  <2>1. /\ UNCHANGED <<word, rmAdd, rmDel, asleep>> /\ loc'[Server] = "in" /\ tag'[Server] = c
        /\ Listed' = Listed \ {c} /\ c \in Listed
    BY <1>0, <1>4, NextIs DEF Pick, RecvNext, Goto, schedVars, WordTypes, QueueTypes
  <2> QED BY <1>0, <1>2, <2>1
          DEF TidyClient, TidyAway, TidyEvent, TidyTaken, Away, Late, Settled, Overdue, Punctual
<1>5. CASE c = d /\ ~Pick(c) /\ loc[Server] \in {"in", "serve"}
  <2>1. tag[Server] = c /\ ~Settled /\ c \notin Listed /\ Listed' = Listed
        /\ "REQUEST" \in rmDel[c] /\ ~Away(c)
    <3>1. tag[Server] = c
      BY <1>5 DEF ServesDoes, InTimeout, InSend, InCall, Took, Answer, Reply
    <3> QED BY <1>0, <1>3, <1>5, <3>1 DEF Settled, TidyAway, TidyTaken
  <2>2. /\ asleep' = asleep
        /\ word' = word \/ word' = Ready(c)
        /\ UNCHANGED <<rmAdd, rmDel>> \/ RmStateChange(c, {"SEND_WT", "RECV"}, {"RECV_WT"})
        /\ \/ word' = word /\ tag'[Server] = None /\ loc'[Server] \in {"user", "drain"}
           \/ word' = Ready(c) /\ "READY" \notin word[c] /\ tag'[Server] = c /\ loc'[Server] \in {"took", "answer"}
           \/ word' = word /\ "READY" \notin word[c] /\ tag'[Server] = c /\ loc'[Server] = "serve"
    BY <1>0, <1>5, <2>1 DEF ServesDoes, InTimeout, InSend, InCall, InTime, Took, Answer, Reply, Has, At, Goto, Settle,
       schedVars, WordTypes, QueueTypes
  <2>3. "REQUEST" \in rmDel'[c]
    BY <1>0, <2>1, <2>2 DEF RmStateChange, WordTypes
  <2>4. word'[c] = word[c] \/ (word'[c] = word[c] \cup {"READY"} /\ "READY" \notin word[c]
                               /\ tag'[Server] = c /\ loc'[Server] \in {"took", "answer"})
    BY <1>0, <2>2 DEF Ready, WordTypes
  <2>5. "READY" \notin word[c] => ~InEvents(c) /\ c # ticking /\ ~Late(c)
    BY <1>0, <2>1 DEF TidyEvent, Situated
  <2>6. Late(c)' <=> Late(c)
    BY <2>4 DEF Late
  <2>7. TidyAway(c)'
    BY <1>2, <2>1, <2>2 DEF TidyAway, Away
  <2>8. TidyEvent(c)'
    BY <1>0, <1>2, <2>1, <2>3, <2>4, <2>5, <2>6 DEF TidyEvent, Punctual
  <2>9. TidyTaken(c)'
    <3>1. c \notin Listed'
      BY <2>1
    <3>2. CASE word'[c] = word[c]
      <4>1. tag'[Server] = c => loc'[Server] = "serve" /\ "READY" \notin word[c]
        BY <1>0, <2>2, <3>2 DEF Ready, WordTypes
      <4> QED BY <2>3, <3>1, <3>2, <4>1 DEF TidyTaken, Settled
    <3>3. CASE word'[c] # word[c]
      BY <1>2, <2>3, <2>4, <2>5, <3>1, <3>3 DEF TidyTaken, Settled
    <3> QED BY <3>2, <3>3
  <2> QED BY <2>7, <2>8, <2>9 DEF TidyClient
<1>6. CASE c = d /\ (Took(c) \/ Answer(c))
  <2>1. /\ tag[Server] = c /\ Settled /\ c \notin Listed /\ Listed' = Listed
        /\ tag'[Server] = None /\ word' = word
    <3>1. tag[Server] = c /\ loc[Server] \in {"took", "answer"} /\ word' = word /\ tag'[Server] = None
      BY <1>0, <1>6 DEF Took, Answer, At, WordTypes
    <3>2. Listed' = Listed
      BY <1>6 DEF Took, Answer, queueVars, Listed
    <3> QED BY <1>0, <3>1, <3>2 DEF Settled, TidyTaken
  <2>2. \/ c \in asleep' <=> c \in asleep
        \/ c \notin asleep' /\ ticking = None /\ ("IN_IPC" \in word[c] => "READY" \in word[c])
    BY <1>0, <1>6, WakeupIs DEF Took, Answer
  <2>3. "REQUEST" \in rmDel'[c] => "REQUEST" \in rmDel[c]
    BY <1>0, <1>6 DEF Took, Answer, RmStateChange, WordTypes
  <2>4. loc[c] \in {"idle", "nap", "queue"} => mode.strays
    BY <1>0, <2>1 DEF TidyAway, Away
  <2>5. Away(c)' => ~InEvents(c) /\ c # ticking
    <3>1. CASE Away(c)
      BY <1>0, <3>1 DEF TidyAway
    <3>2. CASE ~Away(c) /\ Away(c)'
      <4>1. loc[c] = "wait" /\ ticking = None /\ "READY" \in word[c]
        BY <1>0, <1>2, <2>2, <3>2 DEF Away, Situated
      <4>2. CASE mode.strays
        <5>1. Punctual
          BY <4>2 DEF Tame, Orderly
        <5> QED BY <1>0, <4>1, <5>1 DEF TidyEvent
      <4>3. CASE ~mode.strays
        BY <1>0, <2>1, <4>1, <4>3 DEF TidyTaken
      <4> QED BY <4>2, <4>3
    <3> QED BY <3>1, <3>2
  <2> QED BY <1>0, <1>2, <2>1, <2>3, <2>4, <2>5
          DEF TidyClient, TidyAway, TidyEvent, TidyTaken, Away, Late, Settled, Overdue, Punctual
<1>7. ServesDoes(c) => Pick(c) \/ Took(c) \/ Answer(c) \/ loc[Server] \in {"in", "serve"}
  BY DEF ServesDoes, InTimeout, InSend, InCall, Reply, At
<1> QED BY <1>1, <1>4, <1>5, <1>6, <1>7

\* The steps of the service that closes.
LEMMA CloseTidy ==
  ASSUME Base, Tame, Tidy, NEW c \in Clients, CloseDoes
  PROVE  TidyClient(c)'
<1>0. /\ WordTypes /\ QueueTypes /\ Located /\ Server \in Threads /\ Clients \subseteq Threads
      /\ c \in Threads /\ c # Server /\ None \notin Clients /\ None # Server /\ c # None /\ Situated(c)
      /\ TidyAway(c) /\ TidyEvent(c) /\ TidyTaken(c) /\ UrgentFirst /\ TidyClient(c)
  BY Consts, TypesAre DEF Base, TidyClient, Tidy
<1>1. mode' = mode /\ ticking' = ticking /\ hand' = hand /\ hand = None /\ loc'[c] = loc[c]
  <2>1. mode' = mode /\ ticking' = ticking /\ hand' = hand /\ loc[Server] # "event"
    BY DEF CloseDoes, ShutEnd, SweepAgain, Closed, Close, ShutNext, SweepNext, queueVars, At
  <2>2. loc'[c] = loc[c]
    BY <1>0 DEF CloseDoes, ShutEnd, SweepAgain, Closed, Close, ShutNext, SweepNext, Goto, QueueTypes
  <2> QED BY <1>0, <2>1, <2>2 DEF Located
<1>2. CASE ShutEnd \/ SweepAgain \/ Closed
  <2>1. /\ word' = word /\ UNCHANGED <<rmAdd, rmDel, ring, evtq>> /\ (c \in asleep' <=> c \in asleep)
        /\ (tag' = tag \/ tag'[Server] = None)
    BY <1>0, <1>2 DEF ShutEnd, SweepAgain, Closed, ipcVars, queueVars, schedVars, WordTypes
  <2>2. loc[Server] \in {"shut", "sweep", "resweep"} /\ loc'[Server] \in {"user", "sweep", "resweep"}
        /\ (loc'[Server] = "user" => tag'[Server] = None)
    BY <1>0, <1>2 DEF ShutEnd, SweepAgain, Closed, At, Goto, WordTypes, QueueTypes
  <2>3. Listed' = Listed /\ Queued' = Queued /\ (InEvents(c)' <=> InEvents(c))
    BY <1>1, <2>1 DEF Listed, Queued, InEvents
  <2> QED BY <1>0, <1>1, <2>1, <2>2, <2>3
          DEF TidyClient, TidyAway, TidyEvent, TidyTaken, Away, Late, Settled, Overdue, Punctual
<1>3. ASSUME NEW d \in Clients, Close(d) PROVE TidyClient(c)'
  <2>1. /\ UNCHANGED <<rmAdd, rmDel, ring, evtq, asleep>> /\ tag[Server] = d /\ loc[Server] = "serve"
        /\ loc'[Server] = "shut"
    BY <1>0, <1>3 DEF Close, At, Goto, schedVars, queueVars, QueueTypes
  <2>2. tag'[Server] = IF "READY" \in word[d] THEN None ELSE d
    BY <1>0, <1>3 DEF Close, Has, WordTypes
  <2>3. word'[c] = IF c = d THEN word[c] \cup {"READY"} ELSE word[c]
    BY <1>0, <1>3 DEF Close, WordTypes
  <2>4. Listed' = Listed /\ Queued' = Queued /\ (InEvents(c)' <=> InEvents(c)) /\ (Late(c)' <=> Late(c))
    BY <1>1, <2>1, <2>3 DEF Listed, Queued, InEvents, Late
  <2>5. CASE c # d
    BY <1>0, <1>1, <2>1, <2>2, <2>3, <2>4, <2>5
       DEF TidyClient, TidyAway, TidyEvent, TidyTaken, Away, Late, Settled, Overdue, Punctual
  <2>6. CASE c = d
    <3>1. ~Settled /\ ~Away(c) /\ c \notin Listed
      BY <1>0, <2>1, <2>6 DEF TidyAway, TidyTaken, Settled
    <3>2. "READY" \notin word[c] => ~InEvents(c) /\ c # ticking /\ ~Late(c)
      BY <1>0, <2>1, <2>6, <3>1 DEF TidyEvent, Situated
    <3> QED BY <1>0, <1>1, <2>1, <2>2, <2>3, <2>4, <2>6, <3>1, <3>2
            DEF TidyClient, TidyAway, TidyEvent, TidyTaken, Away, Settled, Overdue, Punctual
  <2> QED BY <2>5, <2>6
<1>4. ASSUME NEW d \in Clients, ShutNext(d) PROVE TidyClient(c)'
  <2>1. /\ tag' = tag /\ loc' = loc /\ evtq' = evtq
        /\ Listed' = Listed \ {d} /\ d \in Listed
    BY <1>0, <1>4, NextIs DEF ShutNext, RecvNext
  <2>2. \/ /\ "READY" \in word[d] /\ UNCHANGED <<word, rmAdd, rmDel, asleep>>
        \/ /\ "READY" \notin word[d] /\ word' = Ready(d) /\ asleep' = asleep \ {d}
           /\ RmStateChange(d, {}, {"ES_ERROR"}) /\ ticking = None
    BY <1>0, <1>4 DEF ShutNext, Has, Wakeup, Ready, schedVars, WordTypes, KernelFree
  <2>3. (InEvents(c)' <=> InEvents(c)) /\ Queued' = Queued
    BY <1>1, <2>1 DEF Queued, InEvents
  <2>4. CASE c # d
    <3>1. /\ word'[c] = word[c] /\ rmAdd'[c] = rmAdd[c] /\ rmDel'[c] = rmDel[c] /\ (c \in asleep' <=> c \in asleep)
      BY <1>0, <2>2, <2>4 DEF Ready, RmStateChange, WordTypes
    <3>2. c \in Queued' => c # hand'
      BY <1>0, <1>1
    <3> QED BY <1>0, <1>1, <2>1, <2>3, <2>4, <3>1, <3>2, TidyFrame
  <2>5. CASE c = d
    <3>1. ~Away(c) /\ "REQUEST" \in rmDel[c] /\ c # tag[Server] /\ ("READY" \notin word[c] => ~InEvents(c) /\ ~Late(c))
      BY <1>0, <2>1, <2>5 DEF TidyAway, TidyTaken, TidyEvent
    <3>2. rmDel'[c] = rmDel[c] \cup {} \/ rmDel'[c] = rmDel[c]
      BY <1>0, <2>2, <2>5 DEF RmStateChange, WordTypes
    <3>3. word'[c] = word[c] \/ (word'[c] = word[c] \cup {"READY"} /\ "READY" \notin word[c])
      BY <1>0, <2>2, <2>5 DEF Ready, WordTypes
    <3>4. (Late(c)' <=> Late(c)) /\ ("READY" \notin word[c] => c # ticking)
      BY <1>0, <3>3 DEF Late, Situated
    <3>5. (word'[c] # word[c] => "READY" \in word'[c]) /\ (c \in asleep' \/ (c \in asleep' <=> c \in asleep) \/ "READY" \notin word[c])
      BY <2>2, <2>5, <3>3
    <3> QED BY <1>0, <1>1, <2>1, <2>3, <2>5, <3>1, <3>2, <3>3, <3>4, <3>5
            DEF TidyClient, TidyAway, TidyEvent, TidyTaken, Away, Settled, Overdue, Punctual
  <2> QED BY <2>4, <2>5
<1>5. ASSUME NEW d \in Clients, SweepNext(d) PROVE TidyClient(c)'
  <2>1. /\ word' = word /\ ring' = ring /\ loc' = loc /\ tag' = tag /\ loc[Server] \in {"sweep", "resweep"}
        /\ RmStateChange(d, EsMask, {"ES_ERROR"})
    BY <1>5 DEF SweepNext, At
  <2>2. d \in Queued /\ Queued' = Queued \ {d} /\ Listed = {} /\ Listed' = {} /\ Settled
    <3>1. d \in Queued /\ Queued' = Queued \ {d}
      BY <1>0, <1>5, HeadIs DEF SweepNext, Queued, Located, QueueTypes
    <3> QED BY <2>1, <3>1 DEF Tidy, Listed, Settled
  <2>3. \/ asleep' = asleep
        \/ asleep' = asleep \ {d} /\ ticking = None /\ ("IN_IPC" \in word[d] => "READY" \in word[d])
    BY <1>0, <1>5, WakeupIs DEF SweepNext
  <2>4. CASE c # d
    <3>1. /\ word'[c] = word[c] /\ rmAdd'[c] = rmAdd[c] /\ rmDel'[c] = rmDel[c] /\ (c \in asleep' <=> c \in asleep)
      BY <1>0, <2>1, <2>3, <2>4 DEF RmStateChange, WordTypes
    <3>2. (InEvents(c)' <=> InEvents(c)) /\ (c \in Queued' => c # hand')
      BY <1>0, <1>1, <2>2, <2>4 DEF InEvents
    <3> QED BY <1>0, <1>1, <2>1, <2>2, <2>4, <3>1, <3>2, TidyFrame
  <2>5. CASE c = d
    <3>1. ~InEvents(c)' /\ InEvents(c) /\ ~Away(c)
      BY <1>0, <1>1, <2>2, <2>5 DEF InEvents, TidyAway
    <3>2. tag[Server] = c => mode.strays
      BY <1>0, <2>2, <3>1 DEF TidyTaken
    <3>3. rmDel'[c] = rmDel[c] \cup EsMask
      BY <1>0, <2>1, <2>5 DEF RmStateChange, WordTypes
    <3> QED BY <1>0, <1>1, <2>1, <2>2, <2>3, <2>5, <3>1, <3>2, <3>3
            DEF TidyClient, TidyAway, TidyEvent, TidyTaken, Away, Late, Settled, Overdue, Punctual
  <2> QED BY <2>4, <2>5
<1> QED BY <1>2, <1>3, <1>4, <1>5 DEF CloseDoes

\* The priority list stays in order.
LEMMA UrgentKept ==
  ASSUME Base, Tame, Tidy, [Next]_vars
  PROVE  UrgentFirst'
<1>0. QueueTypes /\ UrgentFirst /\ \A d \in Clients : TidyClient(d)
  BY TypesAre DEF Base, Tidy, TidyClient
<1>1. UNCHANGED <<ring, prioCur>> => UrgentFirst'
  BY <1>0 DEF UrgentFirst
<1>2. ASSUME NEW c \in Clients, ClientDoes(c) PROVE UNCHANGED <<ring, prioCur>>
  BY <1>2 DEF ClientDoes, Kernel, Queue, Finish, NapOver, Nap, Stray, Send, queueVars
<1>3. TickDoes => UNCHANGED <<ring, prioCur>>
  BY DEF TickDoes, TickEvent, TickPlain, TickDecided, TickExpire, queueVars
<1>4. ServerDoes => Event \/ UNCHANGED <<ring, prioCur>>
  BY DEF ServerDoes, Recv, Drain, Check, Resume, PickNone, queueVars
<1>5. Event => UrgentFirst'
  BY <1>0, EventIs
<1>6. ASSUME NEW c \in Clients, ServesDoes(c) PROVE PlistNext(c) \/ UNCHANGED <<ring, prioCur>>
  BY <1>6 DEF ServesDoes, Pick, RecvNext, InTimeout, InSend, InCall, Took, Answer, Reply, queueVars
<1>7. CloseDoes => UNCHANGED <<ring, prioCur>> \/ \E c \in Clients : PlistNext(c)
  BY DEF CloseDoes, ShutEnd, SweepAgain, Closed, Close, ShutNext, RecvNext, SweepNext, queueVars
<1>8. UNCHANGED vars => UNCHANGED <<ring, prioCur>>
  BY DEF vars, queueVars
<1> QED BY <1>0, <1>1, <1>2, <1>3, <1>4, <1>5, <1>6, <1>7, <1>8, NextIs, StepIs

\* A service that sweeps its events has no requests listed.
LEMMA SweptKept ==
  ASSUME Base, Tidy, [Next]_vars, loc'[Server] \in {"sweep", "resweep"}
  PROVE  Listed' = {}
<1>0. /\ QueueTypes /\ UrgentFirst /\ Server \in Threads /\ Server \notin Clients
  BY TypesAre, Consts DEF Base, Tidy
<1>1. loc[Server] \in {"sweep", "resweep"} /\ ring' = ring => Listed' = {}
  BY DEF Tidy, Listed
<1>2. ASSUME NEW c \in Clients, ClientDoes(c) PROVE loc'[Server] = loc[Server] /\ ring' = ring
  BY <1>0, <1>2 DEF ClientDoes, Kernel, Queue, Finish, NapOver, Nap, Stray, Send, Goto, queueVars, QueueTypes
<1>3. TickDoes => loc' = loc /\ ring' = ring
  BY DEF TickDoes, TickEvent, TickPlain, TickDecided, TickExpire, queueVars
<1>4. ~ServerDoes
  BY <1>0 DEF ServerDoes, Recv, Drain, Event, Check, Resume, PickNone, Goto, QueueTypes
<1>5. ASSUME NEW c \in Clients PROVE ~ServesDoes(c)
  BY <1>0 DEF ServesDoes, Pick, InTimeout, InSend, InCall, Took, Answer, Reply, Goto, QueueTypes
<1>6. CASE CloseDoes
  <2>1. CASE ShutEnd
    <3>1. ring' = ring /\ Listed = {}
      BY <1>0, <2>1, NoneListed DEF ShutEnd, queueVars
    <3> QED BY <3>1 DEF Listed
  <2>2. CASE SweepAgain \/ \E c \in Clients : SweepNext(c)
    <3>1. ring' = ring /\ loc[Server] \in {"sweep", "resweep"}
      BY <2>2 DEF SweepAgain, SweepNext, queueVars, At
    <3> QED BY <1>1, <3>1
  <2>3. CASE Closed \/ \E c \in Clients : Close(c)
    BY <1>0, <2>3 DEF Closed, Close, Goto, QueueTypes
  <2>4. ASSUME NEW c \in Clients, ShutNext(c) PROVE FALSE
    BY <2>4 DEF ShutNext, At
  <2> QED BY <1>6, <2>1, <2>2, <2>3, <2>4 DEF CloseDoes
<1>7. UNCHANGED vars => loc' = loc /\ ring' = ring
  BY DEF vars, queueVars
<1> QED BY <1>1, <1>2, <1>3, <1>4, <1>5, <1>6, <1>7, StepIs

\* All stays tidy.
LEMMA TidyKept ==
  ASSUME Base, Tame, Tidy, [Next]_vars
  PROVE  Tidy'
<1>1. UrgentFirst /\ \A d \in Clients : TidyClient(d)
  BY DEF Tidy, TidyClient
<1>2. ASSUME NEW c \in Clients PROVE TidyClient(c)'
  <2>1. UNCHANGED vars => TidyClient(c)'
    <3> SUFFICES ASSUME UNCHANGED vars PROVE TidyClient(c)'
      OBVIOUS
    <3>1. Queued' = Queued /\ Listed' = Listed /\ (InEvents(c)' <=> InEvents(c))
      BY DEF vars, queueVars, Queued, Listed, InEvents
    <3>2. TidyClient(c) /\ (c \in Queued => c # hand)
      BY <1>1 DEF TidyClient, TidyEvent
    <3> QED BY <3>1, <3>2, TidyFrame DEF vars, ipcVars, queueVars, schedVars
  <2> QED BY <1>1, <2>1, ClientTidy, TickTidy, ServerTidy, ServesTidy, CloseTidy, StepIs
<1> QED BY <1>2, UrgentKept, SweptKept DEF Tidy, TidyClient

\* At the start all is tidy.
LEMMA InitTidy ==
  ASSUME Init
  PROVE  Tidy
<1>0. None \notin Clients /\ Server \notin Clients /\ Server \in Threads
  BY Consts
<1>1. Queued = {} /\ Listed = {}
  BY DEF Init, Queued, Listed, Members
<1>2. UrgentFirst
  BY DEF Init, UrgentFirst, Distinct, Members
<1>3. ASSUME NEW c \in Clients PROVE TidyClient(c)
  <2>1. /\ word[c] = {} /\ rmAdd[c] = {} /\ rmDel[c] = {} /\ loc[c] = "idle" /\ tag[Server] = None
        /\ hand = None /\ ticking = None /\ c # None
    BY <1>0 DEF Init, Threads
  <2> QED BY <1>1, <2>1 DEF TidyClient, TidyAway, TidyEvent, TidyTaken, Away, InEvents, Late, Settled, Overdue
<1>4. loc[Server] = "user"
  BY <1>0 DEF Init
<1> QED BY <1>1, <1>2, <1>3, <1>4 DEF Tidy, TidyClient

\* With orderly timeouts, or with none, all is always tidy.
THEOREM TidyOK == Spec => [](Base /\ (Tame => Tidy))
<1>1. Init => Base /\ (Tame => Tidy)
  BY InitBase, InitTidy
<1>2. Base /\ (Tame => Tidy) /\ [Next]_vars => (Base /\ (Tame => Tidy))'
  <2> SUFFICES ASSUME Base, Tame => Tidy, [Next]_vars PROVE Base' /\ (Tame' => Tidy')
    OBVIOUS
  <2>1. Tame' <=> Tame
    BY ModeSame DEF Tame, Orderly, Punctual
  <2> QED BY <2>1, BaseKept, TidyKept
<1> QED BY <1>1, <1>2, PTL DEF Spec

\* A client between two IPCs is in no structure of the service
\* (__ipcRecvEventPro, __ipcSendWaitHandle).
THEOREM NothingLeftBehindOK == Spec => []NothingLeftBehind
<1>1. Base /\ (Tame => Tidy) => NothingLeftBehind
  <2> SUFFICES ASSUME Base, Tame => Tidy, Orderly, NEW c \in Clients, loc[c] \in {"idle", "nap"}
               PROVE  /\ c \notin Queued \cup Listed \cup {hand, ticking, tag[Server]}
                      /\ rmAdd[c] = {} /\ rmDel[c] = {}
    BY DEF NothingLeftBehind
  <2>1. TidyAway(c) /\ ~mode.strays
    BY DEF Tame, Orderly, Tidy
  <2> QED BY <2>1 DEF TidyAway, Away, InEvents
<1> QED BY <1>1, TidyOK, PTL

\* The service has its most urgent request first (__ipcPlistInsert, __ipcPlistNext,
\* __ipcPlistRemove, __ipcPlistPrioFlush).
THEOREM MostUrgentFirstOK == Spec => []MostUrgentFirst
<1>1. Base /\ (Tame => Tidy) => MostUrgentFirst
  BY DEF Base, MostUrgentFirst, Tame, Tidy
<1> QED BY <1>1, TidyOK, PTL
-----------------------------------------------------------------------------
(* The signal counts the requests.                                            *)

\* A service that is not to close does not.
Stays == mode.closing \/ loc[Server] \notin {"shut", "sweep", "resweep"}

\* While the service is open, an event or a remote word knows of each request, and
\* the request of a timeout has been seen.
Reckoned ==
    \A c \in Clients : /\ loc[c] \in {"kernel", "wait"} => InEvents(c) \/ "REQUEST" \in rmDel[c]
                       /\ Late(c) => "REQUEST" \in rmDel[c]

\* The requests that are counted and to be dealt with, and those dealt with before
\* they were counted.
Plus(c)  == loc[c] = "wait" /\ Pending(c)
Minus(c) == loc[c] = "kernel" /\ ~Pending(c)
Ahead    == {c \in Clients : Plus(c)}
Behind   == {c \in Clients : Minus(c)}
Counted  == signal = (Cardinality(Ahead) + SignalMod - Cardinality(Behind)) % SignalMod
Countable == Tame /\ (mode.closing => Punctual /\ ~mode.preempt)
Reckoning ==
    /\ Stays
    /\ Orderly /\ ~mode.closing => Reckoned
    /\ Countable => Counted
    /\ Punctual /\ ~mode.preempt => result[Server] # "SER_SIGNAL"

\* All there is to a step, and what must not be under way.
LEMMA QuietIs ==
  ASSUME [Next]_vars
  PROVE  \/ \E c \in Clients : Kernel(c)
         \/ UNCHANGED vars
         \/ Undisturbed /\ \/ \E c \in Clients : ClientDoes(c)
                           \/ TickDoes \/ ServerDoes \/ (\E c \in Clients : ServesDoes(c)) \/ CloseDoes
BY DEF Next, ServerStep, Receive, CloseStep, ClientStep, Tick, ClientDoes, TickDoes, ServerDoes,
       ServesDoes, CloseDoes

\* The remainder, for a few multiples of the modulus.
LEMMA ModIs ==
  ASSUME NEW M \in Nat \ {0}, NEW a \in 0 .. 3 * M - 1
  PROVE  a % M = IF a < M THEN a ELSE IF a < 2 * M THEN a - M ELSE a - 2 * M
<1>1. CASE a < M
  BY <1>1
<1>2. CASE a >= M /\ a < 2 * M
  BY <1>2
<1>3. CASE a >= 2 * M
  BY <1>3
<1> QED BY <1>1, <1>2, <1>3

\* What the signal is when n requests are counted and k are behind.
Reads(s, n, k) == s = (n + SignalMod - k) % SignalMod

LEMMA ReadsUp ==
  ASSUME NEW s \in 0 .. SignalMod - 1, NEW n \in Nat, NEW k \in Nat, n < SignalMod, k < SignalMod, Reads(s, n, k)
  PROVE  /\ n + 1 < SignalMod => Reads((s + 1 + SignalMod) % SignalMod, n + 1, k)
         /\ k > 0 => Reads((s + 1 + SignalMod) % SignalMod, n, k - 1)
         /\ n > 0 => Reads((s + (-1) + SignalMod) % SignalMod, n - 1, k)
         /\ k + 1 < SignalMod => Reads((s + (-1) + SignalMod) % SignalMod, n, k + 1)
         /\ n = 0 /\ k = 0 => s = 0
<1> DEFINE M == SignalMod
           r(x, y) == IF x >= y THEN x - y ELSE x - y + M
<1>0. M \in Nat \ {0}
  BY Consts
<1> HIDE DEF M
<1>1. ASSUME NEW x \in 0 .. M - 1, NEW y \in 0 .. M - 1 PROVE (x + M - y) % M = r(x, y)
  <2> DEFINE a == x + M - y
  <2>1. a \in 0 .. 3 * M - 1 /\ a < 2 * M /\ (a < M <=> x < y)
    BY <1>0
  <2>2. a % M = IF a < M THEN a ELSE IF a < 2 * M THEN a - M ELSE a - 2 * M
    <3> HIDE DEF a
    <3> QED BY <1>0, <2>1, ModIs
  <2>3. CASE x < y
    BY <1>0, <2>1, <2>2, <2>3
  <2>4. CASE ~(x < y)
    <3>1. x >= y /\ a - M = x - y
      BY <1>0, <2>4
    <3> QED BY <2>1, <2>2, <2>4, <3>1
  <2> QED BY <2>3, <2>4
<1>2. s = r(n, k) /\ s \in 0 .. M - 1 /\ n \in 0 .. M - 1 /\ k \in 0 .. M - 1
  <2>1. s = (n + M - k) % M /\ s \in 0 .. M - 1 /\ n \in 0 .. M - 1 /\ k \in 0 .. M - 1
    BY <1>0 DEF Reads, M
  <2> QED BY <1>1, <2>1
<1>3. (s + 1 + M) % M = IF s = M - 1 THEN 0 ELSE s + 1
  <2> DEFINE a == s + 1 + M
  <2>1. a \in 0 .. 3 * M - 1 /\ ~(a < M) /\ (a < 2 * M <=> s # M - 1)
    BY <1>0, <1>2
  <2>2. a % M = IF a < M THEN a ELSE IF a < 2 * M THEN a - M ELSE a - 2 * M
    <3> HIDE DEF a
    <3> QED BY <1>0, <2>1, ModIs
  <2>3. a - M = s + 1 /\ (s = M - 1 => a - 2 * M = 0)
    BY <1>0, <1>2
  <2> QED BY <2>1, <2>2, <2>3
<1>4. (s + (-1) + M) % M = IF s = 0 THEN M - 1 ELSE s - 1
  <2> DEFINE a == s + (-1) + M
  <2>1. a \in 0 .. 3 * M - 1 /\ a < 2 * M /\ (a < M <=> s = 0)
    BY <1>0, <1>2
  <2>2. a % M = IF a < M THEN a ELSE IF a < 2 * M THEN a - M ELSE a - 2 * M
    <3> HIDE DEF a
    <3> QED BY <1>0, <2>1, ModIs
  <2>3. a - M = s - 1 /\ (s = 0 => a = M - 1)
    BY <1>0, <1>2
  <2> QED BY <2>1, <2>2, <2>3
<1>5. n + 1 < M => (n + 1 + M - k) % M = (s + 1 + M) % M
  BY <1>0, <1>1, <1>2, <1>3
<1>6. k > 0 => (n + M - (k - 1)) % M = (s + 1 + M) % M
  BY <1>0, <1>1, <1>2, <1>3
<1>7. n > 0 => (n - 1 + M - k) % M = (s + (-1) + M) % M
  BY <1>0, <1>1, <1>2, <1>4
<1>8. k + 1 < M => (n + M - (k + 1)) % M = (s + (-1) + M) % M
  BY <1>0, <1>1, <1>2, <1>4
<1>9. n = 0 /\ k = 0 => s = 0
  BY <1>0, <1>2
<1> QED BY <1>5, <1>6, <1>7, <1>8, <1>9 DEF Reads, M

\* A request more, a request less.
LEMMA OneMore ==
  ASSUME NEW A \in SUBSET Clients, NEW B \in SUBSET Clients, NEW d \in Clients,
         \A c \in Clients : c # d => (c \in A <=> c \in B), d \notin A, d \in B
  PROVE  Cardinality(B) = Cardinality(A) + 1
<1>1. B = A \cup {d}
  OBVIOUS
<1>2. IsFiniteSet(A)
  BY Consts, FS_Subset
<1> QED BY <1>1, <1>2, FS_AddElement

\* How many requests there are.
LEMMA HowMany ==
  ASSUME NEW A \in SUBSET Clients
  PROVE  Cardinality(A) \in Nat /\ Cardinality(A) < SignalMod /\ (A = {} <=> Cardinality(A) = 0)
<1>1. IsFiniteSet(A) /\ Cardinality(A) <= Cardinality(Clients)
  BY Consts, FS_Subset
<1>2. Cardinality(A) \in Nat
  BY <1>1, FS_CardinalityType
<1> QED BY <1>1, <1>2, Consts, FS_EmptySet

\* The count follows when one client's request moves.
LEMMA Balance ==
  ASSUME QueueTypes, Counted, NEW d \in Clients,
         \A c \in Clients : c # d => (Plus(c)' <=> Plus(c)) /\ (Minus(c)' <=> Minus(c)),
         \/ signal' = signal /\ (Plus(d)' <=> Plus(d)) /\ (Minus(d)' <=> Minus(d))
         \/ SignalAdd(1) /\ \/ ~Plus(d) /\ Plus(d)' /\ (Minus(d)' <=> Minus(d))
                            \/ Minus(d) /\ ~Minus(d)' /\ (Plus(d)' <=> Plus(d))
         \/ SignalAdd(-1) /\ \/ Plus(d) /\ ~Plus(d)' /\ (Minus(d)' <=> Minus(d))
                             \/ ~Minus(d) /\ Minus(d)' /\ (Plus(d)' <=> Plus(d))
  PROVE  Counted'
<1> DEFINE n == Cardinality(Ahead)
           k == Cardinality(Behind)
           m == Cardinality(Ahead')
           l == Cardinality(Behind')
<1>1. Ahead \in SUBSET Clients /\ Ahead' \in SUBSET Clients /\ Behind \in SUBSET Clients /\ Behind' \in SUBSET Clients
  BY DEF Ahead, Behind
<1>2. \A c \in Clients : /\ c \in Ahead <=> Plus(c)
                         /\ c \in Ahead' <=> Plus(c)'
                         /\ c \in Behind <=> Minus(c)
                         /\ c \in Behind' <=> Minus(c)'
  BY DEF Ahead, Behind
<1>3. (Plus(d)' <=> Plus(d)) => Ahead' = Ahead
  BY <1>1, <1>2
<1>4. (Minus(d)' <=> Minus(d)) => Behind' = Behind
  BY <1>1, <1>2
<1>5. ~Plus(d) /\ Plus(d)' => m = n + 1
  BY <1>1, <1>2, OneMore
<1>6. Plus(d) /\ ~Plus(d)' => n = m + 1
  BY <1>1, <1>2, OneMore
<1>7. ~Minus(d) /\ Minus(d)' => l = k + 1
  BY <1>1, <1>2, OneMore
<1>8. Minus(d) /\ ~Minus(d)' => k = l + 1
  BY <1>1, <1>2, OneMore
<1>9. n \in Nat /\ k \in Nat /\ m \in Nat /\ l \in Nat
      /\ n < SignalMod /\ k < SignalMod /\ m < SignalMod /\ l < SignalMod
  BY <1>1, HowMany
<1>10. Reads(signal, n, k)
  BY DEF Counted, Reads
<1>11. Reads(signal', m, l) => Counted'
  BY DEF Counted, Reads
<1>12. signal \in 0 .. SignalMod - 1
  BY DEF QueueTypes
<1> HIDE DEF n, k, m, l
<1>13. CASE signal' = signal /\ (Plus(d)' <=> Plus(d)) /\ (Minus(d)' <=> Minus(d))
  BY <1>3, <1>4, <1>10, <1>11, <1>13 DEF n, k, m, l
<1>14. CASE SignalAdd(1)
  <2>1. signal' = (signal + 1 + SignalMod) % SignalMod
    BY <1>14 DEF SignalAdd
  <2>2. CASE ~Plus(d) /\ Plus(d)' /\ (Minus(d)' <=> Minus(d))
    <3>1. m = n + 1 /\ l = k
      BY <1>4, <1>5, <2>2 DEF k, l
    <3> QED BY <1>9, <1>10, <1>11, <1>12, <2>1, <3>1, ReadsUp
  <2>3. CASE Minus(d) /\ ~Minus(d)' /\ (Plus(d)' <=> Plus(d))
    <3>1. m = n /\ k > 0 /\ l = k - 1
      BY <1>3, <1>8, <1>9, <2>3 DEF m, n
    <3> QED BY <1>9, <1>10, <1>11, <1>12, <2>1, <3>1, ReadsUp
  <2>4. CASE signal' = signal /\ (Plus(d)' <=> Plus(d)) /\ (Minus(d)' <=> Minus(d))
    BY <1>13, <2>4
  <2>5. CASE SignalAdd(-1) /\ \/ Plus(d) /\ ~Plus(d)' /\ (Minus(d)' <=> Minus(d))
                              \/ ~Minus(d) /\ Minus(d)' /\ (Plus(d)' <=> Plus(d))
    <3>0. signal' = (signal + (-1) + SignalMod) % SignalMod
      BY <2>5 DEF SignalAdd
    <3>1. CASE Plus(d) /\ ~Plus(d)' /\ (Minus(d)' <=> Minus(d))
      <4>1. m = n - 1 /\ n > 0 /\ l = k
        BY <1>4, <1>6, <1>9, <3>1 DEF k, l
      <4> QED BY <1>9, <1>10, <1>11, <1>12, <3>0, <4>1, ReadsUp
    <3>2. CASE ~Minus(d) /\ Minus(d)' /\ (Plus(d)' <=> Plus(d))
      <4>1. m = n /\ l = k + 1
        BY <1>3, <1>7, <3>2 DEF m, n
      <4> QED BY <1>9, <1>10, <1>11, <1>12, <3>0, <4>1, ReadsUp
    <3> QED BY <2>5, <3>1, <3>2
  <2> QED BY <2>2, <2>3, <2>4, <2>5
<1>15. CASE SignalAdd(-1) /\ \/ Plus(d) /\ ~Plus(d)' /\ (Minus(d)' <=> Minus(d))
                             \/ ~Minus(d) /\ Minus(d)' /\ (Plus(d)' <=> Plus(d))
  <2>0. signal' = (signal + (-1) + SignalMod) % SignalMod
    BY <1>15 DEF SignalAdd
  <2>1. CASE Plus(d) /\ ~Plus(d)' /\ (Minus(d)' <=> Minus(d))
    <3>1. m = n - 1 /\ n > 0 /\ l = k
      BY <1>4, <1>6, <1>9, <2>1 DEF k, l
    <3> QED BY <1>9, <1>10, <1>11, <1>12, <2>0, <3>1, ReadsUp
  <2>2. CASE ~Minus(d) /\ Minus(d)' /\ (Plus(d)' <=> Plus(d))
    <3>1. m = n /\ l = k + 1
      BY <1>3, <1>7, <2>2 DEF m, n
    <3> QED BY <1>9, <1>10, <1>11, <1>12, <2>0, <3>1, ReadsUp
  <2> QED BY <1>15, <2>1, <2>2
<1> QED BY <1>13, <1>14, <1>15

\* A step of a client does not concern the others, nor what the service holds.
LEMMA ClientOther ==
  ASSUME Base, NEW d \in Clients, ClientDoes(d)
  PROVE  /\ UNCHANGED <<mode, hand, ring, prioCur, ticking, Listed>>
         /\ tag'[Server] = tag[Server] /\ loc'[Server] = loc[Server] /\ msg'[Server] = msg[Server]
         /\ Queued' = Queued \/ (Queue(d) /\ Queued' = Queued \cup {d})
         /\ \A c \in Clients : c # d =>
               /\ word'[c] = word[c] /\ rmAdd'[c] = rmAdd[c] /\ rmDel'[c] = rmDel[c] /\ tag'[c] = tag[c]
               /\ loc'[c] = loc[c] /\ msg'[c] = msg[c] /\ calls'[c] = calls[c] /\ result'[c] = result[c]
               /\ (c \in asleep' <=> c \in asleep) /\ (c \in online' <=> c \in online)
               /\ (c \in Queued' <=> c \in Queued)
<1>0. /\ WordTypes /\ QueueTypes /\ UserTypes /\ Located /\ Server \in Threads /\ Clients \subseteq Threads
      /\ d \in Threads /\ d # Server
  BY Consts, TypesAre DEF Base
<1>1. UNCHANGED <<mode, hand, ring, prioCur, ticking>>
  BY DEF ClientDoes, Kernel, Queue, Finish, NapOver, Nap, Stray, Send, queueVars
<1>2. tag'[Server] = tag[Server]
  BY <1>0 DEF ClientDoes, Kernel, Queue, Finish, NapOver, Nap, Stray, Send, ipcVars, WordTypes
<1>3. loc'[Server] = loc[Server]
  BY <1>0 DEF ClientDoes, Kernel, Queue, Finish, NapOver, Nap, Stray, Send, Goto, QueueTypes
<1>4. msg'[Server] = msg[Server]
  BY <1>0 DEF ClientDoes, Kernel, Queue, Finish, NapOver, Nap, Stray, Send, userVars, UserTypes
<1>5. Queued' = Queued \/ (Queue(d) /\ Queued' = Queued \cup {d})
  BY <1>0, JoinedIs DEF ClientDoes, Kernel, Queue, EvtqInsert, Finish, NapOver, Nap, Stray, Send, queueVars, Queued,
     Located, QueueTypes
<1>6. ASSUME NEW c \in Clients, c # d
      PROVE  /\ word'[c] = word[c] /\ rmAdd'[c] = rmAdd[c] /\ rmDel'[c] = rmDel[c] /\ tag'[c] = tag[c]
             /\ loc'[c] = loc[c] /\ msg'[c] = msg[c] /\ calls'[c] = calls[c] /\ result'[c] = result[c]
             /\ (c \in asleep' <=> c \in asleep) /\ (c \in online' <=> c \in online)
             /\ (c \in Queued' <=> c \in Queued)
  <2>0. c \in Threads /\ c # Server
    BY <1>0, Consts
  <2>1. word'[c] = word[c] /\ rmAdd'[c] = rmAdd[c] /\ rmDel'[c] = rmDel[c] /\ tag'[c] = tag[c]
    BY <1>0, <1>6, <2>0 DEF ClientDoes, Kernel, Queue, EvtqInsert, Finish, NapOver, Nap, Stray, Send, Ready, ipcVars, WordTypes
  <2>2. loc'[c] = loc[c]
    BY <1>0, <1>6, <2>0 DEF ClientDoes, Kernel, Queue, Finish, NapOver, Nap, Stray, Send, Goto, QueueTypes
  <2>3. msg'[c] = msg[c] /\ calls'[c] = calls[c] /\ result'[c] = result[c]
    BY <1>0, <1>6, <2>0 DEF ClientDoes, Kernel, Queue, Finish, NapOver, Nap, Stray, Send, userVars, UserTypes
  <2>4. (c \in asleep' <=> c \in asleep) /\ (c \in online' <=> c \in online)
    BY <1>6, <2>0 DEF ClientDoes, Kernel, Queue, Finish, NapOver, Nap, Stray, Send, Wakeup, Woken, schedVars
  <2> QED BY <1>5, <1>6, <2>1, <2>2, <2>3, <2>4
<1> QED BY <1>1, <1>2, <1>3, <1>4, <1>5, <1>6 DEF Listed

\* What a client did in a step of its own.
LEMMA ClientOwn ==
  ASSUME Base, NEW c \in Clients, ClientDoes(c)
  PROVE  \/ /\ Kernel(c) /\ loc[c] = "kernel" /\ loc'[c] = "wait" /\ c \notin asleep /\ c \in asleep' /\ c \in online'
            /\ word'[c] = word[c] \cup {"IN_IPC"} /\ rmAdd'[c] = rmAdd[c] /\ rmDel'[c] = rmDel[c]
            /\ UNCHANGED <<evtq, msg, calls, result>> /\ SignalAdd(1) /\ tag'[c] = tag[c]
         \/ /\ Queue(c) /\ loc[c] = "queue" /\ loc'[c] = "kernel" /\ c \notin asleep /\ asleep' = asleep /\ online' = online
            /\ word'[c] = word[c] \cup {"REQUEST"} /\ rmAdd'[c] = rmAdd[c] /\ rmDel'[c] = rmDel[c]
            /\ Queued' = Queued \cup {c} /\ UNCHANGED <<msg, calls, result, signal>> /\ tag'[c] = tag[c]
         \/ /\ Finish(c) /\ loc[c] = "wait" /\ loc'[c] = "idle" /\ c \notin asleep /\ asleep' = asleep /\ online' = online
            /\ "READY" \in word[c] /\ "READY" \in word'[c] /\ word'[c] = ((word[c] \ rmDel[c]) \cup rmAdd[c]) \cap TsMask
            /\ rmAdd'[c] = {} /\ rmDel'[c] = {} /\ UNCHANGED <<evtq, msg, calls, signal>> /\ tag'[c] = None
         \/ /\ Nap(c) \/ NapOver(c)
            /\ loc[c] \in {"idle", "nap"} /\ loc'[c] \in {"idle", "nap"} /\ c \notin asleep
            /\ c \in asleep' => loc'[c] = "nap" /\ mode.napping
            /\ UNCHANGED <<word, rmAdd, rmDel, tag, evtq, msg, calls, result, signal>>
         \/ /\ Stray(c) /\ mode.strays /\ c \in asleep /\ loc' = loc
            /\ UNCHANGED <<word, rmAdd, rmDel, tag, evtq, msg, calls, result, signal>>
            /\ \/ asleep' = asleep /\ online' = online
               \/ /\ asleep' = asleep \ {c} /\ online' = online \ {c} /\ ticking = None
                  /\ "IN_IPC" \in word[c] => "READY" \in word[c]
         \/ /\ \E op \in Ops : Send(c, op)
            /\ loc[c] = "idle" /\ c \notin asleep /\ asleep' = asleep /\ online' = online
            /\ UNCHANGED <<rmAdd, rmDel, evtq, signal>>
            /\ word'[c] \cap {"REQUEST", "TIMEOUT"} = {}
            /\ calls'[c] = calls[c] + 1
            /\ \/ loc'[c] = "queue" /\ "READY" \notin word'[c] /\ tag'[c] = Server
               \/ loc'[c] = "idle" /\ "READY" \in word'[c] /\ result'[c] = "NOT_SER" /\ tag'[c] = tag[c]
<1>0. /\ WordTypes /\ QueueTypes /\ UserTypes /\ Located /\ Server \in Threads /\ Clients \subseteq Threads
      /\ c \in Threads /\ c # Server /\ Situated(c)
  BY Consts, TypesAre DEF Base
<1>1. CASE Kernel(c)
  <2>1. loc'[c] = "wait" /\ loc[c] = "kernel" /\ c \notin asleep
    BY <1>0, <1>1 DEF Kernel, At, Goto, QueueTypes
  <2>2. word'[c] = word[c] \cup {"IN_IPC"} /\ UNCHANGED <<rmAdd, rmDel, tag>>
    BY <1>0, <1>1 DEF Kernel, WordTypes
  <2> QED BY <1>1, <2>1, <2>2 DEF Kernel, userVars
<1>2. CASE Queue(c)
  <2>1. loc'[c] = "kernel" /\ loc[c] = "queue" /\ c \notin asleep
    BY <1>0, <1>2 DEF Queue, At, Goto, QueueTypes
  <2>2. word'[c] = word[c] \cup {"REQUEST"} /\ UNCHANGED <<rmAdd, rmDel, tag>>
    BY <1>0, <1>2 DEF Queue, EvtqInsert, WordTypes
  <2>3. Queued' = Queued \cup {c}
    BY <1>0, <1>2, JoinedIs DEF Queue, EvtqInsert, Queued, Located, QueueTypes
  <2> QED BY <1>2, <2>1, <2>2, <2>3 DEF Queue, userVars, schedVars
<1>3. CASE Finish(c)
  <2>1. loc'[c] = "idle" /\ loc[c] = "wait" /\ c \notin asleep
    BY <1>0, <1>3 DEF Finish, At, Goto, QueueTypes
  <2>2. word'[c] = ((word[c] \ rmDel[c]) \cup rmAdd[c]) \cap TsMask /\ "READY" \in word[c]
    BY <1>0, <1>3 DEF Finish, Has, WordTypes
  <2>3. rmAdd'[c] = {} /\ rmDel'[c] = {} /\ tag'[c] = None
    BY <1>0, <1>3 DEF Finish, WordTypes
  <2>4. "READY" \in word'[c]
    BY <1>0, <2>2 DEF Situated, TsMask
  <2> QED BY <1>3, <2>1, <2>2, <2>3, <2>4 DEF Finish, queueVars, schedVars
<1>4. CASE Nap(c) \/ NapOver(c)
  <2>1. loc[c] \in {"idle", "nap"} /\ loc'[c] \in {"idle", "nap"} /\ c \notin asleep
    BY <1>0, <1>4 DEF Nap, NapOver, At, Goto, QueueTypes
  <2>2. c \in asleep' => loc'[c] = "nap" /\ mode.napping
    BY <1>0, <1>4 DEF Nap, NapOver, At, Goto, schedVars, QueueTypes
  <2> QED BY <1>4, <2>1, <2>2 DEF Nap, NapOver, ipcVars, queueVars, userVars
<1>5. CASE Stray(c)
  <2>1. \/ asleep' = asleep /\ online' = online
        \/ /\ asleep' = asleep \ {c} /\ online' = online \ {c} /\ ticking = None
           /\ "IN_IPC" \in word[c] => "READY" \in word[c]
    BY <1>0, <1>5, WakeupIs DEF Stray
  <2> QED BY <1>5, <2>1 DEF Stray, queueVars, userVars
<1>6. ASSUME NEW op \in Ops, Send(c, op)
      PROVE  /\ loc[c] = "idle" /\ c \notin asleep /\ asleep' = asleep /\ online' = online
             /\ UNCHANGED <<rmAdd, rmDel, evtq, signal>>
             /\ word'[c] \cap {"REQUEST", "TIMEOUT"} = {}
             /\ calls'[c] = calls[c] + 1
             /\ \/ loc'[c] = "queue" /\ "READY" \notin word'[c] /\ tag'[c] = Server
                \/ loc'[c] = "idle" /\ "READY" \in word'[c] /\ result'[c] = "NOT_SER" /\ tag'[c] = tag[c]
  <2>1. loc[c] = "idle" /\ c \notin asleep /\ asleep' = asleep /\ online' = online
        /\ UNCHANGED <<rmAdd, rmDel, evtq, signal>>
    BY <1>6 DEF Send, At, queueVars, schedVars
  <2>2. word[c] \subseteq TsMask
    BY <1>0, <2>1 DEF Situated
  <2>3. \/ word'[c] = word[c] \cup {"READY"} /\ loc'[c] = "idle" /\ tag'[c] = tag[c]
        \/ word'[c] \subseteq (word[c] \ {"READY"}) \cup {"SEND_WT", "RECV"} /\ loc'[c] = "queue" /\ tag'[c] = Server
    BY <1>0, <1>6, <2>1 DEF Send, Ready, Goto, WordTypes, QueueTypes
  <2>4. word'[c] \cap {"REQUEST", "TIMEOUT"} = {} /\ (loc'[c] = "queue" => "READY" \notin word'[c])
    BY <2>2, <2>3 DEF TsMask
  <2>5. calls'[c] = calls[c] + 1 /\ (loc'[c] = "idle" => result'[c] = "NOT_SER")
    BY <1>0, <1>6, <2>1 DEF Send, Goto, UserTypes, QueueTypes
  <2> QED BY <2>1, <2>3, <2>4, <2>5
<1> QED BY <1>1, <1>2, <1>3, <1>4, <1>5, <1>6 DEF ClientDoes

\* What the tick did in a step of its own.
LEMMA TickIs ==
  ASSUME Base, TickDoes
  PROVE  /\ UNCHANGED <<mode, hand, ring, prioCur, tag, loc, signal, msg, calls, result, Listed>>
         /\ online' \subseteq online
         /\ \/ \E d \in Clients :
                 /\ ticking = d /\ ticking' = None /\ word' = [word EXCEPT ![d] = @ \cup {"TIMEOUT"}]
                 /\ Queued' = Queued \cup {d} /\ UNCHANGED <<rmAdd, rmDel, asleep, online>>
            \/ \E t \in Threads :
                 /\ UNCHANGED <<word, rmAdd, rmDel, evtq, Queued, ticking>> /\ "IN_IPC" \notin word[t] /\ ticking = None
                 /\ t \in online /\ asleep' = asleep \ {t} /\ online' = online \ {t}
            \/ \E d \in Clients :
                 /\ UNCHANGED <<word, rmAdd, rmDel, evtq, Queued, ticking, asleep>> /\ "READY" \in word[d]
                 /\ "IN_IPC" \in word[d] /\ d \in online /\ online' = online \ {d}
            \/ \E d \in Clients :
                 /\ d \in asleep /\ d \in online /\ ticking = None /\ "READY" \notin word[d] /\ loc[d] = "wait"
                 /\ Stage(d) \in mode.expireIn /\ ~Punctual
                 /\ asleep' = asleep /\ online' = online \ {d} /\ rmDel' = rmDel
                 /\ rmAdd' = [rmAdd EXCEPT ![d] = @ \cup {"ES_TIMEOUT"}]
                 /\ \/ mode.smp /\ ticking' = d /\ word' = [word EXCEPT ![d] = @ \cup {"READY"}] /\ Queued' = Queued
                    \/ /\ ~mode.smp /\ ticking' = None /\ word' = [word EXCEPT ![d] = @ \cup {"READY", "TIMEOUT"}]
                       /\ Queued' = Queued \cup {d}
<1>0. /\ WordTypes /\ QueueTypes /\ UserTypes /\ Located /\ Server \in Threads /\ Clients \subseteq Threads
      /\ \A d \in Clients : Situated(d)
  BY Consts, TypesAre DEF Base
<1>1. UNCHANGED <<mode, hand, ring, prioCur, tag, loc, signal, msg, calls, result>>
  BY DEF TickDoes, TickEvent, TickPlain, TickDecided, TickExpire, queueVars, ipcVars, userVars
<1>2. UNCHANGED Listed /\ online' \subseteq online
  BY <1>1 DEF Listed, TickDoes, TickEvent, TickPlain, TickDecided, TickExpire, schedVars
<1>3. CASE TickEvent
  BY <1>0, <1>1, <1>2, <1>3, JoinedIs DEF TickEvent, EvtqInsert, schedVars, Queued, QueueTypes, Located
<1>4. CASE \E t \in Threads : TickPlain(t)
  BY <1>1, <1>2, <1>4 DEF TickPlain, KernelFree, Has, ipcVars, queueVars, Queued
<1>5. CASE \E d \in Clients : TickDecided(d)
  BY <1>1, <1>2, <1>5 DEF TickDecided, Has, ipcVars, queueVars, Queued
<1>6. ASSUME NEW d \in Clients, TickExpire(d)
      PROVE  /\ d \in asleep /\ d \in online /\ ticking = None /\ "READY" \notin word[d] /\ loc[d] = "wait"
             /\ Stage(d) \in mode.expireIn /\ ~Punctual
             /\ asleep' = asleep /\ online' = online \ {d} /\ rmDel' = rmDel
             /\ rmAdd' = [rmAdd EXCEPT ![d] = @ \cup {"ES_TIMEOUT"}]
             /\ \/ mode.smp /\ ticking' = d /\ word' = [word EXCEPT ![d] = @ \cup {"READY"}] /\ Queued' = Queued
                \/ /\ ~mode.smp /\ ticking' = None /\ word' = [word EXCEPT ![d] = @ \cup {"READY", "TIMEOUT"}]
                   /\ Queued' = Queued \cup {d}
  <2>1. /\ d \in asleep /\ d \in online /\ ticking = None /\ "READY" \notin word[d] /\ "IN_IPC" \in word[d]
        /\ Stage(d) \in mode.expireIn /\ asleep' = asleep /\ online' = online \ {d}
    BY <1>0, <1>6 DEF TickExpire, KernelFree, Has, Located
  <2>2. loc[d] = "wait"
    <3>1. loc[d] \in {"wait", "nap"}
      BY <1>0, <2>1 DEF Situated
    <3>2. loc[d] # "nap"
      BY <1>0, <2>1 DEF Situated
    <3> QED BY <3>1, <3>2
  <2>3. rmDel' = rmDel /\ rmAdd' = [rmAdd EXCEPT ![d] = @ \cup {"ES_TIMEOUT"}]
    <3>1. rmDel' = [rmDel EXCEPT ![d] = @ \cup {}] /\ rmAdd' = [rmAdd EXCEPT ![d] = (@ \ {}) \cup {"ES_TIMEOUT"}]
      BY <1>6 DEF TickExpire, RmStateChange
    <3>2. \A s : s \cup {} = s /\ s \ {} = s
      OBVIOUS
    <3>3. rmDel' = [rmDel EXCEPT ![d] = @]
      BY <3>1, <3>2
    <3>4. rmAdd' = [rmAdd EXCEPT ![d] = @ \cup {"ES_TIMEOUT"}]
      BY <3>1, <3>2
    <3> QED BY <1>0, <3>3, <3>4 DEF WordTypes
  <2>4. CASE mode.smp
    BY <1>6, <2>1, <2>2, <2>3, <2>4 DEF TickExpire, Ready, Queued, Punctual
  <2>5. CASE ~mode.smp
    <3>1. Queued' = Queued \cup {d}
      BY <1>0, <1>6, <2>5, JoinedIs DEF TickExpire, Queued, QueueTypes, Located
    <3>2. ticking' = None /\ word' = [word EXCEPT ![d] = @ \cup {"READY", "TIMEOUT"}]
      BY <1>6, <2>1, <2>5 DEF TickExpire
    <3> QED BY <2>1, <2>2, <2>3, <2>5, <3>1, <3>2 DEF Punctual
  <2> QED BY <2>4, <2>5
<1> QED BY <1>1, <1>2, <1>3, <1>4, <1>5, <1>6 DEF TickDoes

\* What the service did for the client it serves.
LEMMA ServesOwn ==
  ASSUME Base, UrgentFirst, NEW c \in Clients, ServesDoes(c)
  PROVE  /\ UNCHANGED <<mode, ticking, hand, evtq, Queued, calls, result>> /\ hand = None
         /\ Server \notin asleep /\ loc'[c] = loc[c] /\ tag'[c] = tag[c] /\ word'[Server] = word[Server]
         /\ \/ /\ Pick(c) /\ loc[Server] = "pick" /\ loc'[Server] = "in" /\ tag'[Server] = c
               /\ UNCHANGED <<word, rmAdd, rmDel, asleep, online, msg>>
               /\ c \in Listed /\ Listed' = Listed \ {c} /\ SignalAdd(-1)
            \/ /\ tag[Server] = c /\ UNCHANGED <<Listed, signal, prioCur, ring>>
               /\ \/ /\ loc[Server] \in {"in", "serve"} /\ "READY" \in word[c]
                     /\ tag'[Server] = None /\ loc'[Server] = IF loc[Server] = "in" THEN "user" ELSE "drain"
                     /\ UNCHANGED <<word, rmAdd, rmDel, asleep, online, msg>>
                  \/ /\ loc[Server] \in {"in", "serve"} /\ "READY" \notin word[c]
                     /\ loc[Server] = "in" => "RECV" \notin word[c]
                     /\ tag'[Server] = c /\ loc'[Server] = IF loc[Server] = "in" THEN "took" ELSE "answer"
                     /\ word'[c] = word[c] \cup {"READY"}
                     /\ UNCHANGED <<rmAdd, rmDel, asleep, online, msg>>
                  \/ /\ InCall(c) /\ loc[Server] = "in" /\ "READY" \notin word[c] /\ "RECV" \in word[c]
                     /\ tag'[Server] = c /\ loc'[Server] = "serve" /\ msg' = [msg EXCEPT ![Server] = msg[c]]
                     /\ rmDel'[c] = rmDel[c] \cup {"SEND_WT", "RECV"}
                     /\ rmAdd'[c] = (rmAdd[c] \ {"SEND_WT", "RECV"}) \cup {"RECV_WT"}
                     /\ UNCHANGED <<word, asleep, online>>
                  \/ /\ Took(c) \/ Answer(c)
                     /\ loc[Server] \in {"took", "answer"} /\ tag'[Server] = None
                     /\ loc'[Server] = IF loc[Server] = "took" THEN "user" ELSE "drain"
                     /\ word' = word /\ ("REQUEST" \in rmDel'[c] <=> "REQUEST" \in rmDel[c])
                     /\ \/ asleep' = asleep /\ online' = online
                        \/ /\ asleep' = asleep \ {c} /\ online' = online \ {c} /\ ticking = None
                           /\ "IN_IPC" \in word[c] => "READY" \in word[c]
<1>0. /\ WordTypes /\ QueueTypes /\ UserTypes /\ Located /\ Server \in Threads /\ Clients \subseteq Threads
      /\ c \in Threads /\ c # Server
  BY Consts, TypesAre DEF Base
<1>1. UNCHANGED <<mode, ticking, hand, evtq, Queued, calls, result>> /\ hand = None /\ Server \notin asleep
  <2>1. UNCHANGED <<mode, ticking, hand, evtq, calls, result>> /\ loc[Server] # "event" /\ Server \notin asleep
    BY DEF ServesDoes, Pick, InTimeout, InSend, InCall, Took, Answer, Reply, queueVars, userVars, At
  <2> QED BY <1>0, <2>1 DEF Queued, Located
<1>2. loc'[c] = loc[c]
  BY <1>0 DEF ServesDoes, Pick, InTimeout, InSend, InCall, Took, Answer, Reply, Goto, QueueTypes
<1>3. tag'[c] = tag[c]
  BY <1>0 DEF ServesDoes, Pick, InTimeout, InSend, InCall, Took, Answer, Reply, WordTypes
<1>4. word'[Server] = word[Server]
  BY <1>0 DEF ServesDoes, Pick, InTimeout, InSend, InCall, Took, Answer, Reply, Ready, Settle, WordTypes
<1>5. CASE Pick(c)
  <2>1. /\ loc[Server] = "pick" /\ loc'[Server] = "in" /\ tag'[Server] = c
        /\ UNCHANGED <<word, rmAdd, rmDel, asleep, online, msg>> /\ SignalAdd(-1)
    BY <1>0, <1>5 DEF Pick, RecvNext, At, Goto, schedVars, userVars, WordTypes, QueueTypes
  <2>2. c \in Listed /\ Listed' = Listed \ {c}
    BY <1>0, <1>5, NextIs DEF Pick, RecvNext
  <2> QED BY <1>1, <1>2, <1>3, <1>4, <1>5, <2>1, <2>2
<1>6. ~Pick(c) => tag[Server] = c /\ UNCHANGED <<Listed, signal, prioCur, ring>>
  BY DEF ServesDoes, InTimeout, InSend, InCall, Took, Answer, Reply, queueVars, Listed
<1>7. CASE InTimeout(c)
  <2>1. /\ loc[Server] = "in" /\ "READY" \in word[c] /\ tag'[Server] = None /\ loc'[Server] = "user"
        /\ UNCHANGED <<word, rmAdd, rmDel, asleep, online, msg>> /\ ~Pick(c)
    BY <1>0, <1>7 DEF InTimeout, Pick, Has, At, Goto, schedVars, userVars, WordTypes, QueueTypes
  <2> QED BY <1>1, <1>2, <1>3, <1>4, <1>6, <2>1
<1>8. CASE InSend(c)
  <2>1. /\ loc[Server] = "in" /\ "READY" \notin word[c] /\ "RECV" \notin word[c] /\ tag' = tag /\ loc'[Server] = "took"
        /\ UNCHANGED <<rmAdd, rmDel, asleep, online, msg>> /\ ~Pick(c)
    BY <1>0, <1>8 DEF InSend, InTime, Pick, Has, At, Goto, schedVars, userVars, QueueTypes
  <2>2. word'[c] = word[c] \cup {"READY"}
    BY <1>0, <1>8 DEF InSend, Ready, WordTypes
  <2> QED BY <1>1, <1>2, <1>3, <1>4, <1>6, <2>1, <2>2
<1>9. CASE InCall(c)
  <2>1. /\ loc[Server] = "in" /\ "READY" \notin word[c] /\ "RECV" \in word[c] /\ tag' = tag /\ loc'[Server] = "serve"
        /\ msg' = [msg EXCEPT ![Server] = msg[c]] /\ UNCHANGED <<word, asleep, online>> /\ ~Pick(c)
    BY <1>0, <1>9 DEF InCall, InTime, Copied, Pick, Has, At, Goto, schedVars, QueueTypes
  <2>2. rmDel'[c] = rmDel[c] \cup {"SEND_WT", "RECV"} /\ rmAdd'[c] = (rmAdd[c] \ {"SEND_WT", "RECV"}) \cup {"RECV_WT"}
    BY <1>0, <1>9 DEF InCall, RmStateChange, WordTypes
  <2> QED BY <1>1, <1>2, <1>3, <1>4, <1>6, <1>9, <2>1, <2>2
<1>10. CASE Reply(c)
  <2>1. /\ loc[Server] = "serve" /\ UNCHANGED <<rmAdd, rmDel, asleep, online, msg>> /\ ~Pick(c)
    BY <1>0, <1>10 DEF Reply, Settle, Pick, At, schedVars, userVars
  <2>2. IF "READY" \in word[c] THEN word' = word /\ tag'[Server] = None /\ loc'[Server] = "drain"
        ELSE word'[c] = word[c] \cup {"READY"} /\ tag' = tag /\ loc'[Server] = "answer"
    BY <1>0, <1>10 DEF Reply, Settle, Ready, Has, Goto, WordTypes, QueueTypes
  <2> QED BY <1>1, <1>2, <1>3, <1>4, <1>6, <2>1, <2>2
<1>11. CASE Took(c) \/ Answer(c)
  <2>1. /\ loc[Server] \in {"took", "answer"} /\ tag'[Server] = None /\ word' = word /\ ~Pick(c)
    BY <1>0, <1>11 DEF Took, Answer, Pick, At, WordTypes
  <2>2. loc'[Server] = IF loc[Server] = "took" THEN "user" ELSE "drain"
    BY <1>0, <1>11 DEF Took, Answer, At, Goto, QueueTypes
  <2>3. "REQUEST" \in rmDel'[c] <=> "REQUEST" \in rmDel[c]
    BY <1>0, <1>11 DEF Took, Answer, RmStateChange, WordTypes
  <2>4. \/ asleep' = asleep /\ online' = online
        \/ /\ asleep' = asleep \ {c} /\ online' = online \ {c} /\ ticking = None
           /\ "IN_IPC" \in word[c] => "READY" \in word[c]
    BY <1>0, <1>11, WakeupIs DEF Took, Answer
  <2> QED BY <1>1, <1>2, <1>3, <1>4, <1>6, <1>11, <2>1, <2>2, <2>3, <2>4
<1> QED BY <1>5, <1>7, <1>8, <1>9, <1>10, <1>11 DEF ServesDoes

\* What the service that receives did in a step.
LEMMA ServerIs ==
  ASSUME Base, \A d \in Clients : TidyClient(d), UrgentFirst, ServerDoes
  PROVE  /\ UNCHANGED <<mode, tag, ticking, msg, calls, result>> /\ tag[Server] = None /\ Server \notin asleep
         /\ \A c \in Clients : loc'[c] = loc[c] /\ word'[c] = word[c]
         /\ \/ /\ UNCHANGED <<evtq, Queued, hand, ring, prioCur, signal, Listed, rmAdd, rmDel, online>>
               /\ \/ /\ asleep' = asleep /\ loc'[Server] \in {"drain", "pick"}
                  \/ /\ loc'[Server] = "pended" /\ signal = 0 /\ loc[Server] = "check"
                     /\ asleep' = asleep \cup {Server}
            \/ /\ evtq = <<>> /\ loc[Server] = "drain" /\ loc'[Server] = "check"
               /\ UNCHANGED <<evtq, Queued, hand, ring, prioCur, signal, Listed, rmAdd, rmDel, asleep, online>>
            \/ \E d \in Clients :
                 /\ d \in Queued /\ Queued' = Queued \ {d} /\ hand' = d /\ hand = None /\ loc'[Server] = "event"
                 /\ UNCHANGED <<ring, prioCur, signal, Listed, rmAdd, rmDel, asleep, online>>
            \/ Event /\ loc'[Server] = "drain"
<1>0. /\ WordTypes /\ QueueTypes /\ UserTypes /\ Located /\ Server \in Threads /\ Clients \subseteq Threads
      /\ Server \notin Clients
  BY Consts, TypesAre DEF Base
<1>1. UNCHANGED <<mode, tag, ticking, msg, calls, result>>
  BY DEF ServerDoes, Recv, Drain, Event, Check, Resume, PickNone, ipcVars, userVars
<1>2. tag[Server] = None /\ Server \notin asleep
  BY <1>0 DEF ServerDoes, Recv, Drain, Event, Check, Resume, PickNone, At, Located
<1>3. \A c \in Clients : loc'[c] = loc[c] /\ word'[c] = word[c]
  <2>1. \A c \in Clients : loc'[c] = loc[c]
    BY <1>0 DEF ServerDoes, Recv, Drain, Event, Check, Resume, PickNone, Goto, QueueTypes
  <2>2. \A c \in Clients : word'[c] = word[c]
    BY <1>0 DEF ServerDoes, Recv, Drain, Event, Check, Resume, PickNone, ipcVars, WordTypes
  <2> QED BY <2>1, <2>2
<1>4. CASE Recv \/ Resume \/ PickNone
  <2>1. UNCHANGED <<evtq, hand, ring, prioCur, signal, rmAdd, rmDel, online, asleep>> /\ loc'[Server] = "drain"
    BY <1>0, <1>4 DEF Recv, Resume, PickNone, queueVars, schedVars, ipcVars, Goto, QueueTypes
  <2> QED BY <1>1, <1>2, <1>3, <2>1 DEF Queued, Listed
<1>5. CASE Check
  <2>1. UNCHANGED <<evtq, hand, ring, prioCur, signal, rmAdd, rmDel, online>> /\ loc[Server] = "check"
    BY <1>0, <1>5 DEF Check, queueVars, At
  <2>2. \/ asleep' = asleep /\ loc'[Server] = "pick"
        \/ loc'[Server] = "pended" /\ signal = 0 /\ asleep' = asleep \cup {Server}
    BY <1>0, <1>5 DEF Check, Goto, QueueTypes
  <2> QED BY <1>1, <1>2, <1>3, <2>1, <2>2 DEF Queued, Listed
<1>6. CASE Drain /\ evtq = <<>>
  <2>1. UNCHANGED <<evtq, hand, ring, prioCur, signal, rmAdd, rmDel, asleep, online>> /\ loc[Server] = "drain" /\ loc'[Server] = "check"
    BY <1>0, <1>6 DEF Drain, At, Goto, schedVars, ipcVars, QueueTypes
  <2> QED BY <1>1, <1>2, <1>3, <1>6, <2>1 DEF Queued, Listed
<1>7. CASE Drain /\ evtq # <<>>
  <2>1. UNCHANGED <<ring, prioCur, signal, rmAdd, rmDel, asleep, online>> /\ hand = None /\ loc'[Server] = "event"
        /\ hand' = Head(evtq) /\ evtq' = Tail(evtq)
    BY <1>0, <1>7 DEF Drain, At, Goto, schedVars, ipcVars, QueueTypes, Located
  <2>2. Head(evtq) \in Clients /\ Head(evtq) \in Queued /\ Queued' = Queued \ {Head(evtq)}
    BY <1>0, <1>7, <2>1, HeadIs DEF Queued, Located, QueueTypes
  <2> QED BY <1>1, <1>2, <1>3, <2>1, <2>2 DEF Listed
<1>8. CASE Event
  <2>1. loc'[Server] = "drain"
    BY <1>0, <1>8 DEF Event, Goto, QueueTypes
  <2> QED BY <1>1, <1>2, <1>3, <1>8, <2>1
<1> QED BY <1>4, <1>5, <1>6, <1>7, <1>8 DEF ServerDoes

\* What the service that closes did in a step.
LEMMA CloseIs ==
  ASSUME Base, Tidy, CloseDoes
  PROVE  /\ UNCHANGED <<mode, ticking, hand, msg, calls>> /\ hand = None /\ Server \notin asleep
         /\ \A c \in Clients : loc'[c] = loc[c] /\ tag'[c] = tag[c] /\ result'[c] = result[c]
         /\ \/ /\ loc[Server] \in {"shut", "sweep", "resweep"} /\ loc'[Server] \in {"sweep", "resweep"}
               /\ UNCHANGED <<word, rmAdd, rmDel, tag, evtq, Queued, ring, prioCur, signal, Listed, result>>
               /\ \A c \in Clients : (c \in asleep' <=> c \in asleep) /\ (c \in online' <=> c \in online)
            \/ /\ Closed /\ loc[Server] = "resweep" /\ loc'[Server] = "user" /\ evtq = <<>> /\ Listed = {}
               /\ signal' = 0 /\ tag'[Server] = None /\ (result'[Server] = "SER_SIGNAL" <=> signal > 0)
               /\ UNCHANGED <<word, rmAdd, rmDel, evtq, Queued, ring, prioCur, Listed, asleep, online>>
            \/ \E d \in Clients :
                 /\ mode.closing /\ loc[Server] = "serve" /\ tag[Server] = d /\ loc'[Server] = "shut"
                 /\ tag'[Server] = IF "READY" \in word[d] THEN None ELSE d
                 /\ \A c \in Clients : word'[c] = IF c = d THEN word[c] \cup {"READY"} ELSE word[c]
                 /\ UNCHANGED <<rmAdd, rmDel, evtq, Queued, ring, prioCur, signal, Listed, asleep, online, result>>
            \/ \E d \in Clients :
                 /\ loc[Server] = "shut" /\ d \in Listed /\ Listed' = Listed \ {d} /\ SignalAdd(-1)
                 /\ UNCHANGED <<loc, tag, evtq, Queued, result>>
                 /\ \/ "READY" \in word[d] /\ UNCHANGED <<word, rmAdd, rmDel, asleep, online>>
                    \/ /\ "READY" \notin word[d] /\ ticking = None /\ asleep' = asleep \ {d} /\ online' = online \ {d}
                       /\ word' = [word EXCEPT ![d] = @ \cup {"READY"}]
                       /\ rmDel' = rmDel /\ rmAdd' = [rmAdd EXCEPT ![d] = @ \cup {"ES_ERROR"}]
            \/ \E d \in Clients :
                 /\ loc[Server] \in {"sweep", "resweep"} /\ d \in Queued /\ Queued' = Queued \ {d}
                 /\ Listed = {} /\ UNCHANGED <<loc, word, tag, ring, prioCur, Listed, result>> /\ SweepCount(d)
                 /\ rmDel' = [rmDel EXCEPT ![d] = @ \cup EsMask]
                 /\ rmAdd' = [rmAdd EXCEPT ![d] = (@ \ EsMask) \cup {"ES_ERROR"}]
                 /\ \/ asleep' = asleep /\ online' = online
                    \/ /\ asleep' = asleep \ {d} /\ online' = online \ {d} /\ ticking = None
                       /\ "IN_IPC" \in word[d] => "READY" \in word[d]
<1>0. /\ WordTypes /\ QueueTypes /\ UserTypes /\ Located /\ Server \in Threads /\ Clients \subseteq Threads
      /\ Server \notin Clients /\ UrgentFirst
  BY Consts, TypesAre DEF Base, Tidy
<1>1. UNCHANGED <<mode, ticking, hand, msg, calls>> /\ hand = None /\ Server \notin asleep
  <2>1. UNCHANGED <<mode, ticking, hand, msg, calls>> /\ loc[Server] # "event" /\ Server \notin asleep
    BY DEF CloseDoes, ShutEnd, SweepAgain, Closed, Close, ShutNext, SweepNext, queueVars, userVars, At
  <2> QED BY <1>0, <2>1 DEF Located
<1>2. \A c \in Clients : loc'[c] = loc[c] /\ tag'[c] = tag[c] /\ result'[c] = result[c]
  <2>1. \A c \in Clients : loc'[c] = loc[c]
    BY <1>0 DEF CloseDoes, ShutEnd, SweepAgain, Closed, Close, ShutNext, SweepNext, Goto, QueueTypes
  <2>2. \A c \in Clients : tag'[c] = tag[c] /\ result'[c] = result[c]
    BY <1>0 DEF CloseDoes, ShutEnd, SweepAgain, Closed, Close, ShutNext, SweepNext, ipcVars, userVars, WordTypes, UserTypes
  <2> QED BY <2>1, <2>2
<1>3. CASE ShutEnd \/ SweepAgain
  <2>1. /\ loc[Server] \in {"shut", "sweep", "resweep"} /\ loc'[Server] \in {"sweep", "resweep"}
        /\ UNCHANGED <<word, rmAdd, rmDel, tag, evtq, ring, prioCur, signal, result>>
        /\ \A c \in Clients : (c \in asleep' <=> c \in asleep) /\ (c \in online' <=> c \in online)
    BY <1>0, <1>3 DEF ShutEnd, SweepAgain, ipcVars, queueVars, schedVars, userVars, At, Goto, QueueTypes
  <2> QED BY <1>1, <1>2, <2>1 DEF Queued, Listed
<1>4. CASE Closed
  <2>1. /\ loc[Server] = "resweep" /\ loc'[Server] = "user" /\ evtq = <<>> /\ signal' = 0 /\ tag'[Server] = None
        /\ UNCHANGED <<word, rmAdd, rmDel, evtq, ring, prioCur, asleep, online>>
    BY <1>0, <1>4 DEF Closed, schedVars, At, Goto, WordTypes, QueueTypes
  <2>2. result'[Server] = IF signal > 0 THEN "SER_SIGNAL" ELSE "OK"
    BY <1>0, <1>4 DEF Closed, UserTypes
  <2>3. Listed = {}
    BY <2>1 DEF Tidy
  <2> QED BY <1>1, <1>2, <1>4, <2>1, <2>2, <2>3 DEF Queued, Listed
<1>5. ASSUME NEW d \in Clients, Close(d)
      PROVE  /\ mode.closing /\ loc[Server] = "serve" /\ tag[Server] = d /\ loc'[Server] = "shut"
             /\ tag'[Server] = IF "READY" \in word[d] THEN None ELSE d
             /\ \A c \in Clients : word'[c] = IF c = d THEN word[c] \cup {"READY"} ELSE word[c]
             /\ UNCHANGED <<rmAdd, rmDel, evtq, Queued, ring, prioCur, signal, Listed, asleep, online, result>>
  <2>1. /\ mode.closing /\ loc[Server] = "serve" /\ tag[Server] = d /\ loc'[Server] = "shut"
        /\ UNCHANGED <<rmAdd, rmDel, evtq, ring, prioCur, signal, asleep, online, result>>
    BY <1>0, <1>5 DEF Close, queueVars, schedVars, userVars, At, Goto, QueueTypes
  <2>2. tag'[Server] = IF "READY" \in word[d] THEN None ELSE d
    BY <1>0, <1>5 DEF Close, Has, WordTypes
  <2>3. \A c \in Clients : word'[c] = IF c = d THEN word[c] \cup {"READY"} ELSE word[c]
    BY <1>0, <1>5 DEF Close, WordTypes
  <2> QED BY <2>1, <2>2, <2>3 DEF Queued, Listed
<1>6. ASSUME NEW d \in Clients, ShutNext(d)
      PROVE  /\ loc[Server] = "shut" /\ d \in Listed /\ Listed' = Listed \ {d} /\ SignalAdd(-1)
             /\ UNCHANGED <<loc, tag, evtq, Queued, result>>
             /\ \/ "READY" \in word[d] /\ UNCHANGED <<word, rmAdd, rmDel, asleep, online>>
                \/ /\ "READY" \notin word[d] /\ ticking = None /\ asleep' = asleep \ {d} /\ online' = online \ {d}
                   /\ word' = [word EXCEPT ![d] = @ \cup {"READY"}]
                   /\ rmDel' = rmDel /\ rmAdd' = [rmAdd EXCEPT ![d] = @ \cup {"ES_ERROR"}]
  <2>1. loc[Server] = "shut" /\ SignalAdd(-1) /\ UNCHANGED <<loc, tag, evtq, result>>
    BY <1>6 DEF ShutNext, RecvNext, At, userVars
  <2>2. d \in Listed /\ Listed' = Listed \ {d}
    BY <1>0, <1>6, NextIs DEF ShutNext, RecvNext
  <2>3. CASE "READY" \in word[d]
    BY <1>6, <2>1, <2>2, <2>3 DEF ShutNext, Has, schedVars, Queued
  <2>4. CASE "READY" \notin word[d]
    <3>1. word' = [word EXCEPT ![d] = @ \cup {"READY"}] /\ RmStateChange(d, {}, {"ES_ERROR"}) /\ Wakeup(d)
      BY <1>6, <2>4 DEF ShutNext, Has, Ready
    <3>2. ticking = None /\ asleep' = asleep \ {d} /\ online' = online \ {d}
      BY <1>0, <3>1 DEF Wakeup, KernelFree, WordTypes
    <3>3. rmDel' = rmDel /\ rmAdd' = [rmAdd EXCEPT ![d] = @ \cup {"ES_ERROR"}]
      <4>1. rmDel' = [rmDel EXCEPT ![d] = @ \cup {}] /\ rmAdd' = [rmAdd EXCEPT ![d] = (@ \ {}) \cup {"ES_ERROR"}]
        BY <3>1 DEF RmStateChange
      <4>2. \A s : s \cup {} = s /\ s \ {} = s
        OBVIOUS
      <4>3. rmDel' = [rmDel EXCEPT ![d] = @]
        BY <4>1, <4>2
      <4>4. rmAdd' = [rmAdd EXCEPT ![d] = @ \cup {"ES_ERROR"}]
        BY <4>1, <4>2
      <4> QED BY <1>0, <4>3, <4>4 DEF WordTypes
    <3> QED BY <2>1, <2>2, <2>4, <3>1, <3>2, <3>3 DEF Queued
  <2> QED BY <2>3, <2>4
<1>7. ASSUME NEW d \in Clients, SweepNext(d)
      PROVE  /\ loc[Server] \in {"sweep", "resweep"} /\ d \in Queued /\ Queued' = Queued \ {d}
             /\ Listed = {} /\ UNCHANGED <<loc, word, tag, ring, prioCur, Listed, result>> /\ SweepCount(d)
             /\ rmDel' = [rmDel EXCEPT ![d] = @ \cup EsMask]
             /\ rmAdd' = [rmAdd EXCEPT ![d] = (@ \ EsMask) \cup {"ES_ERROR"}]
             /\ \/ asleep' = asleep /\ online' = online
                \/ /\ asleep' = asleep \ {d} /\ online' = online \ {d} /\ ticking = None
                   /\ "IN_IPC" \in word[d] => "READY" \in word[d]
  <2>1. loc[Server] \in {"sweep", "resweep"} /\ UNCHANGED <<loc, word, tag, ring, prioCur, result>> /\ SweepCount(d)
    BY <1>7 DEF SweepNext, At, userVars
  <2>2. d \in Queued /\ Queued' = Queued \ {d}
    BY <1>0, <1>7, HeadIs DEF SweepNext, Queued, Located, QueueTypes
  <2>3. Listed = {} /\ Listed' = Listed
    BY <2>1 DEF Tidy, Listed
  <2>4. rmDel' = [rmDel EXCEPT ![d] = @ \cup EsMask] /\ rmAdd' = [rmAdd EXCEPT ![d] = (@ \ EsMask) \cup {"ES_ERROR"}]
    BY <1>7 DEF SweepNext, RmStateChange
  <2>5. \/ asleep' = asleep /\ online' = online
        \/ /\ asleep' = asleep \ {d} /\ online' = online \ {d} /\ ticking = None
           /\ "IN_IPC" \in word[d] => "READY" \in word[d]
    BY <1>0, <1>7, WakeupIs DEF SweepNext
  <2> QED BY <2>1, <2>2, <2>3, <2>4, <2>5
<1>8. CASE \E d \in Clients : Close(d)
  BY <1>1, <1>2, <1>5, <1>8
<1>9. CASE \E d \in Clients : ShutNext(d)
  BY <1>1, <1>2, <1>6, <1>9
<1>10. CASE \E d \in Clients : SweepNext(d)
  BY <1>1, <1>2, <1>7, <1>10
<1> QED BY <1>3, <1>4, <1>8, <1>9, <1>10 DEF CloseDoes

\* What a step leaves of the account of c, when it does not concern c.
LEMMA AccountFrame ==
  ASSUME NEW c, "REQUEST" \in rmDel'[c] <=> "REQUEST" \in rmDel[c], loc'[c] = loc[c], InEvents(c)' <=> InEvents(c),
         c \in Listed' <=> c \in Listed
  PROVE  (Plus(c)' <=> Plus(c)) /\ (Minus(c)' <=> Minus(c))
BY DEF Plus, Minus, Pending, InEvents

\* The count stays when nothing moves.
LEMMA BalanceSame ==
  ASSUME Counted, signal' = signal, \A c \in Clients : (Plus(c)' <=> Plus(c)) /\ (Minus(c)' <=> Minus(c))
  PROVE  Counted'
<1>1. Ahead' = Ahead /\ Behind' = Behind
  BY DEF Ahead, Behind
<1> QED BY <1>1 DEF Counted

\* The count in the steps of the clients.
LEMMA ClientCounts ==
  ASSUME Base, Tidy, Counted, NEW d \in Clients, ClientDoes(d)
  PROVE  Counted'
<1>0. QueueTypes /\ TidyAway(d) /\ TidyEvent(d) /\ TidyTaken(d)
  BY TypesAre DEF Base, Tidy
<1>1. ASSUME NEW c \in Clients, c # d PROVE (Plus(c)' <=> Plus(c)) /\ (Minus(c)' <=> Minus(c))
  <2>1. (InEvents(c)' <=> InEvents(c)) /\ (c \in Listed' <=> c \in Listed)
    BY <1>1, ClientOther DEF InEvents
  <2> QED BY <1>1, <2>1, ClientOther, AccountFrame
<1>2. hand' = hand /\ Listed' = Listed /\ (evtq' = evtq => Queued' = Queued)
  BY ClientOther DEF Queued
<1>3. CASE loc[d] = "kernel" /\ loc'[d] = "wait"
  <2>1. SignalAdd(1) /\ rmDel'[d] = rmDel[d] /\ evtq' = evtq
    BY <1>3, ClientOwn
  <2>2. Pending(d)' <=> Pending(d)
    BY <1>2, <2>1 DEF Pending
  <2> QED BY <1>0, <1>1, <1>3, <2>1, <2>2, Balance DEF Plus, Minus
<1>4. CASE loc[d] = "queue" /\ loc'[d] = "kernel"
  <2>1. signal' = signal /\ rmDel'[d] = rmDel[d] /\ Queued' = Queued \cup {d}
    BY <1>4, ClientOwn
  <2>2. Pending(d)'
    BY <1>0, <1>4, <2>1 DEF Pending, TidyAway
  <2> QED BY <1>0, <1>1, <1>4, <2>1, <2>2, Balance DEF Plus, Minus
<1>5. CASE loc[d] = "wait" /\ loc'[d] = "idle"
  <2>1. signal' = signal /\ d \notin asleep
    BY <1>5, ClientOwn
  <2>2. ~Pending(d)
    BY <1>0, <1>5, <2>1 DEF Pending, TidyAway, Away, InEvents
  <2> QED BY <1>0, <1>1, <1>5, <2>1, <2>2, Balance DEF Plus, Minus
<1>6. CASE loc'[d] = loc[d] /\ signal' = signal /\ rmDel'[d] = rmDel[d] /\ evtq' = evtq
  BY <1>0, <1>1, <1>2, <1>6, Balance DEF Plus, Minus, Pending
<1>7. CASE loc[d] \in {"idle", "nap"} /\ loc'[d] \in {"idle", "nap", "queue"} /\ signal' = signal
  BY <1>0, <1>1, <1>7, Balance DEF Plus, Minus
<1> QED BY <1>3, <1>4, <1>5, <1>6, <1>7, ClientOwn

\* The count in the steps of the tick.
LEMMA TickCounts ==
  ASSUME Base, Tame, Tidy, Counted, ~Punctual => Reckoned, TickDoes
  PROVE  Counted'
<1>0. QueueTypes /\ WordTypes /\ \A c \in Clients : TidyAway(c) /\ TidyEvent(c) /\ TidyTaken(c) /\ Situated(c)
  BY TypesAre DEF Base, Tidy
<1>1. UNCHANGED <<hand, loc, signal, Listed, rmDel>>
  BY TickIs
<1>2. CASE Queued' = Queued
  <2>1. \A c \in Clients : (Plus(c)' <=> Plus(c)) /\ (Minus(c)' <=> Minus(c))
    BY <1>1, <1>2 DEF Plus, Minus, Pending
  <2> QED BY <1>1, <2>1, BalanceSame
<1>3. ASSUME NEW d \in Clients, Queued' = Queued \cup {d}, loc[d] = "wait", ~InEvents(d), ~Punctual PROVE Counted'
  <2>1. "REQUEST" \in rmDel[d]
    BY <1>3 DEF Reckoned
  <2>2. \A c \in Clients : Pending(c)' <=> Pending(c)
    BY <1>1, <1>3, <2>1 DEF Pending
  <2>3. \A c \in Clients : (Plus(c)' <=> Plus(c)) /\ (Minus(c)' <=> Minus(c))
    BY <1>1, <2>2 DEF Plus, Minus
  <2> QED BY <1>1, <2>3, BalanceSame
<1>4. ASSUME NEW d \in Clients, ticking = d, Queued' = Queued \cup {d} PROVE Counted'
  <2>1. loc[d] = "wait" /\ ~InEvents(d) /\ ~Punctual
    BY <1>0, <1>4 DEF Situated, TidyEvent
  <2> QED BY <1>3, <1>4, <2>1
<1>5. ASSUME NEW d \in Clients, Stage(d) \in mode.expireIn, ~Punctual, loc[d] = "wait", Queued' = Queued \cup {d}
      PROVE  Counted'
  <2>1. Stage(d) \in {"listed", "taken"}
    BY <1>5 DEF Tame, Orderly
  <2>2. ~InEvents(d)
    BY <2>1 DEF Stage, InEvents
  <2> QED BY <1>3, <1>5, <2>2
<1> QED BY <1>2, <1>4, <1>5, TickIs

\* The count in the steps of the service that receives.
LEMMA ServerCounts ==
  ASSUME Base, Tame, Tidy, Counted, ~Punctual => Reckoned, ServerDoes
  PROVE  Counted'
<1>0. /\ QueueTypes /\ WordTypes /\ UrgentFirst
      /\ \A c \in Clients : TidyClient(c) /\ TidyAway(c) /\ TidyEvent(c) /\ TidyTaken(c) /\ Situated(c)
  BY TypesAre DEF Base, Tidy, TidyClient
<1>1. \A c \in Clients : loc'[c] = loc[c]
  BY <1>0, ServerIs
<1>2. CASE UNCHANGED <<signal, Listed, rmDel, Queued, hand>>
  <2>1. \A c \in Clients : (Plus(c)' <=> Plus(c)) /\ (Minus(c)' <=> Minus(c))
    BY <1>1, <1>2 DEF Plus, Minus, Pending
  <2> QED BY <1>2, <2>1, BalanceSame
<1>3. ASSUME NEW d \in Clients, UNCHANGED <<signal, Listed, rmDel>>, hand = None, hand' = d, d \in Queued,
             Queued' = Queued \ {d}
      PROVE  Counted'
  <2>1. \A c \in Clients : (Plus(c)' <=> Plus(c)) /\ (Minus(c)' <=> Minus(c))
    BY <1>1, <1>3, Consts DEF Plus, Minus, Pending
  <2> QED BY <1>3, <2>1, BalanceSame
<1>4. CASE Event
  <2>1. PICK d \in Clients :
           /\ d = hand /\ hand' = None /\ evtq' = evtq
           /\ rmDel' = [rmDel EXCEPT ![d] = @ \cup EvtsMask]
           /\ d \notin Queued /\ "REQUEST" \in rmDel'[d]
           /\ \/ /\ ~Late(d) /\ "REQUEST" \notin rmDel[d] /\ Listed' = Listed \cup {d} /\ signal' = signal
              \/ /\ Late(d) /\ loc[d] = "wait" /\ Listed' = Listed \ {d}
                 /\ IF d \in Listed THEN SignalAdd(-1) ELSE UNCHANGED signal
    BY <1>0, <1>4, EventIs
  <2>2. Queued' = Queued
    BY <2>1 DEF Queued
  <2>3. \A c \in Clients : c # d => (Plus(c)' <=> Plus(c)) /\ (Minus(c)' <=> Minus(c))
    <3>1. \A c \in Clients : c # d => rmDel'[c] = rmDel[c]
      BY <1>0, <2>1 DEF WordTypes
    <3>2. \A c \in Clients : c # d => (Pending(c)' <=> Pending(c))
      BY <2>1, <2>2, <3>1, Consts DEF Pending
    <3> QED BY <1>1, <3>2 DEF Plus, Minus
  <2>4. CASE ~Late(d)
    <3>1. Pending(d) /\ Pending(d)' /\ signal' = signal
      BY <2>1, <2>2, <2>4 DEF Pending
    <3>2. (Plus(d)' <=> Plus(d)) /\ (Minus(d)' <=> Minus(d))
      BY <1>1, <3>1 DEF Plus, Minus
    <3> QED BY <1>0, <2>3, <3>1, <3>2, Balance
  <2>5. CASE Late(d)
    <3>1. ~Pending(d)' /\ loc[d] = "wait" /\ loc'[d] = "wait"
      BY <1>1, <2>1, <2>2, <2>5, Consts DEF Pending
    <3>2. "REQUEST" \in rmDel[d]
      BY <1>0, <2>5 DEF TidyEvent, Reckoned
    <3>3. Pending(d) <=> d \in Listed
      BY <3>2 DEF Pending
    <3>4. CASE d \in Listed
      <4>1. SignalAdd(-1) /\ Plus(d) /\ ~Plus(d)' /\ ~Minus(d) /\ ~Minus(d)'
        BY <2>1, <2>5, <3>1, <3>3, <3>4 DEF Plus, Minus
      <4> QED BY <1>0, <2>3, <4>1, Balance
    <3>5. CASE d \notin Listed
      <4>1. signal' = signal /\ ~Plus(d) /\ ~Plus(d)' /\ ~Minus(d) /\ ~Minus(d)'
        BY <2>1, <2>5, <3>1, <3>3, <3>5 DEF Plus, Minus
      <4> QED BY <1>0, <2>3, <4>1, Balance
    <3> QED BY <3>4, <3>5
  <2> QED BY <2>4, <2>5
<1> QED BY <1>0, <1>2, <1>3, <1>4, ServerIs

\* A request leaves the list and is counted off.
LEMMA NextCounts ==
  ASSUME Base, Tidy, Counted, NEW d \in Clients, d \in Listed, Listed' = Listed \ {d}, SignalAdd(-1),
         \A c \in Clients : loc'[c] = loc[c] /\ ("REQUEST" \in rmDel'[c] <=> "REQUEST" \in rmDel[c]),
         Queued' = Queued, hand' = hand
  PROVE  Counted'
<1>0. QueueTypes /\ TidyAway(d) /\ TidyTaken(d) /\ Situated(d) /\ Located
  BY TypesAre DEF Base, Tidy
<1>1. \A c \in Clients : c # d => (Plus(c)' <=> Plus(c)) /\ (Minus(c)' <=> Minus(c))
  BY DEF Plus, Minus, Pending
<1>2. Pending(d) /\ ~Pending(d)'
  BY <1>0 DEF TidyTaken, Pending
<1>3. loc[d] \in {"kernel", "wait"}
  BY <1>0 DEF TidyAway, Away, Located, ClientLocs
<1>4. \/ Plus(d) /\ ~Plus(d)' /\ ~Minus(d) /\ ~Minus(d)'
      \/ ~Plus(d) /\ ~Plus(d)' /\ ~Minus(d) /\ Minus(d)'
  BY <1>2, <1>3 DEF Plus, Minus
<1> QED BY <1>0, <1>1, <1>4, Balance

\* The count in the steps of the service that serves.
LEMMA ServesCounts ==
  ASSUME Base, Tame, Tidy, Counted, NEW d \in Clients, ServesDoes(d)
  PROVE  Counted'
<1>0. /\ QueueTypes /\ UrgentFirst
  BY TypesAre DEF Base, Tidy
<1>1. \A c \in Clients : loc'[c] = loc[c] /\ ("REQUEST" \in rmDel'[c] <=> "REQUEST" \in rmDel[c])
  <2>1. ASSUME NEW c \in Clients, c # d PROVE loc'[c] = loc[c] /\ rmDel'[c] = rmDel[c]
    BY <1>0, <2>1, ServesOther
  <2>2. loc'[d] = loc[d]
    BY <1>0, ServesOwn
  <2>3. "REQUEST" \in rmDel'[d] <=> "REQUEST" \in rmDel[d]
    BY <1>0, ServesOwn
  <2> QED BY <2>1, <2>2, <2>3
<1>2. Queued' = Queued /\ hand' = hand
  BY <1>0, ServesOwn
<1>3. CASE d \in Listed /\ Listed' = Listed \ {d} /\ SignalAdd(-1)
  BY <1>1, <1>2, <1>3, NextCounts
<1>4. CASE UNCHANGED <<Listed, signal>>
  <2>1. \A c \in Clients : (Plus(c)' <=> Plus(c)) /\ (Minus(c)' <=> Minus(c))
    BY <1>1, <1>2, <1>4 DEF Plus, Minus, Pending
  <2> QED BY <1>4, <2>1, BalanceSame
<1> QED BY <1>0, <1>3, <1>4, ServesOwn

\* The count in the steps of the service that closes, when no sender is interrupted.
LEMMA CloseCountsKept ==
  ASSUME Base, Tame, Tidy, Counted, Punctual, \A c \in Clients : loc[c] # "kernel", CloseDoes
  PROVE  Counted' /\ (Closed => signal = 0)
<1>0. /\ QueueTypes /\ WordTypes /\ Located
      /\ \A c \in Clients : TidyAway(c) /\ TidyEvent(c) /\ TidyTaken(c) /\ Situated(c)
  BY TypesAre DEF Base, Tidy
<1>1. \A c \in Clients : loc'[c] = loc[c]
  BY CloseIs
<1>2. hand' = hand /\ hand = None
  BY CloseIs
<1>3. ASSUME UNCHANGED <<signal, Queued, Listed, rmDel>> PROVE Counted'
  <2>1. \A c \in Clients : (Plus(c)' <=> Plus(c)) /\ (Minus(c)' <=> Minus(c))
    BY <1>1, <1>2, <1>3 DEF Plus, Minus, Pending
  <2> QED BY <1>3, <2>1, BalanceSame
<1>4. ASSUME NEW d \in Clients, d \in Listed, Listed' = Listed \ {d}, SignalAdd(-1), Queued' = Queued, rmDel' = rmDel
      PROVE  Counted'
  BY <1>1, <1>2, <1>4, NextCounts
<1>5. ASSUME NEW d \in Clients, d \in Queued, Queued' = Queued \ {d}, Listed = {}, Listed' = Listed, SweepCount(d),
             rmDel' = [rmDel EXCEPT ![d] = @ \cup EsMask]
      PROVE  Counted'
  <2>1. "REQUEST" \in word[d] /\ "REQUEST" \notin rmDel[d]
    BY <1>0, <1>5 DEF TidyEvent, InEvents
  <2>2. SignalAdd(-1)
    BY <1>5, <2>1 DEF SweepCount, Has
  <2>3. loc[d] = "wait"
    BY <1>0, <1>5 DEF TidyAway, Away, InEvents, Located, ClientLocs
  <2>4. Pending(d) /\ ~Pending(d)'
    BY <1>2, <1>5, <2>1, Consts DEF Pending
  <2>5. Plus(d) /\ ~Plus(d)' /\ ~Minus(d) /\ ~Minus(d)'
    BY <1>1, <2>3, <2>4 DEF Plus, Minus
  <2>6. \A c \in Clients : c # d => rmDel'[c] = rmDel[c]
    BY <1>0, <1>5 DEF WordTypes
  <2>7. \A c \in Clients : c # d => (Plus(c)' <=> Plus(c)) /\ (Minus(c)' <=> Minus(c))
    BY <1>1, <1>2, <1>5, <2>6 DEF Plus, Minus, Pending
  <2> QED BY <1>0, <2>2, <2>5, <2>7, Balance
<1>6. ASSUME Closed, evtq = <<>>, Listed = {} PROVE Counted' /\ signal = 0
  <2>1. Queued = {}
    BY <1>6 DEF Queued, Members
  <2>2. \A c \in Clients : ~Plus(c) /\ ~Minus(c)
    BY <1>0, <1>2, <1>6, <2>1, Consts DEF Plus, Minus, Pending
  <2>3. Ahead = {} /\ Behind = {}
    BY <2>2 DEF Ahead, Behind
  <2>4. signal = (0 + SignalMod - 0) % SignalMod
    BY <2>3, HowMany DEF Counted
  <2>5. signal = 0
    <3>1. SignalMod \in Nat \ {0} /\ 0 + SignalMod - 0 = SignalMod
      BY Consts
    <3>2. SignalMod % SignalMod = 0
      BY <3>1, ModIs
    <3> QED BY <2>4, <3>1, <3>2
  <2>6. signal' = 0 /\ Queued' = Queued /\ Listed' = Listed /\ rmDel' = rmDel
    BY <1>6 DEF Closed, Queued, Listed
  <2> QED BY <1>3, <2>5, <2>6
<1>7. Counted'
  BY <1>3, <1>4, <1>5, <1>6, CloseIs
<1>8. ASSUME Closed PROVE signal = 0
  <2>1. evtq = <<>> /\ Listed = {}
    BY <1>8 DEF Closed, Tidy, At
  <2> QED BY <1>6, <1>8, <2>1
<1> QED BY <1>7, <1>8

\* A service closes only where the circumstances have it.
LEMMA StaysKept ==
  ASSUME Base, Stays, [Next]_vars
  PROVE  Stays'
<1>0. QueueTypes /\ Server \in Threads /\ Server \notin Clients /\ mode' = mode
  BY TypesAre, Consts, ModeSame DEF Base
<1>1. ASSUME NEW c \in Clients, ClientDoes(c) PROVE loc'[Server] = loc[Server]
  BY <1>0, <1>1, ClientOther
<1>2. TickDoes => loc' = loc
  BY TickIs
<1>3. ServerDoes => loc'[Server] \notin {"shut", "sweep", "resweep"}
  BY <1>0 DEF ServerDoes, Recv, Drain, Event, Check, Resume, PickNone, Goto, QueueTypes
<1>4. ASSUME NEW c \in Clients, ServesDoes(c) PROVE loc'[Server] \notin {"shut", "sweep", "resweep"}
  BY <1>0, <1>4 DEF ServesDoes, Pick, InTimeout, InSend, InCall, Took, Answer, Reply, Goto, QueueTypes
<1>5. CloseDoes => mode.closing
  BY DEF CloseDoes, ShutEnd, SweepAgain, Closed, Close, ShutNext, SweepNext, At, Stays
<1>6. UNCHANGED vars => loc' = loc
  BY DEF vars
<1> QED BY <1>0, <1>1, <1>2, <1>3, <1>4, <1>5, <1>6, StepIs DEF Stays

\* Each request stays known while the service is open.
LEMMA ReckonedKept ==
  ASSUME Base, Tame, Tidy, Stays, Orderly, ~mode.closing, Reckoned, [Next]_vars
  PROVE  Reckoned'
<1> SUFFICES ASSUME NEW c \in Clients
             PROVE  /\ loc'[c] \in {"kernel", "wait"} => InEvents(c)' \/ "REQUEST" \in rmDel'[c]
                    /\ Late(c)' => "REQUEST" \in rmDel'[c]
  BY DEF Reckoned
<1>0. /\ QueueTypes /\ WordTypes /\ Located /\ UrgentFirst /\ \A d \in Clients : TidyClient(d)
      /\ TidyAway(c) /\ TidyEvent(c) /\ TidyTaken(c) /\ Situated(c)
      /\ loc[c] \in {"kernel", "wait"} => InEvents(c) \/ "REQUEST" \in rmDel[c]
      /\ Late(c) => "REQUEST" \in rmDel[c]
  BY TypesAre DEF Base, Tidy, Reckoned, TidyClient
<1>1. ASSUME loc'[c] = loc[c], InEvents(c) => InEvents(c)', Late(c)' => Late(c),
             "REQUEST" \in rmDel[c] => "REQUEST" \in rmDel'[c]
      PROVE  /\ loc'[c] \in {"kernel", "wait"} => InEvents(c)' \/ "REQUEST" \in rmDel'[c]
             /\ Late(c)' => "REQUEST" \in rmDel'[c]
  BY <1>0, <1>1
<1>2. ASSUME NEW d \in Clients, ClientDoes(d), d # c
      PROVE  /\ loc'[c] \in {"kernel", "wait"} => InEvents(c)' \/ "REQUEST" \in rmDel'[c]
             /\ Late(c)' => "REQUEST" \in rmDel'[c]
  BY <1>1, <1>2, ClientOther DEF InEvents, Late
<1>3. ASSUME ClientDoes(c)
      PROVE  /\ loc'[c] \in {"kernel", "wait"} => InEvents(c)' \/ "REQUEST" \in rmDel'[c]
             /\ Late(c)' => "REQUEST" \in rmDel'[c]
  <2>1. hand' = hand /\ (evtq' = evtq => Queued' = Queued)
    BY <1>3, ClientOther DEF Queued
  <2>2. CASE loc[c] = "kernel" /\ loc'[c] = "wait"
    <3>1. evtq' = evtq /\ rmDel'[c] = rmDel[c] /\ word'[c] = word[c] \cup {"IN_IPC"}
      BY <1>3, <2>2, ClientOwn
    <3> QED BY <1>0, <2>1, <2>2, <3>1 DEF InEvents, Late
  <2>3. CASE loc[c] = "queue" /\ loc'[c] = "kernel"
    <3>1. Queued' = Queued \cup {c} /\ word'[c] = word[c] \cup {"REQUEST"}
      BY <1>3, <2>3, ClientOwn
    <3>2. ~Late(c)
      BY <1>0, <2>3 DEF TidyAway, Late
    <3> QED BY <3>1, <3>2 DEF InEvents, Late
  <2>4. CASE loc[c] = "wait" /\ loc'[c] = "idle"
    <3>1. word'[c] \subseteq TsMask
      BY <1>3, <2>4, ClientOwn
    <3> QED BY <2>4, <3>1 DEF Late, TsMask
  <2>5. CASE loc[c] \in {"idle", "nap"} /\ loc'[c] \in {"idle", "nap", "queue"}
    <3>1. word'[c] = word[c] \/ word'[c] \cap {"REQUEST", "TIMEOUT"} = {}
      BY <1>3, <2>5, ClientOwn
    <3>2. ~Late(c)
      BY <1>0, <2>5 DEF TidyEvent
    <3> QED BY <2>5, <3>1, <3>2 DEF Late
  <2>6. CASE loc'[c] = loc[c] /\ UNCHANGED <<word, rmDel, evtq>>
    BY <1>1, <2>1, <2>6 DEF InEvents, Late
  <2> QED BY <1>3, <2>2, <2>3, <2>4, <2>5, <2>6, ClientOwn
<1>4. ASSUME TickDoes
      PROVE  /\ loc'[c] \in {"kernel", "wait"} => InEvents(c)' \/ "REQUEST" \in rmDel'[c]
             /\ Late(c)' => "REQUEST" \in rmDel'[c]
  <2>1. UNCHANGED <<hand, loc, rmDel>>
    BY <1>4, TickIs
  <2>2. Queued \subseteq Queued'
    BY <1>4, TickIs
  <2>3. Late(c)' /\ ~Late(c) => "REQUEST" \in rmDel[c]
    <3>1. ASSUME NEW d \in Clients, ticking = d, word' = [word EXCEPT ![d] = @ \cup {"TIMEOUT"}], Late(c)', ~Late(c)
          PROVE  "REQUEST" \in rmDel[c]
      <4>1. ticking = c
        BY <1>0, <3>1 DEF Late, WordTypes
      <4> QED BY <1>0, <4>1 DEF Situated, TidyEvent
    <3>2. ASSUME NEW d \in Clients, loc[d] = "wait", Stage(d) \in mode.expireIn, Late(c)', ~Late(c),
                 \/ word' = [word EXCEPT ![d] = @ \cup {"READY"}]
                 \/ word' = [word EXCEPT ![d] = @ \cup {"READY", "TIMEOUT"}]
          PROVE  "REQUEST" \in rmDel[c]
      <4>1. d = c
        BY <1>0, <3>2, Consts DEF Late, WordTypes
      <4>2. Stage(d) \in {"listed", "taken"}
        BY <3>2 DEF Orderly
      <4>3. ~InEvents(d)
        BY <4>2 DEF Stage, InEvents
      <4> QED BY <1>0, <3>2, <4>1, <4>3
    <3>3. word' = word => (Late(c)' <=> Late(c))
      BY DEF Late
    <3> QED BY <1>4, <3>1, <3>2, <3>3, TickIs
  <2> QED BY <1>0, <2>1, <2>2, <2>3 DEF InEvents
<1>5. ASSUME ServerDoes
      PROVE  /\ loc'[c] \in {"kernel", "wait"} => InEvents(c)' \/ "REQUEST" \in rmDel'[c]
             /\ Late(c)' => "REQUEST" \in rmDel'[c]
  <2>1. loc'[c] = loc[c] /\ (Late(c)' <=> Late(c))
    BY <1>0, <1>5, ServerIs DEF Late
  <2>2. CASE UNCHANGED <<Queued, hand, rmDel>>
    BY <1>1, <2>1, <2>2 DEF InEvents
  <2>3. CASE \E d \in Clients : hand = None /\ hand' = d /\ d \in Queued /\ Queued' = Queued \ {d} /\ rmDel' = rmDel
    <3>1. InEvents(c) => InEvents(c)'
      BY <2>3, Consts DEF InEvents
    <3> QED BY <1>1, <2>1, <2>3, <3>1
  <2>4. CASE Event
    <3>1. PICK d \in Clients :
             /\ d = hand /\ evtq' = evtq /\ "REQUEST" \in rmDel'[d] /\ hand' = None
             /\ rmDel' = [rmDel EXCEPT ![d] = @ \cup EvtsMask]
      BY <1>0, <2>4, EventIs
    <3>2. Queued' = Queued
      BY <3>1 DEF Queued
    <3>3. CASE c = d
      BY <3>1, <3>3
    <3>4. CASE c # d
      <4>1. rmDel'[c] = rmDel[c]
        BY <1>0, <3>1, <3>4 DEF WordTypes
      <4>2. InEvents(c) => InEvents(c)'
        BY <3>1, <3>2, <3>4 DEF InEvents
      <4> QED BY <1>1, <2>1, <4>1, <4>2
    <3> QED BY <3>3, <3>4
  <2> QED BY <1>0, <1>5, <2>2, <2>3, <2>4, ServerIs
<1>6. ASSUME NEW d \in Clients, ServesDoes(d)
      PROVE  /\ loc'[c] \in {"kernel", "wait"} => InEvents(c)' \/ "REQUEST" \in rmDel'[c]
             /\ Late(c)' => "REQUEST" \in rmDel'[c]
  <2>1. UNCHANGED <<hand, Queued>>
    BY <1>0, <1>6, ServesOwn
  <2>2. CASE d # c
    BY <1>0, <1>1, <1>6, <2>1, <2>2, ServesOther DEF InEvents, Late
  <2>3. CASE d = c
    <3>1. loc'[c] = loc[c]
      BY <1>0, <1>6, <2>3, ServesOwn
    <3>2. "REQUEST" \in rmDel[c] => "REQUEST" \in rmDel'[c]
      BY <1>0, <1>6, <2>3, ServesOwn
    <3>3. Late(c)' => Late(c)
      BY <1>0, <1>6, <2>3, ServesOwn DEF Late
    <3> QED BY <1>1, <2>1, <3>1, <3>2, <3>3 DEF InEvents
  <2> QED BY <2>2, <2>3
<1>7. ~CloseDoes
  BY DEF CloseDoes, ShutEnd, SweepAgain, Closed, Close, ShutNext, SweepNext, At, Stays
<1>8. ASSUME UNCHANGED vars
      PROVE  /\ loc'[c] \in {"kernel", "wait"} => InEvents(c)' \/ "REQUEST" \in rmDel'[c]
             /\ Late(c)' => "REQUEST" \in rmDel'[c]
  BY <1>1, <1>8 DEF vars, ipcVars, queueVars, InEvents, Queued, Late
<1> QED BY <1>2, <1>3, <1>4, <1>5, <1>6, <1>7, <1>8, StepIs

\* The count is kept.
LEMMA CountedKept ==
  ASSUME Base, Tidy, Stays, Countable, Orderly /\ ~mode.closing => Reckoned, Counted, [Next]_vars
  PROVE  Counted'
<1>0. Tame /\ (~Punctual => Reckoned)
  BY DEF Countable, Tame
<1>1. ASSUME UNCHANGED vars PROVE Counted'
  BY <1>1 DEF vars, queueVars, ipcVars, Counted, Ahead, Behind, Plus, Minus, Pending, Queued, Listed
<1>2. ASSUME Undisturbed, CloseDoes PROVE Counted'
  <2>1. mode.closing
    BY <1>2 DEF CloseDoes, ShutEnd, SweepAgain, Closed, Close, ShutNext, SweepNext, At, Stays
  <2>2. Punctual /\ \A c \in Clients : loc[c] # "kernel"
    BY <1>2, <2>1 DEF Countable, Undisturbed
  <2> QED BY <1>0, <1>2, <2>2, CloseCountsKept
<1>3. ASSUME NEW c \in Clients, Kernel(c) PROVE Counted'
  BY <1>3, ClientCounts DEF ClientDoes
<1> QED BY <1>0, <1>1, <1>2, <1>3, QuietIs, ClientCounts, TickCounts, ServerCounts, ServesCounts

\* The result of a close is kept good.
LEMMA ResultKept ==
  ASSUME Base, Tidy, Countable => Counted, Stays, Punctual, ~mode.preempt, result[Server] # "SER_SIGNAL", [Next]_vars
  PROVE  result'[Server] # "SER_SIGNAL"
<1>0. /\ UserTypes /\ Server \in Threads /\ Server \notin Clients /\ Counted /\ Tame /\ QueueTypes
  BY TypesAre, Consts DEF Base, Countable, Tame
<1>1. ASSUME NEW c \in Clients, ClientDoes(c) PROVE result'[Server] = result[Server]
  BY <1>0, <1>1 DEF ClientDoes, Kernel, Queue, Finish, NapOver, Nap, Stray, Send, userVars, UserTypes
<1>2. TickDoes \/ ServerDoes => result' = result
  BY DEF TickDoes, TickEvent, TickPlain, TickDecided, TickExpire, ServerDoes, Recv, Drain, Event, Check, Resume, PickNone,
     userVars
<1>3. ASSUME NEW c \in Clients, ServesDoes(c) PROVE result' = result
  BY <1>3 DEF ServesDoes, Pick, InTimeout, InSend, InCall, Took, Answer, Reply, userVars
<1>4. ASSUME Undisturbed, CloseDoes PROVE result'[Server] # "SER_SIGNAL"
  <2>1. \A c \in Clients : loc[c] # "kernel"
    BY <1>4 DEF Undisturbed
  <2>2. Closed => signal = 0
    BY <1>0, <1>4, <2>1, CloseCountsKept
  <2>3. ~Closed => result' = result
    BY <1>4 DEF CloseDoes, ShutEnd, SweepAgain, Close, ShutNext, SweepNext, userVars
  <2>4. Closed => result'[Server] = "OK"
    BY <1>0, <2>2 DEF Closed, UserTypes
  <2> QED BY <2>3, <2>4
<1>5. UNCHANGED vars => result' = result
  BY DEF vars, userVars
<1>6. ASSUME NEW c \in Clients, Kernel(c) PROVE result'[Server] = result[Server]
  BY <1>1, <1>6 DEF ClientDoes
<1> QED BY <1>1, <1>2, <1>3, <1>4, <1>5, <1>6, QuietIs

\* At the start nothing is to be counted.
LEMMA InitReckoning ==
  ASSUME Init
  PROVE  Reckoning
<1>0. None \notin Threads /\ Server \notin Clients /\ Server \in Threads /\ Clients \subseteq Threads
  BY Consts
<1>1. \A c \in Clients : loc[c] = "idle" /\ word[c] = {}
  BY <1>0 DEF Init
<1>2. Ahead = {} /\ Behind = {}
  BY <1>1 DEF Ahead, Behind, Plus, Minus
<1>3. Counted
  <2>1. SignalMod \in Nat \ {0} /\ 0 + SignalMod - 0 = SignalMod
    BY Consts
  <2>2. SignalMod % SignalMod = 0
    BY <2>1, ModIs
  <2>3. Cardinality(Ahead) = 0 /\ Cardinality(Behind) = 0 /\ signal = 0
    BY <1>2, HowMany DEF Init
  <2> QED BY <2>1, <2>2, <2>3 DEF Counted
<1>4. Stays /\ result[Server] = "OK"
  BY <1>0 DEF Init, Stays
<1>5. Reckoned
  BY <1>1 DEF Reckoned, Late
<1> QED BY <1>3, <1>4, <1>5 DEF Reckoning

\* The account of the requests is always right.
THEOREM ReckoningOK == Spec => [](Base /\ (Tame => Tidy) /\ Reckoning)
<1>1. Init => Reckoning
  BY InitReckoning
<1>2. Base /\ (Tame => Tidy) /\ Reckoning /\ [Next]_vars => Reckoning'
  <2> SUFFICES ASSUME Base, Tame => Tidy, Reckoning, [Next]_vars PROVE Reckoning'
    OBVIOUS
  <2>1. mode' = mode /\ (Tame' <=> Tame) /\ (Orderly' <=> Orderly) /\ (Punctual' <=> Punctual) /\ (Countable' <=> Countable)
    BY ModeSame DEF Tame, Orderly, Punctual, Countable
  <2>2. Stays'
    BY StaysKept DEF Reckoning
  <2>3. Orderly /\ ~mode.closing => Reckoned'
    BY ReckonedKept DEF Reckoning, Tame
  <2>4. Countable => Counted'
    BY CountedKept DEF Reckoning, Countable
  <2>5. Punctual /\ ~mode.preempt => result'[Server] # "SER_SIGNAL"
    BY ResultKept DEF Reckoning, Tame
  <2> QED BY <2>1, <2>2, <2>3, <2>4, <2>5 DEF Reckoning
<1> QED BY <1>1, <1>2, TidyOK, PTL DEF Spec

\* The signal of an open service counts its requests (IPL_uiSignal).
THEOREM SignalCountsOK == Spec => []SignalCounts
<1>1. Reckoning => SignalCounts
  BY DEF Reckoning, SignalCounts, Countable, Tame, Counted, Ahead, Behind, Plus, Minus
<1> QED BY <1>1, ReckoningOK, PTL

\* A service that closes finds every request counted once (MXI_ipcClose).
THEOREM CloseCountsOK == Spec => []CloseCounts
<1>1. Reckoning => CloseCounts
  BY DEF Reckoning, CloseCounts
<1> QED BY <1>1, ReckoningOK, PTL
-----------------------------------------------------------------------------
(* The service does not sleep on a request, and no client sleeps unknown.     *)

\* While the service is open, a request without a decision is an event, listed or served.
Held(c) ==
    loc[c] \in {"kernel", "wait"} /\ "READY" \notin word[c] =>
        InEvents(c) \/ c \in Listed \/ (c = tag[Server] /\ loc[Server] \in {"in", "serve"})

\* A timeout that strikes while the service looks at its count is that of a listed request.
Seen(c) == loc[Server] = "check" /\ c \in Queued /\ Late(c) => c \in Listed
Remembered ==
    /\ ~mode.smp => ticking = None
    /\ Tame /\ ~mode.closing => \A c \in Clients : Held(c)
    /\ Orderly /\ ~mode.smp /\ ~mode.closing => \A c \in Clients : Seen(c)
    /\ NoRequestForgotten

\* A client that sleeps without a decision is in the wakeup list; with one, somebody
\* is about to wake it.
Watched(c) ==
    c \in asleep =>
        IF "READY" \in word[c]
        THEN \/ Overdue(c)
             \/ c = tag[Server] /\ loc[Server] \in {"took", "answer"}
        ELSE c \in online
Quick(c) == loc[c] = "kernel" => "READY" \notin word[c]
Attended ==
    /\ Tame /\ ~mode.preempt => \A c \in Clients : Quick(c)
    /\ Tame /\ ~mode.preempt /\ ~mode.closing /\ ~mode.napping => \A c \in Clients : Watched(c)

\* Only a client's own step takes it elsewhere.
LEMMA OthersStay ==
  ASSUME Base, Tidy, TickDoes \/ ServerDoes \/ (\E d \in Clients : ServesDoes(d)) \/ CloseDoes
  PROVE  \A c \in Clients : loc'[c] = loc[c]
<1>0. UrgentFirst /\ \A d \in Clients : TidyClient(d)
  BY DEF Tidy, TidyClient
<1>1. TickDoes => loc' = loc
  BY TickIs
<1>2. ServerDoes => \A c \in Clients : loc'[c] = loc[c]
  BY <1>0, ServerIs
<1>3. ASSUME NEW d \in Clients, ServesDoes(d), NEW c \in Clients PROVE loc'[c] = loc[c]
  BY <1>0, <1>3, ServesOther, ServesOwn
<1>4. CloseDoes => \A c \in Clients : loc'[c] = loc[c]
  BY CloseIs
<1> QED BY <1>1, <1>2, <1>3, <1>4

\* A service that is not to close takes no step of a close.
LEMMA NoClose == Stays /\ ~mode.closing => ~CloseDoes
BY DEF CloseDoes, ShutEnd, SweepAgain, Closed, Close, ShutNext, SweepNext, At, Stays

\* Held is kept.
LEMMA HeldKept ==
  ASSUME Base, Tame, Tidy, Stays, ~mode.closing, NEW c \in Clients, Held(c), [Next]_vars
  PROVE  Held(c)'
<1>0. /\ QueueTypes /\ WordTypes /\ Located /\ UrgentFirst /\ \A d \in Clients : TidyClient(d)
      /\ TidyAway(c) /\ TidyEvent(c) /\ TidyTaken(c) /\ Situated(c) /\ c \in Threads
  BY TypesAre, Consts DEF Base, Tidy, TidyClient
<1>1. ASSUME loc'[c] = loc[c], "READY" \in word[c] => "READY" \in word'[c], InEvents(c) => InEvents(c)',
             c \in Listed => c \in Listed',
             c = tag[Server] /\ loc[Server] \in {"in", "serve"} => c = tag'[Server] /\ loc'[Server] \in {"in", "serve"}
      PROVE  Held(c)'
  BY <1>1 DEF Held
<1>2. ASSUME NEW d \in Clients, ClientDoes(d), d # c PROVE Held(c)'
  BY <1>1, <1>2, ClientOther DEF InEvents
<1>3. ASSUME ClientDoes(c) PROVE Held(c)'
  <2>1. hand' = hand /\ Listed' = Listed /\ (evtq' = evtq => Queued' = Queued)
        /\ tag'[Server] = tag[Server] /\ loc'[Server] = loc[Server]
    BY <1>3, ClientOther DEF Queued
  <2>2. CASE loc[c] = "kernel" /\ loc'[c] = "wait"
    <3>1. evtq' = evtq /\ word'[c] = word[c] \cup {"IN_IPC"}
      BY <1>3, <2>2, ClientOwn
    <3> QED BY <2>1, <2>2, <3>1 DEF InEvents, Held
  <2>3. CASE loc[c] = "queue" /\ loc'[c] = "kernel"
    <3>1. Queued' = Queued \cup {c}
      BY <1>3, <2>3, ClientOwn
    <3> QED BY <3>1 DEF InEvents, Held
  <2>4. CASE loc'[c] \in {"idle", "nap", "queue"}
    BY <2>4 DEF Held
  <2>5. CASE loc'[c] = loc[c] /\ UNCHANGED <<word, evtq>>
    BY <1>1, <2>1, <2>5 DEF InEvents
  <2> QED BY <1>3, <2>2, <2>3, <2>4, <2>5, ClientOwn
<1>4. ASSUME TickDoes PROVE Held(c)'
  <2>1. UNCHANGED <<hand, loc, tag, Listed>> /\ Queued \subseteq Queued'
    BY <1>4, TickIs
  <2>2. "READY" \in word[c] => "READY" \in word'[c]
    <3>1. \A d \in Clients : \A e : word' = [word EXCEPT ![d] = @ \cup e] => word[c] \subseteq word'[c]
      BY <1>0 DEF WordTypes
    <3> QED BY <1>4, <3>1, TickIs
  <2> QED BY <1>1, <2>1, <2>2 DEF InEvents
<1>5. ASSUME ServerDoes PROVE Held(c)'
  <2>1. loc'[c] = loc[c] /\ word'[c] = word[c] /\ tag[Server] = None /\ c # None
    BY <1>0, <1>5, ServerIs, Consts
  <2>2. CASE UNCHANGED <<Queued, hand, Listed>>
    BY <1>1, <2>1, <2>2 DEF InEvents
  <2>3. CASE \E d \in Clients : hand = None /\ hand' = d /\ d \in Queued /\ Queued' = Queued \ {d} /\ Listed' = Listed
    <3>1. InEvents(c) => InEvents(c)'
      BY <2>3, Consts DEF InEvents
    <3> QED BY <1>1, <2>1, <2>3, <3>1
  <2>4. CASE Event
    <3>1. PICK d \in Clients :
             /\ d = hand /\ evtq' = evtq /\ hand' = None
             /\ \/ Listed' = Listed \cup {d}
                \/ "READY" \in word[d] /\ Listed' = Listed \ {d}
      BY <1>0, <2>4, EventIs
    <3>2. Queued' = Queued
      BY <3>1 DEF Queued
    <3> QED BY <2>1, <3>1, <3>2 DEF Held, InEvents
  <2> QED BY <1>0, <1>5, <2>2, <2>3, <2>4, ServerIs
<1>6. ASSUME NEW d \in Clients, ServesDoes(d) PROVE Held(c)'
  <2>1. UNCHANGED <<hand, Queued>>
    BY <1>0, <1>6, ServesOwn
  <2>2. CASE d # c
    BY <1>0, <1>1, <1>6, <2>1, <2>2, ServesOther DEF InEvents
  <2>3. CASE d = c
    <3>1. loc'[c] = loc[c] /\ Server \notin asleep
      BY <1>0, <1>6, <2>3, ServesOwn
    <3>2. CASE tag'[Server] = c /\ loc'[Server] = "in"
      BY <3>2 DEF Held
    <3>3. CASE loc[Server] \in {"in", "serve"} /\ "READY" \in word[c] /\ word' = word
      BY <3>3 DEF Held
    <3>4. CASE word'[c] = word[c] \cup {"READY"}
      BY <3>4 DEF Held
    <3>5. CASE tag'[Server] = c /\ loc'[Server] = "serve"
      BY <3>5 DEF Held
    <3>6. CASE loc[Server] \in {"took", "answer"} /\ word' = word /\ UNCHANGED Listed
      BY <1>1, <2>1, <3>1, <3>6 DEF InEvents
    <3> QED BY <1>0, <1>6, <2>3, <3>2, <3>3, <3>4, <3>5, <3>6, ServesOwn
  <2> QED BY <2>2, <2>3
<1>7. ~CloseDoes
  BY NoClose
<1>8. ASSUME UNCHANGED vars PROVE Held(c)'
  <2>1. Queued' = Queued /\ Listed' = Listed
    BY <1>8 DEF vars, queueVars, Queued, Listed
  <2> QED BY <1>1, <1>8, <2>1 DEF vars, ipcVars, InEvents
<1> QED BY <1>2, <1>3, <1>4, <1>5, <1>6, <1>7, <1>8, StepIs

\* Without another processor no tick handler is interrupted.
LEMMA TickingKept ==
  ASSUME ~mode.smp, ticking = None, [Next]_vars
  PROVE  ticking' = None
<1>1. ASSUME NEW c \in Clients, ClientDoes(c) PROVE ticking' = ticking
  BY <1>1 DEF ClientDoes, Kernel, Queue, Finish, NapOver, Nap, Stray, Send
<1>2. TickDoes => ticking' = ticking
  BY DEF TickDoes, TickEvent, TickPlain, TickDecided, TickExpire
<1>3. ServerDoes => ticking' = ticking
  BY DEF ServerDoes, Recv, Drain, Event, Check, Resume, PickNone
<1>4. ASSUME NEW c \in Clients, ServesDoes(c) PROVE ticking' = ticking
  BY <1>4 DEF ServesDoes, Pick, InTimeout, InSend, InCall, Took, Answer, Reply
<1>5. CloseDoes => ticking' = ticking
  BY DEF CloseDoes, ShutEnd, SweepAgain, Closed, Close, ShutNext, SweepNext
<1>6. UNCHANGED vars => ticking' = ticking
  BY DEF vars
<1> QED BY <1>1, <1>2, <1>3, <1>4, <1>5, <1>6, StepIs

\* A timeout that the service has not looked at, while it looks at its count, is still listed.
LEMMA SeenKept ==
  ASSUME Base, Orderly, Tidy, Stays, ~mode.closing, ticking = None, NEW c \in Clients, Held(c), Seen(c), [Next]_vars
  PROVE  Seen(c)'
<1>0. /\ QueueTypes /\ WordTypes /\ Located /\ UrgentFirst /\ \A d \in Clients : TidyClient(d)
      /\ TidyAway(c) /\ TidyEvent(c) /\ TidyTaken(c) /\ Situated(c) /\ c \in Threads
      /\ None \notin Clients /\ Server \in Threads /\ Server \notin Clients
  BY TypesAre, Consts DEF Base, Tidy, TidyClient
<1>1. ASSUME NEW d \in Clients, ClientDoes(d) PROVE Seen(c)'
  <2>1. loc'[Server] = loc[Server] /\ Listed' = Listed
    BY <1>1, ClientOther
  <2>2. CASE d # c
    BY <1>1, <2>1, <2>2, ClientOther DEF Seen, Late
  <2>3. CASE d = c
    <3>1. CASE loc[c] = "wait"
      <4>1. evtq' = evtq /\ (Late(c)' => Late(c))
        BY <1>1, <2>3, <3>1, ClientOwn DEF Late, TsMask
      <4> QED BY <2>1, <4>1 DEF Seen, Queued
    <3>2. CASE loc[c] # "wait"
      <4>1. ~Late(c)
        BY <1>0, <3>2 DEF TidyEvent
      <4>2. ~Late(c)'
        BY <1>1, <2>3, <3>2, <4>1, ClientOwn DEF Late
      <4> QED BY <4>2 DEF Seen
    <3> QED BY <3>1, <3>2
  <2> QED BY <2>2, <2>3
<1>2. ASSUME TickDoes PROVE Seen(c)'
  <2>1. UNCHANGED <<hand, loc, tag, Listed>>
    BY <1>2, TickIs
  <2>2. CASE UNCHANGED <<Queued, word>>
    BY <2>1, <2>2 DEF Seen, Late
  <2>3. ASSUME NEW d \in Clients, loc[d] = "wait", Stage(d) \in mode.expireIn, "READY" \notin word[d], d # c,
               \E e : word' = [word EXCEPT ![d] = @ \cup e], Queued' = Queued \/ Queued' = Queued \cup {d}
        PROVE  Seen(c)'
    <3>1. word'[c] = word[c]
      BY <1>0, <2>3 DEF WordTypes
    <3> QED BY <2>1, <2>3, <3>1 DEF Seen, Late
  <2>4. ASSUME loc[c] = "wait", Stage(c) \in mode.expireIn, "READY" \notin word[c]
        PROVE  Seen(c)'
    <3>1. Stage(c) \in {"listed", "taken"}
      BY <2>4 DEF Orderly
    <3>2. ~InEvents(c)
      BY <3>1 DEF Stage, InEvents
    <3>3. loc[Server] = "check" => c \in Listed
      BY <1>0, <2>4, <3>2 DEF Held, Located
    <3> QED BY <2>1, <3>3 DEF Seen
  <2>5. \A d \in Clients : ticking # d
    BY <1>0
  <2> QED BY <1>2, <2>2, <2>3, <2>4, <2>5, TickIs
<1>3. ASSUME ServerDoes PROVE Seen(c)'
  <2>1. CASE loc'[Server] = "check" /\ evtq = <<>> /\ UNCHANGED Queued
    BY <2>1 DEF Seen, Queued, Members
  <2>2. CASE loc'[Server] # "check"
    BY <2>2 DEF Seen
  <2> QED BY <1>0, <1>3, <2>1, <2>2, ServerIs
<1>4. ASSUME NEW d \in Clients, ServesDoes(d) PROVE Seen(c)'
  BY <1>0, <1>4, ServesOwn DEF Seen
<1>5. ~CloseDoes
  BY NoClose
<1>6. ASSUME UNCHANGED vars PROVE Seen(c)'
  BY <1>6 DEF vars, queueVars, ipcVars, Seen, Queued, Listed, Late
<1> QED BY <1>1, <1>2, <1>3, <1>4, <1>5, <1>6, StepIs

\* The service goes to sleep when there is nothing to do, and it is woken for more.
LEMMA ForgottenKept ==
  ASSUME Base, Tidy, Reckoning, Remembered, ~mode.preempt,
         Punctual \/ (Orderly /\ ~mode.smp /\ ~mode.closing), [Next]_vars,
         Server \in asleep', loc'[Server] = "pended", NEW c \in Clients, c \in Queued' \cup Listed'
  PROVE  loc'[c] = "kernel"
<1>0. /\ QueueTypes /\ WordTypes /\ Located /\ UrgentFirst /\ \A d \in Clients : TidyClient(d)
      /\ TidyAway(c) /\ TidyEvent(c) /\ TidyTaken(c) /\ Situated(c) /\ c \in Threads
      /\ None \notin Clients /\ Server \in Threads /\ Server \notin Clients /\ Tame /\ c # None
  BY TypesAre, Consts DEF Base, Tidy, TidyClient, Tame
<1>1. Server \in asleep /\ loc[Server] = "pended" => (c \in Queued \cup Listed => loc[c] = "kernel")
  BY DEF Remembered, NoRequestForgotten
<1>2. ASSUME NEW d \in Clients, ClientDoes(d) PROVE loc'[c] = "kernel"
  <2>1. loc'[Server] = loc[Server] /\ Listed' = Listed /\ (evtq' = evtq => Queued' = Queued)
    BY <1>2, ClientOther DEF Queued
  <2>2. ~Kernel(d)
    <3> SUFFICES ASSUME Kernel(d) PROVE Server \notin asleep'
      OBVIOUS
    <3>1. Server \in asleep => "SER_PEND" \in word[Server]
      BY <1>0, <2>1 DEF Located
    <3> QED BY <1>0, <3>1 DEF Kernel, Woken, Has
  <2>3. Server \in asleep
    BY <1>0, <1>2, <2>2 DEF ClientDoes, Queue, Finish, NapOver, Nap, Stray, Send, Wakeup, schedVars
  <2>4. CASE d # c
    BY <1>1, <1>2, <2>1, <2>3, <2>4, ClientOther
  <2>5. CASE d = c
    <3>1. CASE Queue(c) /\ loc'[c] = "kernel"
      BY <3>1
    <3>2. CASE evtq' = evtq
      <4>1. c \in Queued \cup Listed
        BY <2>1, <3>2
      <4>2. loc[c] = "kernel"
        BY <1>1, <2>1, <2>3, <4>1
      <4> QED BY <1>2, <2>2, <2>5, <4>2, ClientOwn
    <3> QED BY <1>2, <2>2, <2>5, <3>1, <3>2, ClientOwn
  <2> QED BY <2>4, <2>5
<1>3. ASSUME TickDoes PROVE loc'[c] = "kernel"
  <2>1. UNCHANGED <<hand, loc, tag, Listed>> /\ asleep' \subseteq asleep
    BY <1>3, TickIs
  <2>2. CASE Queued' = Queued
    BY <1>1, <2>1, <2>2
  <2>3. ASSUME NEW d \in Clients, ticking = d PROVE FALSE
    BY <1>0, <2>3 DEF TidyClient, TidyEvent, Remembered
  <2>4. ASSUME NEW d \in Clients, loc[d] = "wait", Stage(d) \in mode.expireIn, "READY" \notin word[d], ~Punctual
        PROVE  FALSE
    <3>1. Orderly /\ ~mode.smp /\ ~mode.closing
      BY <2>4
    <3>2. Stage(d) \in {"listed", "taken"}
      BY <2>4, <3>1 DEF Orderly
    <3>3. ~InEvents(d)
      BY <3>2 DEF Stage, InEvents
    <3>4. d \in Listed \/ (d = tag[Server] /\ loc[Server] \in {"in", "serve"})
      BY <1>0, <2>4, <3>1, <3>3 DEF Remembered, Held
    <3>5. d \in Listed
      BY <2>1, <3>4
    <3>6. loc[d] = "kernel"
      BY <2>1, <3>5 DEF Remembered, NoRequestForgotten
    <3> QED BY <2>4, <3>6
  <2> QED BY <1>3, <2>2, <2>3, <2>4, TickIs
<1>4. ASSUME ServerDoes, Undisturbed PROVE loc'[c] = "kernel"
  <2>1. /\ signal = 0 /\ loc[Server] = "check" /\ UNCHANGED <<Queued, Listed, hand>>
        /\ loc'[c] = loc[c]
    BY <1>0, <1>4, ServerIs
  <2>2. \A d \in Clients : loc[d] # "kernel"
    BY <1>4 DEF Undisturbed
  <2>3. loc[c] = "wait"
    BY <1>0, <2>1, <2>2 DEF TidyAway, Away, InEvents, Located, ClientLocs
  <2>4. Pending(c)
    <3>1. CASE c \in Listed
      BY <3>1 DEF Pending
    <3>2. CASE c \notin Listed /\ ~Late(c)
      BY <1>0, <2>1, <3>2 DEF TidyEvent, InEvents, Pending
    <3>3. CASE c \notin Listed /\ Late(c)
      <4>1. ~Punctual
        BY <1>0, <3>3 DEF TidyEvent
      <4>2. c \in Queued
        BY <2>1, <3>3
      <4>3. c \in Listed
        BY <2>1, <3>3, <4>1, <4>2 DEF Remembered, Seen
      <4> QED BY <3>3, <4>3
    <3> QED BY <3>1, <3>2, <3>3
  <2>5. c \in Ahead
    BY <2>3, <2>4 DEF Ahead, Plus
  <2>6. Behind = {}
    BY <2>2 DEF Behind, Minus
  <2>7. Counted
    BY <1>0 DEF Reckoning, Countable
  <2>8. Ahead \in SUBSET Clients /\ Behind \in SUBSET Clients
    BY DEF Ahead, Behind
  <2> DEFINE n == Cardinality(Ahead)
  <2>9. n \in Nat /\ n < SignalMod /\ n # 0
    BY <2>5, <2>8, HowMany
  <2>10. Cardinality(Behind) = 0
    BY <2>6, <2>8, HowMany
  <2>11. signal = (n + SignalMod - 0) % SignalMod
    BY <2>7, <2>10 DEF Counted
  <2> HIDE DEF n
  <2>12. signal = n
    <3> DEFINE a == n + SignalMod - 0
    <3>1. a \in 0 .. 3 * SignalMod - 1 /\ a - SignalMod = n /\ ~(a < SignalMod) /\ a < 2 * SignalMod /\ SignalMod \in Nat \ {0}
      BY <2>9, Consts
    <3>2. a % SignalMod = IF a < SignalMod THEN a ELSE IF a < 2 * SignalMod THEN a - SignalMod ELSE a - 2 * SignalMod
      <4> HIDE DEF a
      <4> QED BY <3>1, ModIs
    <3> QED BY <2>11, <3>1, <3>2
  <2> QED BY <2>1, <2>9, <2>12
<1>5. ASSUME NEW d \in Clients, ServesDoes(d) PROVE FALSE
  BY <1>0, <1>5, ServesOwn
<1>6. ASSUME CloseDoes PROVE FALSE
  BY <1>6, CloseIs
<1>7. ASSUME UNCHANGED vars PROVE loc'[c] = "kernel"
  BY <1>1, <1>7 DEF vars, queueVars, schedVars, Queued, Listed
<1>8. ASSUME NEW d \in Clients, Kernel(d) PROVE loc'[c] = "kernel"
  BY <1>2, <1>8 DEF ClientDoes
<1> QED BY <1>2, <1>3, <1>4, <1>5, <1>6, <1>7, <1>8, QuietIs

\* What is remembered is kept.
LEMMA RememberedKept ==
  ASSUME Base, Tame => Tidy, Reckoning, Remembered, [Next]_vars
  PROVE  Remembered'
<1>1. mode' = mode /\ (Tame' <=> Tame) /\ (Orderly' <=> Orderly) /\ (Punctual' <=> Punctual)
  BY ModeSame DEF Tame, Orderly, Punctual
<1>2. Stays
  BY DEF Reckoning
<1>3. ~mode.smp => ticking' = None
  BY TickingKept DEF Remembered
<1>4. Tame /\ ~mode.closing => \A c \in Clients : Held(c)'
  BY <1>2, HeldKept DEF Remembered
<1>5. Orderly /\ ~mode.smp /\ ~mode.closing => \A c \in Clients : Seen(c)'
  BY <1>2, SeenKept DEF Remembered, Tame
<1>6. NoRequestForgotten'
  <2> SUFFICES ASSUME ~mode.preempt, Punctual \/ (Orderly /\ ~mode.smp /\ ~mode.closing),
                      Server \in asleep', loc'[Server] = "pended", NEW c \in Clients, c \in Queued' \cup Listed'
               PROVE  loc'[c] = "kernel"
    <3>1. Listed' \subseteq Clients /\ Queued' \subseteq Clients
      <4>1. evtq' \in Seq(Clients) /\ ring' \in [Prios -> Seq(Clients)]
        BY TypesKept DEF TypeOK
      <4> QED BY <4>1 DEF Listed, Queued, Members
    <3> QED BY <1>1, <3>1 DEF NoRequestForgotten
  <2> QED BY ForgottenKept DEF Tame
<1> QED BY <1>1, <1>3, <1>4, <1>5, <1>6 DEF Remembered

LEMMA InitRemembered == Init => Remembered
<1> SUFFICES ASSUME Init PROVE Remembered
  OBVIOUS
<1>0. Server \in Threads /\ Clients \subseteq Threads /\ Server \notin Clients
  BY Consts
<1>1. loc[Server] = "user" /\ \A c \in Clients : loc[c] = "idle"
  BY <1>0 DEF Init
<1> QED BY <1>1 DEF Remembered, Held, Seen, NoRequestForgotten, Init

\* No request of an open service is lost from sight.
THEOREM RememberedOK == Spec => [](Base /\ (Tame => Tidy) /\ Reckoning /\ Remembered)
<1> QED BY InitRemembered, RememberedKept, ReckoningOK, PTL DEF Spec

\* The service does not sleep on a request or a timeout (__ipcRecvWaitHandle).
THEOREM NoRequestForgottenOK == Spec => []NoRequestForgotten
<1>1. Remembered => NoRequestForgotten
  BY DEF Remembered
<1> QED BY <1>1, RememberedOK, PTL
-----------------------------------------------------------------------------

\* Between its two critical sections a sender is not decided, when nobody else runs there.
LEMMA QuickKept ==
  ASSUME Base, Tidy, ~mode.preempt, NEW c \in Clients, Quick(c), [Next]_vars
  PROVE  Quick(c)'
<1>0. TidyAway(c)
  BY DEF Tidy
<1>1. ASSUME NEW d \in Clients, Kernel(d) PROVE Quick(c)'
  <2>1. ClientDoes(d)
    BY <1>1 DEF ClientDoes
  <2>2. CASE d = c
    BY <1>1, <2>1, <2>2, ClientOwn DEF Quick, Kernel, At
  <2>3. CASE d # c
    BY <2>1, <2>3, ClientOther DEF Quick
  <2> QED BY <2>2, <2>3
<1>2. ASSUME UNCHANGED vars PROVE Quick(c)'
  BY <1>2 DEF vars, ipcVars, Quick
<1>3. ASSUME Undisturbed, loc'[c] = loc[c] PROVE Quick(c)'
  BY <1>3 DEF Undisturbed, Quick
<1>4. ASSUME NEW d \in Clients, ClientDoes(d), Undisturbed PROVE Quick(c)'
  <2>1. CASE d = c
    <3>1. CASE loc'[c] = "kernel"
      <4>1. (loc[c] = "queue" /\ word'[c] = word[c] \cup {"REQUEST"}) \/ loc' = loc
        BY <1>4, <2>1, <3>1, ClientOwn
      <4> QED BY <1>0, <1>3, <1>4, <4>1 DEF TidyAway, Quick
    <3>2. CASE loc'[c] # "kernel"
      BY <3>2 DEF Quick
    <3> QED BY <3>1, <3>2
  <2>2. CASE d # c
    BY <1>3, <1>4, <2>2, ClientOther
  <2> QED BY <2>1, <2>2
<1>5. ASSUME TickDoes \/ ServerDoes \/ (\E d \in Clients : ServesDoes(d)) \/ CloseDoes, Undisturbed PROVE Quick(c)'
  BY <1>3, <1>5, OthersStay
<1> QED BY <1>1, <1>2, <1>4, <1>5, QuietIs

\* A sleeper is watched.
LEMMA WatchedKept ==
  ASSUME Base, Tidy, Stays, ~mode.closing, ~mode.napping, NEW c \in Clients, Quick(c), Watched(c), [Next]_vars
  PROVE  Watched(c)'
<1>0. /\ QueueTypes /\ WordTypes /\ Located /\ UrgentFirst /\ \A d \in Clients : TidyClient(d)
      /\ TidyAway(c) /\ TidyEvent(c) /\ TidyTaken(c) /\ Situated(c) /\ c \in Threads
      /\ None \notin Clients /\ Server \in Threads /\ Server \notin Clients /\ c # None /\ c # Server
  BY TypesAre, Consts DEF Base, Tidy, TidyClient
<1>1. ASSUME word'[c] = word[c], c \in asleep' => c \in asleep, c \in online => c \in online',
             Overdue(c) => Overdue(c)',
             c = tag[Server] /\ loc[Server] \in {"took", "answer"} => c = tag'[Server] /\ loc'[Server] \in {"took", "answer"}
      PROVE  Watched(c)'
  BY <1>1 DEF Watched
<1>2. ASSUME NEW d \in Clients, ClientDoes(d) PROVE Watched(c)'
  <2>1. hand' = hand /\ ticking' = ticking /\ tag'[Server] = tag[Server] /\ loc'[Server] = loc[Server]
    BY <1>2, ClientOther
  <2>2. CASE d # c
    <3>1. Overdue(c) => Overdue(c)'
      BY <1>2, <2>1, <2>2, ClientOther DEF Overdue, Late, InEvents
    <3> QED BY <1>1, <1>2, <2>1, <2>2, <3>1, ClientOther
  <2>3. CASE d = c
    <3>1. CASE c \in online' /\ word'[c] = word[c] \cup {"IN_IPC"} /\ loc[c] = "kernel"
      BY <3>1 DEF Watched, Quick
    <3>2. CASE c \notin asleep'
      BY <3>2 DEF Watched
    <3>3. CASE asleep' = asleep /\ online' = online /\ UNCHANGED <<word, evtq>>
      <4>1. Overdue(c) => Overdue(c)'
        BY <2>1, <3>3 DEF Overdue, Late, InEvents, Queued
      <4> QED BY <1>1, <2>1, <3>3, <4>1
    <3> QED BY <1>2, <2>3, <3>1, <3>2, <3>3, ClientOwn
  <2> QED BY <2>2, <2>3
<1>3. ASSUME TickDoes PROVE Watched(c)'
  <2>1. UNCHANGED <<hand, loc, tag>>
    BY <1>3, TickIs
  <2>2. ASSUME NEW d \in Clients, ticking = d, word' = [word EXCEPT ![d] = @ \cup {"TIMEOUT"}],
               Queued' = Queued \cup {d}, UNCHANGED <<asleep, online>>
        PROVE  Watched(c)'
    <3>1. CASE d = c
      <4>1. word'[c] = word[c] \cup {"TIMEOUT"} /\ Overdue(c)'
        BY <1>0, <2>2, <3>1 DEF WordTypes, Overdue, Late, InEvents
      <4> QED BY <2>2, <4>1 DEF Watched
    <3>2. CASE d # c
      <4>1. word'[c] = word[c] /\ (Overdue(c) => Overdue(c)')
        BY <1>0, <2>1, <2>2, <3>2 DEF WordTypes, Overdue, Late, InEvents
      <4> QED BY <1>1, <2>1, <2>2, <4>1
    <3> QED BY <3>1, <3>2
  <2>3. ASSUME NEW t \in Threads, UNCHANGED <<word, evtq, ticking>>, asleep' = asleep \ {t}, online' = online \ {t}
        PROVE  Watched(c)'
    <3>1. CASE t = c
      BY <2>3, <3>1 DEF Watched
    <3>2. CASE t # c
      <4>1. Overdue(c) => Overdue(c)'
        BY <2>1, <2>3 DEF Overdue, Late, InEvents, Queued
      <4> QED BY <1>1, <2>1, <2>3, <3>2, <4>1
    <3> QED BY <3>1, <3>2
  <2>4. ASSUME NEW d \in Clients, UNCHANGED <<word, evtq, ticking, asleep>>, "READY" \in word[d], online' = online \ {d}
        PROVE  Watched(c)'
    <3>1. Overdue(c) => Overdue(c)'
      BY <2>1, <2>4 DEF Overdue, Late, InEvents, Queued
    <3>2. CASE d = c
      BY <2>1, <2>4, <3>1, <3>2 DEF Watched
    <3>3. CASE d # c
      BY <1>1, <2>1, <2>4, <3>1, <3>3
    <3> QED BY <3>2, <3>3
  <2>5. ASSUME NEW d \in Clients, ticking = None, asleep' = asleep, online' = online \ {d},
               \/ ticking' = d /\ word' = [word EXCEPT ![d] = @ \cup {"READY"}] /\ Queued' = Queued
               \/ /\ word' = [word EXCEPT ![d] = @ \cup {"READY", "TIMEOUT"}]
                  /\ Queued' = Queued \cup {d}
        PROVE  Watched(c)'
    <3>1. CASE d = c
      <4>1. "READY" \in word'[c] /\ Overdue(c)'
        BY <1>0, <2>5, <3>1 DEF WordTypes, Overdue, Late, InEvents
      <4> QED BY <4>1 DEF Watched
    <3>2. CASE d # c
      <4>1. word'[c] = word[c] /\ (Overdue(c) => Overdue(c)')
        BY <1>0, <2>1, <2>5, <3>2 DEF WordTypes, Overdue, Late, InEvents
      <4> QED BY <1>1, <2>1, <2>5, <3>2, <4>1
    <3> QED BY <3>1, <3>2
  <2> QED BY <1>3, <2>2, <2>3, <2>4, <2>5, TickIs
<1>4. ASSUME ServerDoes PROVE Watched(c)'
  <2>1. word'[c] = word[c] /\ tag[Server] = None /\ ticking' = ticking
    BY <1>0, <1>4, ServerIs
  <2>2. CASE UNCHANGED <<Queued, hand, online>> /\ asleep' \in {asleep, asleep \cup {Server}}
    <3>1. Overdue(c) => Overdue(c)'
      BY <2>1, <2>2 DEF Overdue, Late, InEvents
    <3> QED BY <1>0, <1>1, <2>1, <2>2, <3>1
  <2>3. ASSUME NEW d \in Clients, Queued' = Queued \ {d}, hand' = d, hand = None, UNCHANGED <<asleep, online>>
        PROVE  Watched(c)'
    <3>1. Overdue(c) => Overdue(c)'
      BY <1>0, <2>1, <2>3 DEF Overdue, Late, InEvents
    <3> QED BY <1>0, <1>1, <2>1, <2>3, <3>1
  <2>4. CASE Event
    <3>1. PICK d \in Clients :
             /\ d = hand /\ evtq' = evtq
             /\ \/ "READY" \notin word[d] /\ UNCHANGED <<asleep, online>>
                \/ asleep' = asleep \ {d} /\ online' = online \ {d}
      BY <1>0, <2>4, EventIs
    <3>2. CASE d = c
      BY <2>1, <3>1, <3>2 DEF Watched
    <3>3. CASE d # c
      <4>1. Overdue(c) => Overdue(c)'
        BY <2>1, <3>1, <3>3 DEF Overdue, Late, InEvents, Queued
      <4> QED BY <1>0, <1>1, <2>1, <3>1, <3>3, <4>1
    <3> QED BY <3>2, <3>3
  <2> QED BY <1>0, <1>4, <2>2, <2>3, <2>4, ServerIs
<1>5. ASSUME NEW d \in Clients, ServesDoes(d) PROVE Watched(c)'
  <2>1. UNCHANGED <<hand, evtq, ticking>>
    BY <1>0, <1>5, ServesOwn
  <2>2. CASE d # c
    <3>1. Overdue(c) => Overdue(c)'
      BY <1>0, <1>5, <2>1, <2>2, ServesOther DEF Overdue, Late, InEvents, Queued
    <3> QED BY <1>0, <1>1, <1>5, <2>2, <3>1, ServesOther
  <2>3. CASE d = c
    <3>1. CASE UNCHANGED <<word, asleep, online>> /\ ("READY" \in word[c] => Overdue(c))
      <4>1. Overdue(c) => Overdue(c)'
        BY <2>1, <3>1 DEF Overdue, Late, InEvents, Queued
      <4> QED BY <3>1, <4>1 DEF Watched
    <3>2. CASE Pick(c) /\ UNCHANGED <<word, asleep, online>> /\ loc[Server] = "pick"
      <4>1. c \in asleep /\ "READY" \in word[c] => Overdue(c)
        BY <3>2 DEF Watched
      <4>2. Overdue(c) => Overdue(c)'
        BY <2>1, <3>2 DEF Overdue, Late, InEvents, Queued
      <4> QED BY <3>2, <4>1, <4>2 DEF Watched
    <3>3. CASE loc[Server] \in {"in", "serve"} /\ tag[Server] = c /\ "READY" \in word[c] /\ UNCHANGED <<word, asleep, online>>
      BY <1>0, <3>1, <3>3 DEF TidyTaken
    <3>4. CASE tag'[Server] = c /\ loc'[Server] \in {"took", "answer"} /\ word'[c] = word[c] \cup {"READY"}
      BY <3>4 DEF Watched
    <3>5. CASE "READY" \notin word[c] /\ UNCHANGED <<word, asleep, online>>
      BY <3>1, <3>5
    <3>6. CASE Took(c) \/ Answer(c)
      <4>1. word' = word /\ Wakeup(c)
        BY <3>6 DEF Took, Answer
      <4>2. CASE "READY" \in word[c]
        BY <4>1, <4>2 DEF Wakeup, Watched
      <4>3. CASE "READY" \notin word[c]
        <5>1. UNCHANGED <<asleep, online>> \/ c \notin asleep'
          BY <4>1 DEF Wakeup, schedVars
        <5> QED BY <4>1, <4>3, <5>1 DEF Watched
      <4> QED BY <4>2, <4>3
    <3> QED BY <1>0, <1>5, <2>3, <3>2, <3>3, <3>4, <3>5, <3>6, ServesOwn
  <2> QED BY <2>2, <2>3
<1>6. ~CloseDoes
  BY NoClose
<1>7. ASSUME UNCHANGED vars PROVE Watched(c)'
  BY <1>1, <1>7 DEF vars, queueVars, ipcVars, schedVars, Overdue, Late, InEvents, Queued
<1> QED BY <1>2, <1>3, <1>4, <1>5, <1>6, <1>7, StepIs

\* Every sleeper is attended to.
THEOREM AttendedOK == Spec => [](Base /\ (Tame => Tidy) /\ Stays /\ Attended)
<1>1. Init => Attended
  <2> SUFFICES ASSUME Init PROVE Attended
    OBVIOUS
  <2>1. \A c \in Clients : loc[c] = "idle" /\ c \notin asleep
    BY Consts DEF Init
  <2> QED BY <2>1 DEF Attended, Quick, Watched
<1>2. Base /\ (Tame => Tidy) /\ Reckoning /\ Attended /\ [Next]_vars => Attended'
  <2> SUFFICES ASSUME Base, Tame => Tidy, Reckoning, Attended, [Next]_vars PROVE Attended'
    OBVIOUS
  <2>1. mode' = mode /\ (Tame' <=> Tame)
    BY ModeSame DEF Tame, Orderly, Punctual
  <2>2. Tame /\ ~mode.preempt => \A c \in Clients : Quick(c)'
    BY QuickKept DEF Attended
  <2>3. Tame /\ ~mode.preempt /\ ~mode.closing /\ ~mode.napping => \A c \in Clients : Watched(c)'
    BY WatchedKept DEF Attended, Reckoning
  <2> QED BY <2>1, <2>2, <2>3 DEF Attended
<1>3. Reckoning => Stays
  BY DEF Reckoning
<1> QED BY <1>1, <1>2, <1>3, ReckoningOK, PTL DEF Spec

\* No client sleeps in an IPC that nobody will end (the wakeup list, __ipcRecvWaitHandle).
THEOREM NoLostSleeperOK == Spec => []NoLostSleeper
<1>1. Attended => NoLostSleeper
  BY DEF Attended, NoLostSleeper, SleepersKnown, Watched, Overdue, InEvents, Has
<1> QED BY <1>1, AttendedOK, PTL
-----------------------------------------------------------------------------
(* Result OK means an answer to this very call.                               *)

\* The message a client waits with, and what it may find there afterwards.
Sent(c) == <<c, calls[c], IF "RECV" \in word[c] THEN "call" ELSE "send">>
Good(c) == {<<c, calls[c], "reply">>, <<c, calls[c], "send">>}
Served(c) == tag[Server] = c /\ loc[Server] \in {"took", "answer"}

\* Until the decision is delivered the buffer holds the request, then the answer.
Buffer(c) ==
    IF loc[c] \in {"queue", "kernel", "wait"}
    THEN IF "READY" \notin word[c] \/ Served(c) THEN msg[c] = Sent(c) ELSE msg[c] \in Good(c)
    ELSE result[c] = "OK" /\ calls[c] > 0 => msg[c] \in Good(c)

\* The service knows what kind of request it serves, and has a copy of a call.
Serving(c) ==
    tag[Server] = c =>
        /\ loc[Server] \in {"serve", "answer"} => msg[Server] = <<c, calls[c], "call">> /\ "RECV" \in word[c]
        /\ loc[Server] = "took" => "RECV" \notin word[c]
Truthful ==
    Punctual /\ ~mode.closing /\ ~mode.strays => \A c \in Clients : Buffer(c) /\ Serving(c)

\* The truth about c is kept in a step that does not concern it.
LEMMA TruthFrame ==
  ASSUME NEW c, Buffer(c), Serving(c),
         loc'[c] = loc[c], word'[c] = word[c], msg'[c] = msg[c], calls'[c] = calls[c], result'[c] = result[c],
         \/ tag[Server] # c /\ tag'[Server] # c
         \/ tag'[Server] = tag[Server] /\ loc'[Server] = loc[Server] /\ msg'[Server] = msg[Server]
  PROVE  Buffer(c)' /\ Serving(c)'
<1>1. Served(c)' <=> Served(c)
  BY DEF Served
<1> QED BY <1>1 DEF Buffer, Serving, Sent, Good

LEMMA TruthKept ==
  ASSUME Base, Tidy, Stays, Punctual, ~mode.closing, ~mode.strays, NEW c \in Clients, Buffer(c), Serving(c),
         [Next]_vars
  PROVE  Buffer(c)' /\ Serving(c)'
<1>0. /\ QueueTypes /\ WordTypes /\ UserTypes /\ Located /\ UrgentFirst /\ \A d \in Clients : TidyClient(d)
      /\ TidyAway(c) /\ TidyEvent(c) /\ TidyTaken(c) /\ Situated(c) /\ c \in Threads
      /\ None \notin Clients /\ Server \in Threads /\ Server \notin Clients /\ c # None /\ c # Server
  BY TypesAre, Consts DEF Base, Tidy, TidyClient
<1>a. tag[Server] = c => loc[c] \in {"kernel", "wait"} /\ ~(loc[c] = "wait" /\ c \notin asleep)
  BY <1>0 DEF TidyAway, Away, Located, ClientLocs
<1>b. ~Overdue(c)
  BY <1>0 DEF Overdue, TidyEvent
<1>1. ASSUME NEW d \in Clients, ClientDoes(d) PROVE Buffer(c)' /\ Serving(c)'
  <2>1. tag'[Server] = tag[Server] /\ loc'[Server] = loc[Server] /\ msg'[Server] = msg[Server]
    BY <1>1, ClientOther
  <2>2. CASE d # c
    BY <1>1, <2>1, <2>2, ClientOther, TruthFrame
  <2>3. CASE d = c
    <3>1. CASE Kernel(c) \/ Queue(c)
      <4>1. /\ loc[c] \in {"queue", "kernel"} /\ loc'[c] \in {"kernel", "wait"} /\ UNCHANGED <<msg, calls, result>>
            /\ "READY" \in word'[c] <=> "READY" \in word[c]
            /\ "RECV" \in word'[c] <=> "RECV" \in word[c]
        BY <1>0, <3>1 DEF Kernel, Queue, EvtqInsert, At, Goto, userVars, WordTypes, QueueTypes
      <4>2. Buffer(c)'
        BY <2>1, <4>1 DEF Buffer, Sent, Good, Served
      <4>3. Serving(c)'
        BY <2>1, <4>1 DEF Serving
      <4> QED BY <4>2, <4>3
    <3>2. CASE Finish(c)
      <4>1. /\ loc[c] = "wait" /\ loc'[c] = "idle" /\ c \notin asleep /\ "READY" \in word[c]
            /\ UNCHANGED <<msg, calls>>
        BY <1>0, <3>2 DEF Finish, At, Goto, Has, QueueTypes
      <4>2. tag[Server] # c
        BY <1>a, <4>1
      <4>3. Buffer(c)'
        BY <4>1, <4>2 DEF Buffer, Good, Served
      <4> QED BY <2>1, <4>2, <4>3 DEF Serving
    <3>3. CASE Nap(c) \/ NapOver(c)
      <4>1. loc[c] \in {"idle", "nap"} /\ loc'[c] \in {"idle", "nap"} /\ UNCHANGED <<word, msg, calls, result>>
        BY <1>0, <3>3 DEF Nap, NapOver, At, Goto, ipcVars, userVars, QueueTypes
      <4> QED BY <2>1, <4>1 DEF Buffer, Good, Serving
    <3>4. ~Stray(c)
      BY DEF Stray
    <3>5. ASSUME NEW op \in Ops, Send(c, op) PROVE Buffer(c)' /\ Serving(c)'
      <4>1. loc[c] = "idle" /\ calls'[c] = calls[c] + 1 /\ msg'[c] = <<c, calls[c] + 1, op>>
        BY <1>0, <3>5 DEF Send, At, UserTypes
      <4>2. tag[Server] # c
        BY <1>a, <4>1
      <4>3. CASE Has(Server, "SER")
        <5>1. word'[c] = (word[c] \ {"READY"}) \cup {"SEND_WT"} \cup (IF op = "call" THEN {"RECV"} ELSE {})
          BY <1>0, <3>5, <4>3 DEF Send, WordTypes
        <5>2. "READY" \notin word'[c] /\ loc'[c] = "queue"
          BY <1>0, <3>5, <4>3, <5>1 DEF Send, Goto, QueueTypes
        <5>3. "RECV" \in word'[c] <=> op = "call"
          BY <1>0, <4>1, <5>1 DEF Situated, TsMask
        <5>4. op \in {"send", "call"}
          BY ConstAssumption
        <5>5. msg'[c] = Sent(c)'
          BY <4>1, <5>3, <5>4 DEF Sent
        <5> QED BY <2>1, <4>2, <5>2, <5>5 DEF Buffer, Serving
      <4>4. CASE ~Has(Server, "SER")
        <5>1. loc'[c] = "idle" /\ result'[c] = "NOT_SER"
          BY <1>0, <3>5, <4>1, <4>4 DEF Send, UserTypes
        <5> QED BY <2>1, <4>2, <5>1 DEF Buffer, Serving
      <4> QED BY <4>3, <4>4
    <3> QED BY <1>1, <2>3, <3>1, <3>2, <3>3, <3>4, <3>5 DEF ClientDoes
  <2> QED BY <2>2, <2>3
<1>2. ASSUME TickDoes PROVE Buffer(c)' /\ Serving(c)'
  <2>1. UNCHANGED <<tag, loc, msg, calls, result>>
    BY <1>2, TickIs
  <2>2. word'[c] = word[c]
    <3>1. \A d \in Clients : ticking # d
      BY <1>0 DEF TidyClient, TidyEvent
    <3>2. \A d \in Clients : ~ (Stage(d) \in mode.expireIn)
      BY DEF Punctual
    <3> QED BY <1>2, <3>1, <3>2, TickIs
  <2> QED BY <2>1, <2>2, TruthFrame
<1>3. ASSUME ServerDoes PROVE Buffer(c)' /\ Serving(c)'
  <2>1. /\ UNCHANGED <<tag, msg, calls, result>> /\ loc'[c] = loc[c] /\ word'[c] = word[c] /\ tag[Server] # c
    BY <1>0, <1>3, ServerIs
  <2> QED BY <2>1, TruthFrame
<1>4. ASSUME NEW d \in Clients, ServesDoes(d), d # c PROVE Buffer(c)' /\ Serving(c)'
  <2>1. UNCHANGED <<calls, result>> /\ tag[Server] # c /\ tag'[Server] # c
        /\ loc'[c] = loc[c] /\ word'[c] = word[c] /\ msg'[c] = msg[c]
    BY <1>0, <1>4, ServesOther
  <2> QED BY <2>1, TruthFrame
<1>5. ASSUME ServesDoes(c) PROVE Buffer(c)' /\ Serving(c)'
  <2>1. UNCHANGED <<calls, result>> /\ loc'[c] = loc[c]
    BY <1>0, <1>5, ServesOwn
  <2>2. CASE Pick(c)
    <3>1. /\ UNCHANGED <<word, msg>> /\ loc[Server] = "pick" /\ loc'[Server] = "in"
      BY <1>0, <2>2 DEF Pick, At, Goto, userVars, QueueTypes
    <3> QED BY <2>1, <3>1 DEF Buffer, Serving, Served, Sent, Good
  <2>3. ~InTimeout(c)
    BY <1>0, <1>b DEF InTimeout, At, Has, TidyTaken
  <2>4. CASE InSend(c)
    <3>1. /\ tag'[Server] = c /\ loc'[Server] = "took" /\ word'[c] = word[c] \cup {"READY"} /\ msg' = msg
          /\ "RECV" \notin word[c] /\ "READY" \notin word[c] /\ tag[Server] = c
      BY <1>0, <2>4 DEF InSend, InTime, At, Goto, Has, Ready, userVars, QueueTypes, WordTypes
    <3>2. loc[c] \in {"kernel", "wait"}
      BY <1>a, <3>1
    <3>3. msg[c] = Sent(c)
      BY <3>1, <3>2 DEF Buffer
    <3>4. Served(c)' /\ "RECV" \notin word'[c] /\ Sent(c)' = Sent(c)
      BY <2>1, <3>1 DEF Served, Sent
    <3> QED BY <2>1, <3>1, <3>2, <3>3, <3>4 DEF Buffer, Serving
  <2>5. CASE InCall(c)
    <3>1. /\ tag'[Server] = c /\ loc'[Server] = "serve" /\ word' = word /\ msg'[Server] = msg[c] /\ msg'[c] = msg[c]
          /\ "RECV" \in word[c] /\ "READY" \notin word[c] /\ tag[Server] = c /\ loc[Server] = "in"
      BY <1>0, <2>5 DEF InCall, Copied, InTime, At, Goto, Has, QueueTypes, UserTypes
    <3>2. loc[c] \in {"kernel", "wait"}
      BY <1>a, <3>1
    <3>3. msg[c] = <<c, calls[c], "call">>
      BY <3>1, <3>2 DEF Buffer, Sent
    <3>4. Sent(c)' = Sent(c)
      BY <2>1, <3>1 DEF Sent
    <3> QED BY <2>1, <3>1, <3>2, <3>3, <3>4 DEF Buffer, Serving, Sent
  <2>6. CASE Took(c)
    <3>1. /\ tag'[Server] = None /\ word' = word /\ msg'[c] = msg[c] /\ loc[Server] = "took" /\ tag[Server] = c
      BY <1>0, <2>6 DEF Took, Copied, At, WordTypes, UserTypes
    <3>2. loc[c] \in {"kernel", "wait"} /\ "READY" \in word[c]
      BY <1>0, <1>a, <3>1 DEF TidyTaken, Settled
    <3>3. msg[c] = <<c, calls[c], "send">>
      BY <3>1, <3>2 DEF Buffer, Serving, Served, Sent
    <3> QED BY <1>0, <2>1, <3>1, <3>2, <3>3 DEF Buffer, Serving, Served, Good
  <2>7. CASE Reply(c)
    <3>0. tag[Server] = c /\ loc[Server] = "serve"
      BY <2>7 DEF Reply, At
    <3>1. "READY" \notin word[c]
      BY <1>0, <1>b, <3>0 DEF TidyTaken
    <3>2. /\ tag'[Server] = c /\ loc'[Server] = "answer" /\ word'[c] = word[c] \cup {"READY"} /\ msg' = msg
      BY <1>0, <2>7, <3>0, <3>1 DEF Reply, Settle, Ready, Has, Goto, userVars, QueueTypes, WordTypes
    <3>3. loc[c] \in {"kernel", "wait"}
      BY <1>a, <3>0
    <3>4. msg[c] = Sent(c)
      BY <3>1, <3>3 DEF Buffer
    <3>5. Served(c)' /\ Sent(c)' = Sent(c)
      BY <2>1, <3>2 DEF Served, Sent
    <3> QED BY <2>1, <3>0, <3>2, <3>3, <3>4, <3>5 DEF Buffer, Serving
  <2>8. CASE Answer(c)
    <3>0. tag[Server] = c /\ loc[Server] = "answer" /\ tag'[Server] = None /\ word' = word
      BY <1>0, <2>8 DEF Answer, At, WordTypes
    <3>1. loc[c] \in {"kernel", "wait"} /\ "READY" \in word[c]
      BY <1>0, <1>a, <3>0 DEF TidyTaken, Settled
    <3>2. msg[Server] = <<c, calls[c], "call">> /\ "RECV" \in word[c]
      BY <3>0 DEF Serving
    <3>3. tag[c] = Server /\ word[c] \cap SMask = {"SEND_WT", "RECV"}
      BY <1>0, <3>1, <3>2 DEF Situated
    <3>4. msg'[c] = <<c, calls[c], "reply">>
      BY <1>0, <2>8, <3>2, <3>3 DEF Answer, ReplyMsg, UserTypes
    <3> QED BY <1>0, <2>1, <3>0, <3>1, <3>4 DEF Buffer, Serving, Served, Good
  <2> QED BY <1>5, <2>2, <2>3, <2>4, <2>5, <2>6, <2>7, <2>8 DEF ServesDoes
<1>6. ~CloseDoes
  BY NoClose
<1>7. ASSUME UNCHANGED vars PROVE Buffer(c)' /\ Serving(c)'
  BY <1>7, TruthFrame DEF vars, ipcVars, userVars
<1> QED BY <1>1, <1>2, <1>3, <1>4, <1>5, <1>6, <1>7, StepIs

\* What the buffers hold is true.
THEOREM TruthfulOK == Spec => [](Base /\ (Tame => Tidy) /\ Stays /\ Truthful)
<1>1. Init => Truthful
  <2> SUFFICES ASSUME Init PROVE Truthful
    OBVIOUS
  <2>1. tag[Server] = None /\ None \notin Clients /\ \A c \in Clients : loc[c] = "idle" /\ calls[c] = 0
    BY Consts DEF Init
  <2> QED BY <2>1 DEF Truthful, Buffer, Serving
<1>2. Base /\ (Tame => Tidy) /\ Reckoning /\ Truthful /\ [Next]_vars => Truthful'
  <2> SUFFICES ASSUME Base, Tame => Tidy, Reckoning, Truthful, [Next]_vars PROVE Truthful'
    OBVIOUS
  <2>1. mode' = mode /\ (Punctual' <=> Punctual)
    BY ModeSame DEF Punctual
  <2>2. Punctual /\ ~mode.closing /\ ~mode.strays => \A c \in Clients : Buffer(c)' /\ Serving(c)'
    BY TruthKept DEF Truthful, Reckoning, Tame
  <2> QED BY <2>1, <2>2 DEF Truthful
<1>3. Reckoning => Stays
  BY DEF Reckoning
<1> QED BY <1>1, <1>2, <1>3, ReckoningOK, PTL DEF Spec

\* Result OK of a call in time is that of its own reply (__ipcSendReplyPro).
THEOREM OkIsAnsweredOK == Spec => []OkIsAnswered
<1>1. Truthful => OkIsAnswered
  BY DEF Truthful, OkIsAnswered, Buffer, Good
<1> QED BY <1>1, TruthfulOK, PTL
-----------------------------------------------------------------------------
(* The service gives what RequestReply promises.                              *)

\* The remote flags that say how a request ended.
EndFlags == {"ES_TIMEOUT", "RECV_FI", "SEND_FI"}

\* They are set with the decision or after it, never before; a service that serves or
\* answers does so for a call.
Prompt(c) ==
    /\ Asked(c) /\ ("READY" \notin word[c] \/ Served(c)) => rmAdd[c] \cap EndFlags = {}
    /\ tag[Server] = c /\ loc[Server] \in {"serve", "answer"} => "RECV" \in word[c]
Promising == Promised => \A c \in Clients : Prompt(c)

\* A client that a step does not concern stays as it is.
LEMMA PromptFrame ==
  ASSUME NEW c, Prompt(c), loc'[c] = loc[c],
         "READY" \in word'[c] <=> "READY" \in word[c], "RECV" \in word'[c] <=> "RECV" \in word[c],
         rmAdd'[c] \cap EndFlags \subseteq rmAdd[c],
         \/ tag'[Server] # c \/ loc'[Server] \notin {"took", "serve", "answer"}
         \/ tag'[Server] = tag[Server] /\ loc'[Server] = loc[Server]
  PROVE  Prompt(c)'
<1>1. Served(c)' => Served(c)
  BY DEF Served
<1>2. Asked(c)' => Asked(c)
  BY DEF Asked
<1> QED BY <1>1, <1>2 DEF Prompt

\* Decisions stay prompt.
LEMMA PromptKept ==
  ASSUME Base, Tidy, Promised, NEW c \in Clients, Prompt(c), [Next]_vars
  PROVE  Prompt(c)'
<1>0. /\ QueueTypes /\ WordTypes /\ UserTypes /\ Located /\ UrgentFirst /\ \A d \in Clients : TidyClient(d)
      /\ TidyAway(c) /\ TidyEvent(c) /\ TidyTaken(c) /\ Situated(c) /\ c \in Threads
      /\ None \notin Clients /\ Server \in Threads /\ Server \notin Clients /\ c # None /\ c # Server
      /\ ~mode.strays
  BY TypesAre, Consts DEF Base, Tidy, TidyClient, Promised, Orderly
<1>a. tag[Server] = c => loc[c] \in {"kernel", "wait"} /\ ~(loc[c] = "wait" /\ c \notin asleep)
  BY <1>0 DEF TidyAway, Away, Located, ClientLocs
<1>1. ASSUME NEW d \in Clients, ClientDoes(d) PROVE Prompt(c)'
  <2>1. tag'[Server] = tag[Server] /\ loc'[Server] = loc[Server]
    BY <1>1, ClientOther
  <2>2. CASE d # c
    BY <1>1, <2>1, <2>2, ClientOther, PromptFrame
  <2>3. CASE d = c
    <3>1. CASE Kernel(c)
      <4>1. /\ loc[c] = "kernel" /\ loc'[c] = "wait" /\ rmAdd' = rmAdd
            /\ "READY" \in word'[c] <=> "READY" \in word[c]
            /\ "RECV" \in word'[c] <=> "RECV" \in word[c]
        BY <1>0, <3>1 DEF Kernel, At, Goto, WordTypes, QueueTypes
      <4> QED BY <2>1, <4>1 DEF Prompt, Asked, Served
    <3>2. CASE Queue(c)
      <4>1. loc[c] = "queue" /\ rmAdd' = rmAdd
        BY <3>2 DEF Queue, At
      <4>2. rmAdd'[c] = {} /\ tag[Server] # c
        BY <1>0, <1>a, <4>1 DEF TidyAway
      <4> QED BY <2>1, <4>2 DEF Prompt
    <3>3. CASE ~Kernel(c) /\ ~Queue(c)
      <4>1. loc'[c] \notin {"kernel", "wait"} /\ tag[Server] # c
        BY <1>0, <1>1, <1>a, <2>3, <3>3, ClientOwn
      <4> QED BY <2>1, <4>1 DEF Prompt, Asked
    <3> QED BY <3>1, <3>2, <3>3
  <2> QED BY <2>2, <2>3
<1>2. ASSUME TickDoes PROVE Prompt(c)'
  <2>1. UNCHANGED <<loc, tag>>
    BY <1>2, TickIs
  <2>2. CASE UNCHANGED <<word, rmAdd>>
    BY <2>1, <2>2, PromptFrame
  <2>3. ASSUME NEW d \in Clients, word' = [word EXCEPT ![d] = @ \cup {"TIMEOUT"}], UNCHANGED rmAdd
        PROVE  Prompt(c)'
    <3>1. ("READY" \in word'[c] <=> "READY" \in word[c]) /\ ("RECV" \in word'[c] <=> "RECV" \in word[c])
      BY <1>0, <2>3 DEF WordTypes
    <3> QED BY <2>1, <2>3, <3>1, PromptFrame
  <2>4. ASSUME NEW d \in Clients, "READY" \notin word[d], rmAdd' = [rmAdd EXCEPT ![d] = @ \cup {"ES_TIMEOUT"}],
               \/ word' = [word EXCEPT ![d] = @ \cup {"READY"}]
               \/ word' = [word EXCEPT ![d] = @ \cup {"READY", "TIMEOUT"}]
        PROVE  Prompt(c)'
    <3>1. CASE d # c
      <4>1. word'[c] = word[c] /\ rmAdd'[c] = rmAdd[c]
        BY <1>0, <2>4, <3>1 DEF WordTypes
      <4> QED BY <2>1, <4>1, PromptFrame
    <3>2. CASE d = c
      <4>1. "READY" \in word'[c] /\ ("RECV" \in word'[c] <=> "RECV" \in word[c])
        BY <1>0, <2>4, <3>2 DEF WordTypes
      <4>2. ~Served(c)
        BY <1>0, <2>4, <3>2 DEF Served, TidyTaken, Settled
      <4> QED BY <2>1, <4>1, <4>2 DEF Prompt, Served
    <3> QED BY <3>1, <3>2
  <2> QED BY <1>2, <2>2, <2>3, <2>4, TickIs
<1>3. ASSUME ServerDoes PROVE Prompt(c)'
  <2>1. loc'[c] = loc[c] /\ word'[c] = word[c] /\ tag'[Server] = None
    BY <1>0, <1>3, ServerIs
  <2>2. rmAdd'[c] \subseteq rmAdd[c]
    <3>1. CASE Event
      BY <1>0, <3>1, EventIs DEF WordTypes
    <3> QED BY <1>0, <1>3, <3>1, ServerIs
  <2> QED BY <1>0, <2>1, <2>2, PromptFrame
<1>4. ASSUME NEW d \in Clients, ServesDoes(d), d # c PROVE Prompt(c)'
  <2>1. tag'[Server] # c /\ loc'[c] = loc[c] /\ word'[c] = word[c] /\ rmAdd'[c] = rmAdd[c]
    BY <1>0, <1>4, ServesOther
  <2> QED BY <2>1, PromptFrame
<1>5. ASSUME ServesDoes(c) PROVE Prompt(c)'
  <2>1. loc'[c] = loc[c]
    BY <1>0, <1>5, ServesOwn
  <2>2. CASE Pick(c)
    <3>1. UNCHANGED <<word, rmAdd>> /\ loc'[Server] = "in"
      BY <1>0, <1>5, <2>2 DEF Pick, Goto, QueueTypes
    <3> QED BY <2>1, <3>1, PromptFrame
  <2>3. CASE "READY" \in word[c] /\ tag'[Server] = None /\ word' = word
    BY <1>0, <2>3 DEF Prompt, Served
  <2>4. CASE /\ loc[Server] \in {"in", "serve"} /\ "READY" \notin word[c] /\ tag[Server] = c
             /\ loc'[Server] = (IF loc[Server] = "in" THEN "took" ELSE "answer")
             /\ word'[c] = word[c] \cup {"READY"} /\ UNCHANGED rmAdd
    <3>1. rmAdd'[c] \cap EndFlags = {}
      BY <1>a, <2>4 DEF Prompt, Asked
    <3>2. loc'[Server] \in {"serve", "answer"} => "RECV" \in word'[c]
      BY <2>4 DEF Prompt
    <3> QED BY <3>1, <3>2 DEF Prompt
  <2>5. CASE InCall(c)
    <3>1. "RECV" \in word[c] /\ "READY" \notin word[c] /\ word' = word /\ tag[Server] = c
          /\ rmAdd'[c] = (rmAdd[c] \ {"SEND_WT", "RECV"}) \cup {"RECV_WT"}
      BY <1>0, <2>5 DEF InCall, InTime, Has, RmStateChange, WordTypes
    <3>2. rmAdd'[c] \cap EndFlags = {}
      BY <1>a, <3>1 DEF Prompt, Asked, EndFlags
    <3> QED BY <3>1, <3>2 DEF Prompt
  <2>6. CASE Took(c) \/ Answer(c)
    <3>1. tag[Server] = c /\ loc[Server] \in {"took", "answer"} /\ word' = word /\ tag'[Server] = None
      BY <1>0, <2>6 DEF Took, Answer, At, WordTypes
    <3>2. "READY" \in word[c]
      BY <1>0, <3>1 DEF TidyTaken, Settled
    <3> QED BY <1>0, <3>1, <3>2 DEF Prompt, Served
  <2> QED BY <1>0, <1>5, <2>2, <2>3, <2>4, <2>5, <2>6, ServesOwn
<1>6. ASSUME CloseDoes PROVE Prompt(c)'
  <2>1. loc'[c] = loc[c]
    BY <1>6, CloseIs
  <2>2. CASE UNCHANGED <<word, rmAdd>> /\ loc'[Server] \in {"sweep", "resweep", "user"}
    BY <2>1, <2>2, PromptFrame
  <2>3. ASSUME NEW d \in Clients, UNCHANGED rmAdd, loc'[Server] = "shut",
               \A e \in Clients : word'[e] = IF e = d THEN word[e] \cup {"READY"} ELSE word[e]
        PROVE  Prompt(c)'
    <3>1. CASE d = c
      BY <2>3, <3>1 DEF Prompt, Served
    <3>2. CASE d # c
      BY <2>1, <2>3, <3>2, PromptFrame
    <3> QED BY <3>1, <3>2
  <2>4. ASSUME NEW d \in Clients, loc[Server] = "shut", UNCHANGED <<loc, tag>>,
               \/ UNCHANGED <<word, rmAdd>>
               \/ /\ word' = [word EXCEPT ![d] = @ \cup {"READY"}]
                  /\ rmAdd' = [rmAdd EXCEPT ![d] = @ \cup {"ES_ERROR"}]
        PROVE  Prompt(c)'
    <3>1. CASE UNCHANGED <<word, rmAdd>>
      BY <2>4, <3>1, PromptFrame
    <3>2. CASE d = c /\ word' = [word EXCEPT ![d] = @ \cup {"READY"}]
      <4>1. "READY" \in word'[c]
        BY <1>0, <3>2 DEF WordTypes
      <4> QED BY <2>4, <4>1 DEF Prompt, Served
    <3>3. CASE d # c /\ word' = [word EXCEPT ![d] = @ \cup {"READY"}] /\ rmAdd' = [rmAdd EXCEPT ![d] = @ \cup {"ES_ERROR"}]
      <4>1. word'[c] = word[c] /\ rmAdd'[c] = rmAdd[c]
        BY <1>0, <3>3 DEF WordTypes
      <4> QED BY <2>4, <4>1, PromptFrame
    <3> QED BY <2>4, <3>1, <3>2, <3>3
  <2>5. ASSUME NEW d \in Clients, UNCHANGED <<loc, tag, word>>,
               rmAdd' = [rmAdd EXCEPT ![d] = (@ \ EsMask) \cup {"ES_ERROR"}]
        PROVE  Prompt(c)'
    <3>1. rmAdd'[c] \cap EndFlags \subseteq rmAdd[c]
      BY <1>0, <2>5 DEF WordTypes, EndFlags
    <3> QED BY <2>5, <3>1, PromptFrame
  <2> QED BY <1>6, <2>2, <2>3, <2>4, <2>5, CloseIs
<1>7. ASSUME UNCHANGED vars PROVE Prompt(c)'
  BY <1>7, PromptFrame DEF vars, ipcVars
<1> QED BY <1>1, <1>2, <1>3, <1>4, <1>5, <1>6, <1>7, StepIs

\* Decisions are prompt in every state.
THEOREM PromisingOK == Spec => [](Base /\ (Tame => Tidy) /\ Promising)
<1>1. Init => Promising
  <2> SUFFICES ASSUME Init PROVE Promising
    OBVIOUS
  <2>1. tag[Server] = None /\ None \notin Clients /\ \A c \in Clients : loc[c] = "idle"
    BY Consts DEF Init
  <2> QED BY <2>1 DEF Promising, Prompt, Asked
<1>2. Base /\ (Tame => Tidy) /\ Promising /\ [Next]_vars => Promising'
  <2> SUFFICES ASSUME Base, Tame => Tidy, Promising, [Next]_vars PROVE Promising'
    OBVIOUS
  <2>1. mode' = mode /\ (Promised' <=> Promised)
    BY ModeSame DEF Promised, Orderly, Punctual
  <2>2. Promised => \A c \in Clients : Prompt(c)'
    BY PromptKept DEF Promising, Promised, Tame
  <2> QED BY <2>1, <2>2 DEF Promising
<1> QED BY <1>1, <1>2, TidyOK, PTL DEF Spec
\* What RequestReply sees of a client and of the service.
St(c)  == IF Promised /\ Decided(c) THEN "decided" ELSE IF Promised /\ Asked(c) THEN "asked" ELSE "idle"
How(c) == IF Promised /\ Decided(c) THEN Outcome(c) ELSE None
Owed   == IF Promised /\ loc[Server] = "serve" THEN tag[Server] ELSE None

\* A step that it does not see.
LEMMA ViewSame ==
  ASSUME \A c \in Clients : St(c)' = St(c) /\ How(c)' = How(c), Owed' = Owed
  PROVE  UNCHANGED Promise!vars
BY DEF Promise!vars, St, How, Owed

\* A step that it sees as one of its own, of client c.
Moves(c) ==
    \/ St(c) = "idle" /\ St(c)' = "asked" /\ How(c)' = How(c) /\ Owed' = Owed
    \/ St(c) = "asked" /\ St(c)' = St(c) /\ How(c)' = How(c) /\ Owed = None /\ Owed' = c
    \/ St(c) = "asked" /\ St(c)' = "decided" /\ How(c)' = "sent" /\ Owed = None /\ Owed' = None
    \/ St(c) = "asked" /\ St(c)' = "decided" /\ How(c)' = "answered" /\ Owed = c /\ Owed' = None
    \/ St(c) = "asked" /\ St(c)' = "decided" /\ How(c)' = "expired" /\ Owed' = Owed
    \/ St(c) = "asked" /\ St(c)' = "decided" /\ How(c)' = "refused" /\ Owed' \in {Owed, None}
    \/ St(c) # "asked" /\ St(c)' = St(c) /\ How(c)' = How(c) /\ Owed = c /\ Owed' = None
    \/ St(c) = "decided" /\ St(c)' = "idle" /\ How(c)' = None /\ Owed' = Owed
LEMMA ViewMoves ==
  ASSUME NEW c \in Clients, \A d \in Clients : d # c => St(d)' = St(d) /\ How(d)' = How(d), Moves(c)
  PROVE  Promise!Next
<1> DEFINE st  == [d \in Clients |-> IF Promised /\ Decided(d) THEN "decided"
                                     ELSE IF Promised /\ Asked(d) THEN "asked" ELSE "idle"]
           how == [d \in Clients |-> IF Promised /\ Decided(d) THEN Outcome(d) ELSE None]
<1>1. st = [d \in Clients |-> St(d)] /\ st' = [d \in Clients |-> St(d)']
  BY DEF St
<1>2. how = [d \in Clients |-> How(d)] /\ how' = [d \in Clients |-> How(d)']
  BY DEF How
<1>3. st[c] = St(c) /\ how[c] = How(c) /\ st' = [st EXCEPT ![c] = St(c)'] /\ how' = [how EXCEPT ![c] = How(c)']
  <2> HIDE DEF st, how
  <2>1. st[c] = St(c) /\ how[c] = How(c)
    BY <1>1, <1>2
  <2>2. st' = [st EXCEPT ![c] = St(c)']
    BY <1>1
  <2>3. how' = [how EXCEPT ![c] = How(c)']
    BY <1>2
  <2> QED BY <2>1, <2>2, <2>3
<1>4. /\ Promise!Ask(c) <=> st[c] = "idle" /\ st' = [st EXCEPT ![c] = "asked"] /\ how' = how /\ Owed' = Owed
      /\ Promise!Take(c) <=> Owed = None /\ st[c] = "asked" /\ Owed' = c /\ st' = st /\ how' = how
      /\ Promise!Deliver(c) <=> Owed = None /\ Owed' = Owed
            /\ st[c] = "asked" /\ st' = [st EXCEPT ![c] = "decided"] /\ how' = [how EXCEPT ![c] = "sent"]
      /\ Promise!Answer(c) <=> Owed = c /\ Owed' = None
            /\ st[c] = "asked" /\ st' = [st EXCEPT ![c] = "decided"] /\ how' = [how EXCEPT ![c] = "answered"]
      /\ Promise!Expire(c) <=> Owed' = Owed
            /\ st[c] = "asked" /\ st' = [st EXCEPT ![c] = "decided"] /\ how' = [how EXCEPT ![c] = "expired"]
      /\ Promise!Refuse(c) <=> Owed' \in {Owed, None}
            /\ st[c] = "asked" /\ st' = [st EXCEPT ![c] = "decided"] /\ how' = [how EXCEPT ![c] = "refused"]
      /\ Promise!GiveUp(c) <=> Owed = c /\ st[c] # "asked" /\ Owed' = None /\ st' = st /\ how' = how
      /\ Promise!Return(c) <=> Owed' = Owed
            /\ st[c] = "decided" /\ st' = [st EXCEPT ![c] = "idle"] /\ how' = [how EXCEPT ![c] = None]
  BY DEF Owed, Promise!Ask, Promise!Take, Promise!Deliver, Promise!Answer, Promise!Expire, Promise!Refuse,
         Promise!GiveUp, Promise!Return, Promise!Decide
<1>5. st = [st EXCEPT ![c] = st[c]] /\ how = [how EXCEPT ![c] = how[c]]
  BY <1>1, <1>2
<1> HIDE DEF st, how
<1>6. \/ Promise!Ask(c) \/ Promise!Take(c) \/ Promise!Deliver(c) \/ Promise!Answer(c) \/ Promise!Expire(c)
      \/ Promise!Refuse(c) \/ Promise!GiveUp(c) \/ Promise!Return(c)
  BY <1>3, <1>4, <1>5 DEF Moves
<1> QED BY <1>6 DEF Promise!Next
\* A client whose decision does not change is seen as before.
LEMMA ViewFrame ==
  ASSUME NEW c, Promised' <=> Promised, Asked(c)' <=> Asked(c),
         Asked(c) => ("READY" \in word'[c] <=> "READY" \in word[c]),
         Decided(c) => /\ rmAdd'[c] \cap EndFlags = rmAdd[c] \cap EndFlags
                       /\ \A l \in {"took", "answer"} :
                             tag'[Server] = c /\ loc'[Server] = l <=> tag[Server] = c /\ loc[Server] = l
  PROVE  St(c)' = St(c) /\ How(c)' = How(c)
<1>1. Decided(c)' <=> Decided(c)
  BY DEF Decided, Has
<1>2. Decided(c) => Outcome(c)' = Outcome(c)
  BY DEF Outcome, EndFlags
<1> QED BY <1>1, <1>2 DEF St, How

\* What is seen of a client that a step brings to its decision.
LEMMA ViewDecided ==
  ASSUME NEW c, Promised, Promised', Asked(c), Asked(c)', "READY" \notin word[c], "READY" \in word'[c]
  PROVE  St(c) = "asked" /\ St(c)' = "decided" /\ How(c)' = Outcome(c)'
BY DEF St, How, Decided, Has

\* The steps of the clients.
LEMMA ClientMaps ==
  ASSUME Base, Tidy, Promised, Promised', NEW d \in Clients, ClientDoes(d)
  PROVE  Promise!Next \/ UNCHANGED Promise!vars
<1>0. /\ QueueTypes /\ WordTypes /\ Located /\ TidyAway(d) /\ ~mode.strays /\ d \in Threads /\ d # Server
  BY TypesAre, Consts DEF Base, Tidy, Promised, Orderly
<1>1. tag'[Server] = tag[Server] /\ loc'[Server] = loc[Server]
  BY ClientOther
<1>2. Owed' = Owed
  BY <1>1 DEF Owed
<1>3. ASSUME NEW c \in Clients, c # d PROVE St(c)' = St(c) /\ How(c)' = How(c)
  BY <1>1, <1>3, ClientOther, ViewFrame DEF Asked
<1>4. CASE Kernel(d)
  <2>1. /\ loc[d] = "kernel" /\ loc'[d] = "wait" /\ rmAdd' = rmAdd
        /\ "READY" \in word'[d] <=> "READY" \in word[d]
    BY <1>0, <1>4 DEF Kernel, At, Goto, WordTypes, QueueTypes
  <2>2. St(d)' = St(d) /\ How(d)' = How(d)
    BY <1>1, <2>1, ViewFrame DEF Asked
  <2> QED BY <1>2, <1>3, <2>2, ViewSame
<1>5. CASE Queue(d)
  <2>1. /\ loc[d] = "queue" /\ loc'[d] = "kernel" /\ word'[d] = word[d] \cup {"REQUEST"}
    BY <1>0, <1>5 DEF Queue, EvtqInsert, At, Goto, WordTypes, QueueTypes
  <2>2. "READY" \notin word'[d]
    BY <1>0, <2>1 DEF TidyAway
  <2>3. St(d) = "idle" /\ St(d)' = "asked" /\ How(d)' = How(d)
    BY <2>1, <2>2 DEF St, How, Asked, Decided, Has
  <2> QED BY <1>2, <1>3, <2>3, ViewMoves DEF Moves
<1>6. CASE Finish(d)
  <2>1. /\ loc[d] = "wait" /\ loc'[d] = "idle" /\ "READY" \in word[d]
    BY <1>0, <1>6 DEF Finish, Has, At, Goto, QueueTypes
  <2>2. St(d) = "decided" /\ St(d)' = "idle" /\ How(d)' = None
    BY <2>1 DEF St, How, Asked, Decided, Has
  <2> QED BY <1>2, <1>3, <2>2, ViewMoves DEF Moves
<1>7. CASE ~Kernel(d) /\ ~Queue(d) /\ ~Finish(d)
  <2>1. ~Asked(d) /\ ~Asked(d)'
    BY <1>0, <1>7, ClientOwn DEF Asked
  <2>2. St(d)' = St(d) /\ How(d)' = How(d)
    BY <2>1 DEF St, How, Decided
  <2> QED BY <1>2, <1>3, <2>2, ViewSame
<1> QED BY <1>4, <1>5, <1>6, <1>7

\* The steps of the tick.
LEMMA TickMaps ==
  ASSUME Base, Tidy, Promised, Promised', TickDoes
  PROVE  Promise!Next \/ UNCHANGED Promise!vars
<1>0. /\ QueueTypes /\ WordTypes /\ Located /\ ~mode.strays /\ \A d \in Clients : TidyClient(d)
  BY TypesAre, Consts DEF Base, Tidy, TidyClient, Promised, Orderly
<1>1. UNCHANGED <<loc, tag>>
  BY TickIs
<1>2. Owed' = Owed
  BY <1>1 DEF Owed
<1>3. ASSUME NEW c \in Clients, "READY" \in word'[c] <=> "READY" \in word[c], rmAdd'[c] = rmAdd[c]
      PROVE  St(c)' = St(c) /\ How(c)' = How(c)
  BY <1>1, <1>3, ViewFrame DEF Asked
<1>4. CASE UNCHANGED <<word, rmAdd>>
  BY <1>2, <1>3, <1>4, ViewSame
<1>5. ASSUME NEW d \in Clients, word' = [word EXCEPT ![d] = @ \cup {"TIMEOUT"}], UNCHANGED rmAdd
      PROVE  UNCHANGED Promise!vars
  <2>1. \A c \in Clients : "READY" \in word'[c] <=> "READY" \in word[c]
    BY <1>0, <1>5 DEF WordTypes
  <2> QED BY <1>2, <1>3, <1>5, <2>1, ViewSame
<1>6. ASSUME NEW d \in Clients, "READY" \notin word[d], loc[d] = "wait",
             rmAdd' = [rmAdd EXCEPT ![d] = @ \cup {"ES_TIMEOUT"}],
             \/ word' = [word EXCEPT ![d] = @ \cup {"READY"}]
             \/ word' = [word EXCEPT ![d] = @ \cup {"READY", "TIMEOUT"}]
      PROVE  Promise!Next
  <2>1. \A c \in Clients : c # d => word'[c] = word[c] /\ rmAdd'[c] = rmAdd[c]
    BY <1>0, <1>6, Consts DEF WordTypes
  <2>2. "READY" \in word'[d] /\ "ES_TIMEOUT" \in rmAdd'[d]
    BY <1>0, <1>6, Consts DEF WordTypes
  <2>3. Asked(d) /\ Asked(d)'
    BY <1>1, <1>6 DEF Asked
  <2>4. ~(tag[Server] = d /\ loc[Server] \in {"took", "answer"})
    BY <1>0, <1>6 DEF TidyClient, TidyTaken, Settled
  <2>5. Outcome(d)' = "expired"
    BY <1>1, <2>2, <2>4 DEF Outcome
  <2>6. St(d) = "asked" /\ St(d)' = "decided" /\ How(d)' = "expired"
    BY <1>6, <2>2, <2>3, <2>5, ViewDecided
  <2> QED BY <1>2, <1>3, <2>1, <2>6, ViewMoves DEF Moves
<1> QED BY <1>4, <1>5, <1>6, TickIs

\* The steps of the service that receives.
LEMMA ServerMaps ==
  ASSUME Base, Tidy, Promised, Promised', ServerDoes
  PROVE  UNCHANGED Promise!vars
<1>0. /\ QueueTypes /\ WordTypes /\ Located /\ UrgentFirst /\ None \notin Clients
      /\ \A d \in Clients : TidyClient(d) /\ Situated(d)
  BY TypesAre, Consts DEF Base, Tidy, TidyClient
<1>1. tag[Server] = None /\ tag' = tag /\ \A c \in Clients : loc'[c] = loc[c] /\ word'[c] = word[c]
  BY <1>0, ServerIs
<1>2. Owed' = Owed
  BY <1>1 DEF Owed
<1>3. ASSUME NEW c \in Clients PROVE St(c)' = St(c) /\ How(c)' = How(c)
  <2>1. rmAdd'[c] \cap EndFlags = rmAdd[c] \cap EndFlags
    <3>1. CASE Event
      BY <1>0, <3>1, EventIs DEF WordTypes, EvtsMask, EndFlags
    <3> QED BY <1>0, <3>1, ServerIs
  <2> QED BY <1>0, <1>1, <2>1, ViewFrame DEF Asked
<1> QED BY <1>2, <1>3, ViewSame
\* The steps of the service that serves c.
LEMMA ServesMaps ==
  ASSUME Base, Tidy, Promised, Promised', NEW c \in Clients, Prompt(c), ServesDoes(c)
  PROVE  Promise!Next \/ UNCHANGED Promise!vars
<1>0. /\ QueueTypes /\ WordTypes /\ Located /\ UrgentFirst /\ None \notin Clients /\ c # None /\ ~mode.strays
      /\ TidyAway(c) /\ TidyTaken(c) /\ Situated(c) /\ c \in Threads /\ c # Server /\ Server \in Threads
  BY TypesAre, Consts DEF Base, Tidy, Promised, Orderly
<1>1. tag[Server] = c => Asked(c)
  BY <1>0 DEF TidyAway, Away, Asked, Located, ClientLocs
<1>2. loc'[c] = loc[c] /\ (Asked(c)' <=> Asked(c))
  <2>1. loc'[c] = loc[c]
    BY <1>0, ServesOwn
  <2> QED BY <2>1 DEF Asked
<1>3. ASSUME NEW d \in Clients, d # c PROVE St(d)' = St(d) /\ How(d)' = How(d)
  <2>1. /\ word'[d] = word[d] /\ rmAdd'[d] = rmAdd[d] /\ loc'[d] = loc[d] /\ tag[Server] # d /\ tag'[Server] # d
    BY <1>0, <1>3, ServesOther
  <2> QED BY <2>1, ViewFrame DEF Asked
<1>4. CASE Pick(c)
  <2>1. loc[Server] = "pick" /\ loc'[Server] = "in" /\ UNCHANGED <<word, rmAdd>>
    BY <1>0, <1>4 DEF Pick, At, Goto, QueueTypes
  <2>2. St(c)' = St(c) /\ How(c)' = How(c)
    BY <1>2, <2>1, ViewFrame
  <2>3. Owed' = Owed
    BY <2>1 DEF Owed
  <2> QED BY <1>3, <2>2, <2>3, ViewSame
<1>5. CASE InTimeout(c)
  <2>1. loc[Server] = "in" /\ loc'[Server] = "user" /\ UNCHANGED <<word, rmAdd>>
    BY <1>0, <1>5 DEF InTimeout, At, Goto, QueueTypes
  <2>2. St(c)' = St(c) /\ How(c)' = How(c)
    BY <1>2, <2>1, ViewFrame
  <2>3. Owed' = Owed
    BY <2>1 DEF Owed
  <2> QED BY <1>3, <2>2, <2>3, ViewSame
<1>6. CASE InSend(c)
  <2>1. /\ loc[Server] = "in" /\ loc'[Server] = "took" /\ tag[Server] = c /\ tag'[Server] = c
        /\ "READY" \notin word[c] /\ "READY" \in word'[c]
    BY <1>0, <1>6 DEF InSend, InTime, Has, Ready, At, Goto, QueueTypes, WordTypes
  <2>2. Outcome(c)' = "sent"
    BY <2>1 DEF Outcome
  <2>3. St(c) = "asked" /\ St(c)' = "decided" /\ How(c)' = "sent"
    BY <1>1, <1>2, <2>1, <2>2, ViewDecided
  <2>4. Owed = None /\ Owed' = None
    BY <2>1 DEF Owed
  <2> QED BY <1>3, <2>3, <2>4, ViewMoves DEF Moves
<1>7. CASE InCall(c)
  <2>1. /\ loc[Server] = "in" /\ loc'[Server] = "serve" /\ tag[Server] = c /\ tag'[Server] = c
        /\ "READY" \notin word[c] /\ word' = word
    BY <1>0, <1>7 DEF InCall, InTime, Has, At, Goto, QueueTypes, WordTypes
  <2>2. St(c) = "asked" /\ St(c)' = "asked" /\ How(c)' = How(c)
    BY <1>1, <1>2, <2>1 DEF St, How, Decided, Has
  <2>3. Owed = None /\ Owed' = c
    BY <2>1 DEF Owed
  <2> QED BY <1>3, <2>2, <2>3, ViewMoves DEF Moves
<1>8. CASE Took(c) \/ Answer(c)
  <2>1. /\ loc[Server] \in {"took", "answer"} /\ tag[Server] = c /\ tag'[Server] = None /\ word' = word
    BY <1>0, <1>8 DEF Took, Answer, At, WordTypes
  <2>2. "READY" \in word[c] /\ rmAdd[c] \cap EndFlags = {}
    BY <1>0, <1>1, <2>1 DEF TidyTaken, Settled, Prompt, Served
  <2>3. Outcome(c) = IF loc[Server] = "took" THEN "sent" ELSE "answered"
    BY <2>1 DEF Outcome
  <2>4. rmAdd'[c] \cap EndFlags = IF loc[Server] = "took" THEN {"SEND_FI"} ELSE {"RECV_FI"}
    <3>1. CASE Took(c)
      <4>1. loc[Server] = "took" /\ rmAdd'[c] = (rmAdd[c] \ {"SEND_WT"}) \cup {"SEND_FI"}
        BY <1>0, <3>1 DEF Took, RmStateChange, At, WordTypes
      <4> QED BY <2>2, <4>1 DEF EndFlags
    <3>2. CASE Answer(c)
      <4>1. loc[Server] = "answer"
        BY <3>2 DEF Answer, At
      <4>2. "RECV" \in word[c]
        BY <2>1, <4>1 DEF Prompt
      <4>3. tag[c] = Server /\ word[c] \cap SMask = {"SEND_WT", "RECV"}
        BY <1>0, <1>1, <2>1, <4>2 DEF Situated, Asked
      <4>4. rmAdd'[c] = (rmAdd[c] \ {"RECV_WT"}) \cup {"RECV_FI"}
        BY <1>0, <3>2, <4>3 DEF Answer, RmStateChange, WordTypes
      <4> QED BY <2>2, <4>1, <4>4 DEF EndFlags
    <3> QED BY <1>8, <3>1, <3>2
  <2>5. Outcome(c)' = IF loc[Server] = "took" THEN "sent" ELSE "answered"
    <3>1. /\ "ES_TIMEOUT" \notin rmAdd'[c] /\ ("RECV_FI" \in rmAdd'[c] <=> loc[Server] # "took")
          /\ "SEND_FI" \in rmAdd'[c] <=> loc[Server] = "took"
      BY <2>4 DEF EndFlags
    <3> QED BY <1>0, <2>1, <3>1 DEF Outcome
  <2>6. Decided(c) /\ Decided(c)'
    BY <1>1, <1>2, <2>1, <2>2 DEF Decided, Has
  <2>7. St(c)' = St(c) /\ How(c)' = How(c)
    BY <2>3, <2>5, <2>6 DEF St, How
  <2>8. Owed' = Owed
    <3>1. loc'[Server] \in {"user", "drain"}
      BY <1>0, <1>8 DEF Took, Answer, Goto, QueueTypes
    <3> QED BY <2>1, <3>1 DEF Owed
  <2> QED BY <1>3, <2>7, <2>8, ViewSame
<1>9. CASE Reply(c) /\ "READY" \in word[c]
  <2>1. /\ loc[Server] = "serve" /\ loc'[Server] = "drain" /\ tag[Server] = c /\ UNCHANGED <<word, rmAdd>>
    BY <1>0, <1>9 DEF Reply, Has, At, Goto, QueueTypes
  <2>2. St(c)' = St(c) /\ How(c)' = How(c)
    BY <1>2, <2>1, ViewFrame
  <2>3. St(c) # "asked"
    BY <1>1, <1>9, <2>1 DEF St, Decided, Has
  <2>4. Owed = c /\ Owed' = None
    BY <2>1 DEF Owed
  <2> QED BY <1>3, <2>2, <2>3, <2>4, ViewMoves DEF Moves
<1>10. CASE Reply(c) /\ "READY" \notin word[c]
  <2>1. /\ loc[Server] = "serve" /\ loc'[Server] = "answer" /\ tag[Server] = c /\ tag'[Server] = c
        /\ "READY" \in word'[c]
    BY <1>0, <1>10 DEF Reply, Settle, Ready, Has, At, Goto, QueueTypes, WordTypes
  <2>2. Outcome(c)' = "answered"
    BY <2>1 DEF Outcome
  <2>3. St(c) = "asked" /\ St(c)' = "decided" /\ How(c)' = "answered"
    BY <1>1, <1>2, <1>10, <2>1, <2>2, ViewDecided
  <2>4. Owed = c /\ Owed' = None
    BY <2>1 DEF Owed
  <2> QED BY <1>3, <2>3, <2>4, ViewMoves DEF Moves
<1> QED BY <1>4, <1>5, <1>6, <1>7, <1>8, <1>9, <1>10 DEF ServesDoes

\* The steps of the service that closes.
LEMMA CloseMaps ==
  ASSUME Base, Tidy, Stays, Promised, Promised', \A d \in Clients : Prompt(d), CloseDoes
  PROVE  Promise!Next \/ UNCHANGED Promise!vars
<1>0. /\ QueueTypes /\ WordTypes /\ Located /\ UrgentFirst /\ None \notin Clients /\ ~mode.strays /\ Punctual
      /\ \A d \in Clients : TidyClient(d) /\ Situated(d) /\ d \in Threads
  BY TypesAre, Consts, NoClose DEF Base, Tidy, TidyClient, Promised, Orderly
<1>1. \A c \in Clients : loc'[c] = loc[c] /\ (Asked(c)' <=> Asked(c))
  BY CloseIs DEF Asked
<1>2. \A c \in Clients : ~Overdue(c)
  BY <1>0 DEF Overdue, TidyClient, TidyEvent
<1>3. ASSUME NEW c \in Clients, "READY" \in word'[c] <=> "READY" \in word[c],
             "READY" \in word[c] => rmAdd'[c] \cap EndFlags = rmAdd[c] \cap EndFlags,
             ~Served(c), loc'[Server] \notin {"took", "answer"}
      PROVE  St(c)' = St(c) /\ How(c)' = How(c)
  BY <1>1, <1>3, ViewFrame DEF Served, Decided, Has
<1>4. ASSUME NEW c \in Clients PROVE ~Served(c) /\ loc'[Server] \notin {"took", "answer"}
  BY CloseIs DEF Served
<1>5. ASSUME loc[Server] \in {"shut", "sweep", "resweep"} PROVE Owed = None /\ Owed' = None
  <2>1. loc'[Server] # "serve"
    BY <1>5, CloseIs
  <2> QED BY <1>5, <2>1 DEF Owed
<1>6. CASE UNCHANGED <<word, rmAdd>> /\ loc[Server] \in {"shut", "sweep", "resweep"}
  BY <1>3, <1>4, <1>5, <1>6, ViewSame
<1>7. ASSUME NEW d \in Clients, loc[Server] = "serve", tag[Server] = d, loc'[Server] = "shut", UNCHANGED rmAdd,
             \A c \in Clients : word'[c] = IF c = d THEN word[c] \cup {"READY"} ELSE word[c]
      PROVE  Promise!Next
  <2>1. \A c \in Clients : c # d => St(c)' = St(c) /\ How(c)' = How(c)
    BY <1>3, <1>4, <1>7
  <2>2. "READY" \notin word[d] /\ "READY" \in word'[d] /\ Asked(d)
    BY <1>0, <1>2, <1>7 DEF TidyClient, TidyTaken, TidyAway, Away, Asked, Located, ClientLocs
  <2>3. rmAdd'[d] \cap EndFlags = {}
    BY <1>7, <2>2 DEF Prompt
  <2>4. Outcome(d)' = "refused"
    BY <1>7, <2>3 DEF Outcome, EndFlags
  <2>5. St(d) = "asked" /\ St(d)' = "decided" /\ How(d)' = "refused"
    BY <1>1, <2>2, <2>4, ViewDecided
  <2>6. Owed' = None
    BY <1>7 DEF Owed
  <2> QED BY <2>1, <2>5, <2>6, ViewMoves DEF Moves
<1>8. ASSUME NEW d \in Clients, loc[Server] = "shut", UNCHANGED <<loc, tag>>, d \in Listed, "READY" \notin word[d],
             word' = [word EXCEPT ![d] = @ \cup {"READY"}], rmAdd' = [rmAdd EXCEPT ![d] = @ \cup {"ES_ERROR"}]
      PROVE  Promise!Next
  <2>1. \A c \in Clients : c # d => word'[c] = word[c] /\ rmAdd'[c] = rmAdd[c]
    BY <1>0, <1>8 DEF WordTypes
  <2>2. \A c \in Clients : c # d => St(c)' = St(c) /\ How(c)' = How(c)
    BY <1>3, <1>4, <2>1
  <2>3. "READY" \in word'[d] /\ rmAdd'[d] = rmAdd[d] \cup {"ES_ERROR"}
    BY <1>0, <1>8 DEF WordTypes
  <2>4. Asked(d)
    BY <1>0, <1>8 DEF TidyClient, TidyAway, Away, Asked, Located, ClientLocs
  <2>5. rmAdd'[d] \cap EndFlags = {}
    BY <1>8, <2>3, <2>4 DEF Prompt, EndFlags
  <2>6. Outcome(d)' = "refused"
    BY <1>8, <2>5 DEF Outcome, EndFlags
  <2>7. St(d) = "asked" /\ St(d)' = "decided" /\ How(d)' = "refused"
    BY <1>1, <1>8, <2>3, <2>4, <2>6, ViewDecided
  <2> QED BY <1>5, <1>8, <2>2, <2>7, ViewMoves DEF Moves
<1>9. ASSUME NEW d \in Clients, loc[Server] \in {"sweep", "resweep"}, d \in Queued, UNCHANGED word,
             rmAdd' = [rmAdd EXCEPT ![d] = (@ \ EsMask) \cup {"ES_ERROR"}]
      PROVE  UNCHANGED Promise!vars
  <2>1. \A c \in Clients : c # d => rmAdd'[c] = rmAdd[c]
    BY <1>0, <1>9 DEF WordTypes
  <2>2. "READY" \notin word[d]
    BY <1>0, <1>9 DEF TidyClient, TidyEvent, InEvents
  <2>3. \A c \in Clients : St(c)' = St(c) /\ How(c)' = How(c)
    BY <1>3, <1>4, <1>9, <2>1, <2>2
  <2> QED BY <1>5, <1>9, <2>3, ViewSame
<1> QED BY <1>6, <1>7, <1>8, <1>9, CloseIs
\* Every step of the IPC is a step of RequestReply or not visible.
LEMMA StepMaps ==
  ASSUME Base, Tame => Tidy, Stays, Promising, [Next]_vars
  PROVE  [Promise!Next]_(Promise!vars)
<1>1. mode' = mode /\ (Promised' <=> Promised)
  BY ModeSame DEF Promised, Orderly, Punctual
<1>2. CASE ~Promised
  <2>1. \A c \in Clients : St(c)' = St(c) /\ How(c)' = How(c)
    BY <1>1, <1>2 DEF St, How
  <2>2. Owed' = Owed
    BY <1>1, <1>2 DEF Owed
  <2> QED BY <2>1, <2>2, ViewSame
<1>3. CASE Promised
  <2>1. Tidy /\ \A c \in Clients : Prompt(c)
    BY <1>3 DEF Promised, Tame, Promising
  <2>2. UNCHANGED vars => UNCHANGED Promise!vars
    <3> SUFFICES ASSUME UNCHANGED vars PROVE UNCHANGED Promise!vars
      OBVIOUS
    <3>1. UNCHANGED <<word, rmAdd, tag, loc>>
      BY DEF vars, ipcVars
    <3>2. \A c \in Clients : St(c)' = St(c) /\ How(c)' = How(c)
      BY <1>1, <3>1, ViewFrame DEF Asked
    <3>3. Owed' = Owed
      BY <1>1, <3>1 DEF Owed
    <3> QED BY <3>2, <3>3, ViewSame
  <2> QED BY <1>1, <1>3, <2>1, <2>2, StepIs, ClientMaps, TickMaps, ServerMaps, ServesMaps, CloseMaps
<1> QED BY <1>2, <1>3

\* MatrixIpc implements RequestReply: each request is decided once, with the outcome that
\* the remote flags give (core/ipc.c).
THEOREM PromiseKeptOK == Spec => PromiseKept
<1>1. Init => Promise!Init
  <2> SUFFICES ASSUME Init PROVE Promise!Init
    OBVIOUS
  <2>1. loc[Server] = "user" /\ \A c \in Clients : loc[c] = "idle"
    BY Consts DEF Init
  <2>2. \A c \in Clients : ~Asked(c) /\ ~Decided(c)
    BY <2>1 DEF Asked, Decided
  <2> QED BY <2>1, <2>2 DEF Promise!Init
<1>2. Base /\ (Tame => Tidy) /\ Reckoning /\ Promising /\ [Next]_vars => [Promise!Next]_(Promise!vars)
  BY StepMaps DEF Reckoning
<1> QED BY <1>1, <1>2, PromisingOK, ReckoningOK, PTL DEF Spec, PromiseKept, Promise!Spec
=============================================================================
