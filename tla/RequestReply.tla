---------------------------- MODULE RequestReply ----------------------------
(***************************************************************************)
(* What an IPC service promises.  A client asks; the server takes one       *)
(* request at a time; each request is decided exactly once -- sent, answered, *)
(* expired or refused -- and the decision stands until the client returns.  *)
(***************************************************************************)
CONSTANTS
    Clients,   \* the threads that ask
    None       \* no client

VARIABLES
    st,        \* "idle", "asked" or "decided", for each client
    how,       \* the decision, None before it
    serving    \* the client the server owes a reply, or None
vars == <<st, how, serving>>

Decisions == {"sent", "answered", "expired", "refused"}

Init ==
    /\ st  = [c \in Clients |-> "idle"]
    /\ how = [c \in Clients |-> None]
    /\ serving = None

Decide(c, d) ==
    /\ st[c] = "asked"
    /\ st'  = [st EXCEPT ![c] = "decided"]
    /\ how' = [how EXCEPT ![c] = d]

Ask(c) ==
    /\ st[c] = "idle"
    /\ st' = [st EXCEPT ![c] = "asked"]
    /\ UNCHANGED <<how, serving>>

\* The server takes a request that wants a reply.
Take(c) ==
    /\ serving = None /\ st[c] = "asked"
    /\ serving' = c
    /\ UNCHANGED <<st, how>>

\* A request that wants no reply is over when it is taken.
Deliver(c) == serving = None /\ Decide(c, "sent") /\ UNCHANGED serving

Answer(c) == serving = c /\ Decide(c, "answered") /\ serving' = None
Expire(c) == Decide(c, "expired") /\ UNCHANGED serving
Refuse(c) == serving' \in {serving, None} /\ Decide(c, "refused")

\* The client the server serves is out of reach already.
GiveUp(c) ==
    /\ serving = c /\ st[c] # "asked"
    /\ serving' = None
    /\ UNCHANGED <<st, how>>

Return(c) ==
    /\ st[c] = "decided"
    /\ st'  = [st EXCEPT ![c] = "idle"]
    /\ how' = [how EXCEPT ![c] = None]
    /\ UNCHANGED serving

Next ==
    \E c \in Clients :
        \/ Ask(c) \/ Take(c) \/ Deliver(c) \/ Answer(c) \/ Expire(c)
        \/ Refuse(c) \/ GiveUp(c) \/ Return(c)
Spec == Init /\ [][Next]_vars
=============================================================================
