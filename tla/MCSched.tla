------------------------------- MODULE MCSched -------------------------------
(* Instances of MatrixSched for TLC: two processors, three user threads.     *)
EXTENDS MatrixSched, TLC

CONSTANTS a, b, e, i0, i1

MCVcpu   == {a, b, e, i0, i1}
MCIdleOf == (0 :> i0) @@ (1 :> i1)
MCDelays == {1, 2}

\* a and b compete at one priority, e is below them
MCPrio == (a :> 1) @@ (b :> 1) @@ (e :> 2) @@ (i0 :> 3) @@ (i1 :> 3)
\* every user thread may run anywhere
MCFree == (a :> 2) @@ (b :> 2) @@ (e :> 2) @@ (i0 :> 0) @@ (i1 :> 1)
\* b is bound to processor 1, e to processor 0
MCBound == (a :> 2) @@ (b :> 1) @@ (e :> 0) @@ (i0 :> 0) @@ (i1 :> 1)
=============================================================================
