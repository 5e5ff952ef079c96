------------------------------- MODULE MCSmpIpi -------------------------------
(* Small instances of SmpIpi. *)
EXTENDS SmpIpi, TLC
Load(calls, locks) == [calls |-> calls, locks |-> locks]
\* Two processors that are up call each other or also the third, which is not up, and
\* one enters the kernel; both enter the kernel, and one calls; one of three that are up
\* calls the others.
Ways ==
    { 0 :> Load(1, 1) @@ 1 :> Load(1, 0),
      0 :> Load(1, 1) @@ 1 :> Load(0, 1),
      0 :> Load(1, 1) @@ 1 :> Load(0, 0) @@ 2 :> Load(0, 0) }
=============================================================================
