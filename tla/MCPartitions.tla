----------------------------- MODULE MCPartitions -----------------------------
(* Small instances of Partitions: three areas of two partitions, or none and other *)
(* callers; eight addresses of RAM.                                               *)
EXTENDS Partitions
AnyPlace == 15
Area     == [own : Owners, phys : {3, 6, AnyPlace}, size : {2, 4}]
All      == {<<>>} \cup [1 .. 3 -> Area]
Small    == {<<0, 1>>, <<2, 1>>, <<3, 1>>, <<2, 4>>, <<15, 1>>, <<14, 1>>}
Fixed    == {<<3, 2>>, <<6, 2>>, <<8, 3>>, <<5, 0>>, <<4, 1>>}
=============================================================================
