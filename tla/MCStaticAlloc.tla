--------------------------- MODULE MCStaticAlloc ----------------------------
(***************************************************************************)
(* A small memory for TLC.                                                 *)
(***************************************************************************)
EXTENDS StaticAlloc, TLC

TaskLayouts == {[size |-> 3, align |-> 1], [size |-> 4, align |-> 4], [size |-> 2, align |-> 2]}

Symmetry == Permutations(Task) \cup Permutations(Caller)
=============================================================================
