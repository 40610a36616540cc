---------------------------- MODULE HeapContract ----------------------------
(***************************************************************************)
(* What an allocator promises (GlobalAlloc's contract as the documentation *)
(* of src/src/alloc/cortex_m/alloc/mod.rs states it for Heap): a call to   *)
(* allocate returns memory of the wanted size and alignment inside the     *)
(* heap that nobody else holds, until it is given back.                    *)
(***************************************************************************)
EXTENDS Integers

CONSTANTS Bottom, Top, Layouts

VARIABLE held       \* the allocations: address and wanted layout

Init == held = {}

Disjoint(a, b) == a.addr + a.layout.size <= b.addr \/ b.addr + b.layout.size <= a.addr

Allocate(a) ==
    /\ a.addr % a.layout.align = 0
    /\ Bottom <= a.addr /\ a.addr + a.layout.size <= Top
    /\ \A b \in held : Disjoint(a, b)
    /\ held' = held \cup {a}

Free(a) == held' = held \ {a}

Next ==
    \/ \E addr \in Bottom .. Top, l \in Layouts : Allocate([addr |-> addr, layout |-> l])
    \/ \E a \in held : Free(a)

Spec == Init /\ [][Next]_held
=============================================================================
