------------------------------- MODULE MCHeap -------------------------------
(***************************************************************************)
(* A small heap for TLC, with a word of two bytes.                         *)
(***************************************************************************)
EXTENDS Heap

Layout(s, a) == [size |-> s, align |-> a]

\* Smaller than a hole, not a multiple of a word, aligned to more than a hole.
MixedLayouts == {Layout(1, 1), Layout(5, 2), Layout(4, 8), Layout(9, 4)}
=============================================================================
