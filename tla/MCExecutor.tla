----------------------------- MODULE MCExecutor -----------------------------
(***************************************************************************)
(* Small instances of the executor for TLC.                                   *)
(***************************************************************************)
EXTENDS ExecutorInv, TLC

\* Tasks are interchangeable unless one of them is endless; sound for
\* invariants and action properties only.
Symmetry == Permutations(Task)
=============================================================================
