---------------------------- MODULE JoinContract ----------------------------
(***************************************************************************)
(* What spawn() and a JoinHandle promise, without flags, wakers or polls   *)
(* (the documentation of src/src/lib.rs and src/src/task.rs): a spawn is   *)
(* refused or starts a task, the task finishes once and for all, and its   *)
(* handle delivers a value, for the first time, after it has finished.     *)
(***************************************************************************)
CONSTANT Task

VARIABLES
    phase,      \* how far a task has come
    delivered   \* TRUE: join() or .await has returned the value of the task

vars == <<phase, delivered>>

Init ==
    /\ phase = [t \in Task |-> "unspawned"]
    /\ delivered = [t \in Task |-> FALSE]

Move(t, from, to) ==
    /\ phase[t] = from
    /\ phase' = [phase EXCEPT ![t] = to]
    /\ UNCHANGED delivered

Spawn(t) == Move(t, "unspawned", "running")

Refuse(t) == Move(t, "unspawned", "refused")

Finish(t) == Move(t, "running", "finished")

Deliver(t) ==
    /\ phase[t] = "finished"
    /\ ~delivered[t]
    /\ delivered' = [delivered EXCEPT ![t] = TRUE]
    /\ UNCHANGED phase

Next == \E t \in Task : Spawn(t) \/ Refuse(t) \/ Finish(t) \/ Deliver(t)

Spec == Init /\ [][Next]_vars
=============================================================================
