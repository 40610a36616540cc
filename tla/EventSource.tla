---------------------------- MODULE EventSource -----------------------------
(***************************************************************************)
(* What the executor and a source of events (a timer, a peripheral) expect *)
(* of each other.  The executor lowers the flag of a task and polls it; in *)
(* the poll the task may arm an event, must end a wait that has expired    *)
(* and, before it suspends in one that has not, must leave its waker; and  *)
(* the interrupt raises the flag of whoever has left a waker.              *)
(* Executor's events and AsyncTimer's delays follow this protocol.         *)
(***************************************************************************)
CONSTANT Task

VARIABLES
    event,      \* of a task: none, armed or expired
    waiting,    \* TRUE: the source holds the waker of the task
    flag,       \* FALSE: TASK_PENDING, the task gets no poll before it is woken
    polled,     \* the tasks that are being polled
    halted      \* TRUE: the program has panicked

vars == <<event, waiting, flag, polled, halted>>

Init ==
    /\ event = [t \in Task |-> "none"]
    /\ waiting = [t \in Task |-> FALSE]
    /\ flag = [t \in Task |-> TRUE]
    /\ polled = {}
    /\ halted = FALSE

\* The start of a poll, and nothing else, lowers a flag.
Poll(t) ==
    /\ flag[t]
    /\ t \notin polled
    /\ flag' = [flag EXCEPT ![t] = FALSE]
    /\ polled' = polled \cup {t}
    /\ UNCHANGED <<event, waiting, halted>>

Wake(t) ==
    /\ flag' = [flag EXCEPT ![t] = TRUE]
    /\ UNCHANGED <<event, waiting, polled, halted>>

Arm(t) ==
    /\ t \in polled
    /\ event[t] = "none"
    /\ event' = [event EXCEPT ![t] = "armed"]
    /\ UNCHANGED <<waiting, flag, polled, halted>>

\* The poll of an event that has expired ends the wait, and goes on.
Finish(t) ==
    /\ t \in polled
    /\ event[t] = "expired"
    /\ event' = [event EXCEPT ![t] = "none"]
    /\ waiting' = [waiting EXCEPT ![t] = FALSE]
    /\ UNCHANGED <<flag, polled, halted>>

\* The poll of an event that has not leaves the waker, and is over.
Wait(t) ==
    /\ t \in polled
    /\ event[t] = "armed"
    /\ waiting' = [waiting EXCEPT ![t] = TRUE]
    /\ polled' = polled \ {t}
    /\ UNCHANGED <<event, flag, halted>>

\* A poll ends elsewhere than in an event, and wakes the tasks of S: its own, or one that
\* awaits its end.
Suspend(t, S) ==
    /\ t \in polled
    /\ event[t] = "none"
    /\ flag' = [u \in Task |-> flag[u] \/ u \in S]
    /\ polled' = polled \ {t}
    /\ UNCHANGED <<event, waiting, halted>>

\* One interrupt may serve several waiters, and wakes those that have left a waker.
Expire(S) ==
    /\ \A t \in S : event[t] # "none"
    /\ event' = [t \in Task |-> IF t \in S THEN "expired" ELSE event[t]]
    /\ flag' = [t \in Task |-> flag[t] \/ (t \in S /\ waiting[t])]
    /\ UNCHANGED <<waiting, polled, halted>>

Halt ==
    /\ halted' = TRUE
    /\ UNCHANGED <<event, waiting, flag, polled>>

Next ==
    \/ \E t \in Task : \/ Poll(t) \/ Wake(t) \/ Arm(t) \/ Finish(t) \/ Wait(t)
                       \/ \E S \in SUBSET Task : Suspend(t, S)
    \/ \E S \in SUBSET Task : Expire(S)
    \/ Halt

Spec == Init /\ [][~halted /\ Next]_vars

\* No expiry goes unheard: a task whose event has expired is being polled, and will see
\* it, or has its flag raised and will be polled.
Heard == \A t \in Task : event[t] = "expired" => t \in polled \/ flag[t]

\* What Heard rests on: nobody is suspended in an event without having left a waker.
WakerLeft == \A t \in Task : event[t] = "armed" => t \in polled \/ waiting[t]

\* Every armed event expires, as the fairness of Executor assumes.
ArmedExpires == \A t \in Task : event[t] = "armed" ~> (event[t] = "expired" \/ halted)
=============================================================================
