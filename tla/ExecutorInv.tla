---------------------------- MODULE ExecutorInv -----------------------------
(***************************************************************************)
(* The inductive invariant of Executor, for one runner that drops no       *)
(* future it has polled, and the contract that the executor implements.    *)
(***************************************************************************)
EXTENDS Executor

\* Only scheduled tasks have left the state that TCB::new gave them, and a
\* handle exists for scheduled tasks only.
ListInv ==
    /\ \A t \in Task : outcome[t] = "ok" <=> t \in Scheduled
    /\ \A t \in Task : t \notin Scheduled => future[t] = "start" /\ owner[t] = None
    /\ \A r \in Runner : cur[r] # None => cur[r] \in Scheduled
    /\ \A r \in Runner : ready[r] \subseteq Scheduled

\* Where a runner is in do_poll says where the block it polls is suspended.
RunnerInv ==
    \A r \in Runner :
        /\ cur[r] # None <=> pc[r] \in Polling
        /\ cur[r] \notin ready[r]
        /\ pc[r] = "poll" => future[cur[r]] \in {"start", "defer", "join", "event"}
        /\ pc[r] = "register" =>
               future[cur[r]] = "join" /\ state[awaited[cur[r]]] # TASK_TERMINATED
        /\ pc[r] = "user" => future[cur[r]] = "active"
        /\ pc[r] \in {"ready", "exited", "notify"} => future[cur[r]] = "done"
        /\ pc[r] \in {"exited", "notify"} => exit[cur[r]]
        /\ pc[r] = "notify" => state[cur[r]] = TASK_TERMINATED

\* A terminated task has returned; one that has returned is terminated unless
\* do_poll is about to store the flag.  A block awaits a handle that it owns.
FutureInv ==
    \A t \in Task :
        /\ future[t] = "active" => InPoll(t)
        /\ future[t] = "done" =>
               \/ state[t] = TASK_TERMINATED
               \/ \E r \in Runner : cur[r] = t /\ pc[r] \in {"ready", "exited"}
        /\ state[t] = TASK_TERMINATED => future[t] = "done" /\ exit[t]
        /\ IF future[t] = "join" THEN awaited[t] \in Task /\ owner[awaited[t]] = t
                                 ELSE awaited[t] = None

\* As long as do_poll may still read the completion waker of a task, the waker
\* belongs to a task that awaits it; and whoever is suspended there is registered.
WakerInv ==
    /\ \A u \in Task :
          /\ completion_waker[u] # None
          /\ state[u] # TASK_TERMINATED \/ InPoll(u)
          => /\ future[completion_waker[u]] = "join"
             /\ awaited[completion_waker[u]] = u
    /\ \A t \in Task : future[t] = "join" /\ ~InPoll(t) => completion_waker[awaited[t]] = t

\* A slot is taken exactly while its task awaits the event, and holds the waker
\* once the task is suspended there.
EventInv ==
    \A t \in Task :
        /\ event[t] # "none" <=> future[t] = "event"
        /\ event_waker[t] => event[t] # "none"
        /\ future[t] = "event" /\ ~InPoll(t) => event_waker[t]

\* The faults that do_poll and JoinHandle must never run into.
NoFault == panic \notin {"resumed", "unwrap"}

\* The discipline the code relies on: a single context calls run(), a block awaits
\* what it has polled to the end, no one keeps a waker beyond the end of its task, and a
\* thread sees stores in order.
Disciplined == (\A r, s \in Runner : r = s) /\ ~Drops /\ ~LateWakes /\ Ordered

\* The tasks fit: into memory and, all ready at once, into the snapshot; and so
\* do their names.
Roomy ==
    /\ IsFiniteSet(Task)
    /\ Cardinality(Task) <= ReadyCap
    /\ Cardinality(Task) <= HeapCap
    /\ ~LongNames

\* The inductive invariant: the parts above with the safety properties of the
\* executor that they support.
Inv ==
    /\ TypeOK
    /\ ListInv
    /\ RunnerInv
    /\ FutureInv
    /\ WakerInv
    /\ EventInv
    /\ SnapshotStaysReady
    /\ NoLostWakeup
    /\ NoFault

-----------------------------------------------------------------------------
(***************************************************************************)
(* The refinement mapping to JoinContract.                                 *)
(***************************************************************************)
Phase(t) ==
    CASE outcome[t] = "unspawned" -> "unspawned"
      [] outcome[t] \in {"TaskListFull", "ExecutorNotInitialized"} -> "refused"
      [] outcome[t] = "ok" -> IF state[t] = TASK_TERMINATED THEN "finished" ELSE "running"

\* join() has returned, or the handle was consumed by an .await.
Delivered(t) == joined[t] \/ (outcome[t] = "ok" /\ owner[t] = None)

Contract == INSTANCE JoinContract WITH
    phase <- [t \in Task |-> Phase(t)],
    delivered <- [t \in Task |-> Delivered(t)]

\* Only the owner of a handle outside the tasks calls join().
JoinedInv == \A t \in Task : joined[t] => owner[t] = Main

\* The executor keeps the contract of spawn, join and .await: a step of run(),
\* of a handle or of an interrupt is a step of the contract or invisible to it.
ContractSpec == Contract!Spec

-----------------------------------------------------------------------------
(***************************************************************************)
(* The refinement mapping to EventSource, which AsyncTimer implements too. *)
(***************************************************************************)
Awake == [t \in Task |-> state[t] # TASK_PENDING]

BeingPolled == {t \in Task : InPoll(t)}

Source == INSTANCE EventSource WITH
    waiting <- event_waker,
    flag <- Awake,
    polled <- BeingPolled,
    halted <- panic # "none"

\* The executor treats its events as their source expects: a flag is lowered at the start
\* of a poll only, so none that an interrupt or a waker raises meanwhile is lost; a task
\* arms one event at a time, and a poll that meets an event which has not expired leaves
\* the waker before it ends, whatever interrupts come between.
EventProtocol == Source!Spec
=============================================================================
