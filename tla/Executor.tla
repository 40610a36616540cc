------------------------------ MODULE Executor ------------------------------
(***************************************************************************)
(* The executor of drogue-async (src/src/executor.rs, src/src/task.rs):    *)
(* the task list, the state flag of every task control block (TCB), the    *)
(* loop of run(), do_poll(), the wakers, the JoinHandle and spawn().       *)
(*                                                                         *)
(* Three kinds of contexts interleave.  A runner is a thread inside run(). *)
(* The main program initialises the executor, spawns root tasks while no   *)
(* runner is inside run() and joins them from any thread.  Interrupts      *)
(* complete the events that tasks wait for and call their wakers.          *)
(* A step of the model is what no other context can observe half done: one *)
(* access to a shared cell, or one critical section.                       *)
(***************************************************************************)
EXTENDS Naturals, Sequences, FiniteSets

CONSTANTS
    Task,       \* the tasks that may be spawned, one TCB each
    Runner,     \* the threads that call run()
    Main,       \* the owner of the JoinHandles of the root tasks
    None,       \* Option::None
    TaskCap,    \* capacity of Executor.tasks, U64 in the code
    ReadyCap,   \* capacity of the snapshot of ready tasks, U8 in the code
    HeapCap,    \* how many TCBs the executor's memory holds
    MaxAwaits,  \* bound: the awaits of defer() and of events by one task
    Endless,    \* the tasks whose program loops around defer() for ever
    Drops,      \* TRUE: a task may drop a future that it has polled
    LateWakes,  \* TRUE: a clone of a waker may be called after its task has ended
    LongNames,  \* TRUE: a task may be spawned under a name of more than 16 bytes
    Ordered     \* TRUE: a thread sees the stores of another one in order

ASSUME ConstantsAssumption ==
    /\ Main \notin Task
    /\ None \notin Task \cup {Main}
    /\ TaskCap \in Nat /\ ReadyCap \in Nat /\ HeapCap \in Nat
    /\ MaxAwaits \in Nat
    /\ Endless \subseteq Task
    /\ Drops \in BOOLEAN /\ LateWakes \in BOOLEAN
    /\ LongNames \in BOOLEAN /\ Ordered \in BOOLEAN

VARIABLES
    executor,         \* EXECUTOR.is_some()
    tasks,            \* Executor.tasks, in order of spawning
    outcome,          \* what spawn returned for a task
    state,            \* TCB.state
    completion_waker, \* TCB.completion_waker: the task to wake, or None
    exit,             \* TCB.exit: TRUE once it holds Some(value)
    future,           \* TCB.future: where the async block is suspended
    awaited,          \* the task whose JoinHandle the block awaits, or None
    fuel,             \* how many awaits the block still makes
    owner,            \* who holds the JoinHandle of a task
    event,            \* the waiter slot of a task at the interrupt source
    event_waker,      \* TRUE: the slot holds the waker of the task
    pc,               \* where a runner is
    ready,            \* the ready snapshot of a runner, less the polled ones
    cur,              \* the task that a runner polls, or None
    joined,           \* TRUE: join() on the task has returned
    panic             \* why the program panicked, or "none"

program == <<executor, tasks, outcome, owner, joined, panic>>
block == <<future, awaited, fuel>>
tcb == <<state, completion_waker, exit, block>>
source == <<event, event_waker>>
runners == <<pc, ready, cur>>
vars == <<program, tcb, source, runners>>

TASK_PENDING == "pending"
TASK_READY == "ready"
TASK_TERMINATED == "terminated"

Outcomes == {"unspawned", "ok", "TaskListFull", "ExecutorNotInitialized"}
Suspensions == {"start", "active", "defer", "join", "event", "done"}
Polling == {"poll", "register", "user", "ready", "exited", "notify"}
Places == {"idle", "check", "collect", "next"} \cup Polling
Panics == {"none", "uninitialized", "name", "out of memory", "overflow", "resumed",
           "unwrap"}

Scheduled == {tasks[i] : i \in DOMAIN tasks}
Allocated == {t \in Task : outcome[t] \in {"ok", "TaskListFull"}}

-----------------------------------------------------------------------------
(***************************************************************************)
(* init_executor!, then TCB::new for every TCB: a future that has not      *)
(* started, ready to be polled, with neither a waker nor an exit value.    *)
(***************************************************************************)
Init ==
    /\ executor = FALSE
    /\ tasks = <<>>
    /\ outcome = [t \in Task |-> "unspawned"]
    /\ state = [t \in Task |-> TASK_READY]
    /\ completion_waker = [t \in Task |-> None]
    /\ exit = [t \in Task |-> FALSE]
    /\ future = [t \in Task |-> "start"]
    /\ awaited = [t \in Task |-> None]
    /\ fuel = [t \in Task |-> MaxAwaits]
    /\ owner = [t \in Task |-> None]
    /\ event = [t \in Task |-> "none"]
    /\ event_waker = [t \in Task |-> FALSE]
    /\ pc = [r \in Runner |-> "idle"]
    /\ ready = [r \in Runner |-> {}]
    /\ cur = [r \in Runner |-> None]
    /\ joined = [t \in Task |-> FALSE]
    /\ panic = "none"

Idle == \A r \in Runner : pc[r] = "idle"

init_executor ==
    /\ ~executor
    /\ executor' = TRUE
    /\ UNCHANGED <<tasks, outcome, owner, joined, panic, tcb, source, runners>>

Panic(why) ==
    /\ panic' = why
    /\ UNCHANGED <<executor, tasks, outcome, owner, joined, tcb, source, runners>>

(***************************************************************************)
(* spawn(): TCB::new converts the name into a String<U16>, which panics if *)
(* it does not fit; TCB::allocate unwraps the allocation, so that running  *)
(* out of memory is a panic; schedule() reports a full list after the TCB  *)
(* has been allocated, which is then never freed.                          *)
(***************************************************************************)
HasRoom_OffByOne == Len(tasks) <= TaskCap

HasRoom == Len(tasks) < TaskCap

Schedule(t, holder) ==
    \/ LongNames /\ Panic("name")
    \/ /\ Cardinality(Allocated) >= HeapCap
       /\ Panic("out of memory")
    \/ /\ Cardinality(Allocated) < HeapCap
       /\ IF HasRoom
             THEN /\ tasks' = Append(tasks, t)
                  /\ outcome' = [outcome EXCEPT ![t] = "ok"]
                  /\ owner' = [owner EXCEPT ![t] = holder]
             ELSE /\ outcome' = [outcome EXCEPT ![t] = "TaskListFull"]
                  /\ UNCHANGED <<tasks, owner>>
       /\ UNCHANGED <<executor, joined, panic, tcb, source, runners>>

spawn(t, holder) ==
    /\ outcome[t] = "unspawned"
    /\ \/ /\ ~executor
          /\ outcome' = [outcome EXCEPT ![t] = "ExecutorNotInitialized"]
          /\ UNCHANGED <<executor, tasks, owner, joined, panic, tcb, source, runners>>
       \/ /\ executor
          /\ Schedule(t, holder)

MainSpawn(t) == Idle /\ spawn(t, Main)

-----------------------------------------------------------------------------
(***************************************************************************)
(* The wakers.  A Waker points at the state flag of its task; wake and     *)
(* wake_by_ref store TASK_READY in it, whatever it holds.                  *)
(***************************************************************************)
wake_by_ref(flags, t) == [flags EXCEPT ![t] = TASK_READY]

\* A clone of the waker of a task, held outside the crate, is called.
SpuriousWake(t) ==
    /\ t \in Scheduled
    /\ future[t] # "start"
    /\ state[t] # TASK_READY
    /\ state[t] = TASK_TERMINATED => LateWakes
    /\ state' = wake_by_ref(state, t)
    /\ UNCHANGED <<program, completion_waker, exit, block, source, runners>>

(***************************************************************************)
(* The interrupt source, as AsyncTimer uses its wakers: the handler marks  *)
(* the slot as expired and wakes the task if the slot holds its waker,     *)
(* again if the slot had already expired.                                  *)
(***************************************************************************)
Signal_Silent(t) ==
    /\ event[t] # "none"
    /\ event' = [event EXCEPT ![t] = "expired"]
    /\ UNCHANGED <<program, state, completion_waker, exit, block, event_waker, runners>>

Signal(t) ==
    /\ event[t] # "none"
    /\ event' = [event EXCEPT ![t] = "expired"]
    /\ state' = IF event_waker[t] THEN wake_by_ref(state, t) ELSE state
    /\ UNCHANGED <<program, completion_waker, exit, block, event_waker, runners>>

-----------------------------------------------------------------------------
(***************************************************************************)
(* The loop of Executor::run.                                              *)
(***************************************************************************)
Goto(r, place) == pc' = [pc EXCEPT ![r] = place]

\* run() on an executor that was never initialised unwraps None.
StartRun(r) ==
    /\ pc[r] = "idle"
    /\ \/ ~executor /\ Panic("uninitialized")
       \/ /\ executor
          /\ Goto(r, "check")
          /\ UNCHANGED <<program, tcb, source, ready, cur>>


AllTerminated == \A t \in Scheduled : state[t] = TASK_TERMINATED

CheckTerminated(r) ==
    /\ pc[r] = "check"
    /\ Goto(r, IF AllTerminated THEN "idle" ELSE "collect")
    /\ UNCHANGED <<program, tcb, source, ready, cur>>

\* The second critical section: collect() panics if the snapshot overflows.
ReadyTasks_NotPending == {t \in Scheduled : state[t] # TASK_PENDING}

ReadyTasks_NotTerminated == {t \in Scheduled : state[t] # TASK_TERMINATED}

ReadyTasks_First ==
    {tasks[i] : i \in {k \in DOMAIN tasks :
        state[tasks[k]] = TASK_READY /\ \A j \in 1 .. (k - 1) : state[tasks[j]] # TASK_READY}}

ReadyTasks == {t \in Scheduled : state[t] = TASK_READY}

CollectReady(r) ==
    /\ pc[r] = "collect"
    /\ \/ Cardinality(ReadyTasks) > ReadyCap /\ Panic("overflow")
       \/ /\ Cardinality(ReadyTasks) <= ReadyCap
          /\ ready' = [ready EXCEPT ![r] = ReadyTasks]
          /\ Goto(r, "next")
          /\ UNCHANGED <<program, tcb, source, cur>>

\* The snapshot is exhausted: next turn of the loop.
EndRound(r) ==
    /\ pc[r] = "next"
    /\ ready[r] = {}
    /\ Goto(r, "check")
    /\ UNCHANGED <<program, tcb, source, ready, cur>>

-----------------------------------------------------------------------------
(***************************************************************************)
(* do_poll.  It marks the task pending, polls the future, and if that      *)
(* returned Ready stores the exit value, then the flag, and only then      *)
(* looks for a completion waker.                                           *)
(***************************************************************************)
SignalPending(r) ==
    /\ pc[r] = "next"
    /\ \E i \in DOMAIN tasks :
          /\ tasks[i] \in ready[r]
          /\ \A j \in 1 .. (i - 1) : tasks[j] \notin ready[r]
          /\ state' = [state EXCEPT ![tasks[i]] = TASK_PENDING]
          /\ cur' = [cur EXCEPT ![r] = tasks[i]]
          /\ ready' = [ready EXCEPT ![r] = @ \ {tasks[i]}]
    /\ Goto(r, "poll")
    /\ UNCHANGED <<program, completion_waker, exit, block, source>>

\* do_poll returns to the loop of run.
DoneWith(r) ==
    /\ cur' = [cur EXCEPT ![r] = None]
    /\ Goto(r, "next")
    /\ UNCHANGED ready

SetExit_Forgotten(r) ==
    /\ pc[r] = "ready"
    /\ Goto(r, "exited")
    /\ UNCHANGED <<program, tcb, source, ready, cur>>

SetExit(r) ==
    /\ pc[r] = "ready"
    /\ exit' = [exit EXCEPT ![cur[r]] = TRUE]
    /\ Goto(r, "exited")
    /\ UNCHANGED <<program, state, completion_waker, block, source, ready, cur>>

SignalTerminated(r) ==
    /\ pc[r] = "exited"
    /\ state' = [state EXCEPT ![cur[r]] = TASK_TERMINATED]
    /\ Goto(r, "notify")
    /\ UNCHANGED <<program, completion_waker, exit, block, source, ready, cur>>

WakeCompletion(r) ==
    /\ pc[r] = "notify"
    /\ state' = IF completion_waker[cur[r]] = None THEN state
                ELSE wake_by_ref(state, completion_waker[cur[r]])
    /\ DoneWith(r)
    /\ UNCHANGED <<program, completion_waker, exit, block, source>>

-----------------------------------------------------------------------------
(***************************************************************************)
(* Polling the async block.  The block is suspended at one leaf future:    *)
(* Resume continues a block whose leaf is ready, the others are the polls  *)
(* of the leaf futures of the crate.                                       *)
(***************************************************************************)
Resume(r, t) ==
    /\ future' = [future EXCEPT ![t] = "active"]
    /\ awaited' = [awaited EXCEPT ![t] = None]
    /\ Goto(r, "user")
    /\ UNCHANGED <<ready, cur>>

\* The first poll of a block, and Defer::poll once it has yielded.
PollResume(r) ==
    /\ pc[r] = "poll"
    /\ future[cur[r]] \in {"start", "defer"}
    /\ Resume(r, cur[r])
    /\ UNCHANGED <<program, state, completion_waker, exit, fuel, source>>

\* A block that has returned Ready panics when it is polled again.
PollDone(r) ==
    /\ pc[r] = "poll"
    /\ future[cur[r]] = "done"
    /\ Panic("resumed")

\* JoinHandle::poll: the flag is read, then the exit value or the waker cell.
PollJoin(r) ==
    /\ pc[r] = "poll"
    /\ future[cur[r]] = "join"
    /\ LET u == awaited[cur[r]] IN
          \/ /\ state[u] # TASK_TERMINATED
             /\ Goto(r, "register")
             /\ UNCHANGED <<program, tcb, source, ready, cur>>
          \/ /\ state[u] = TASK_TERMINATED
             /\ IF exit[u]
                   THEN /\ Resume(r, cur[r])
                        /\ owner' = [owner EXCEPT ![u] = None]
                        /\ UNCHANGED <<executor, tasks, outcome, joined, panic, state,
                                       completion_waker, exit, fuel, source>>
                   ELSE Panic("unwrap")

SetCompletionWaker_Skipped(r) == UNCHANGED completion_waker

SetCompletionWaker(r) ==
    completion_waker' = [completion_waker EXCEPT ![awaited[cur[r]]] = cur[r]]

RegisterJoin(r) ==
    /\ pc[r] = "register"
    /\ SetCompletionWaker(r)
    /\ DoneWith(r)
    /\ UNCHANGED <<program, state, exit, block, source>>

\* The handle was one branch of a select and another branch was ready: the
\* handle is dropped, which leaves the waker in the cell.
DropJoin(r) ==
    /\ Drops
    /\ pc[r] = "register"
    /\ SetCompletionWaker(r)
    /\ owner' = [owner EXCEPT ![awaited[cur[r]]] = None]
    /\ Resume(r, cur[r])
    /\ UNCHANGED <<executor, tasks, outcome, joined, panic, state, exit, fuel, source>>

\* Delay::poll: in a critical section, free an expired slot or install the waker.
FreeSlot_Kept(t) == UNCHANGED source

FreeSlot(t) ==
    /\ event' = [event EXCEPT ![t] = "none"]
    /\ event_waker' = [event_waker EXCEPT ![t] = FALSE]

PollEvent(r) ==
    /\ pc[r] = "poll"
    /\ future[cur[r]] = "event"
    /\ \/ /\ event[cur[r]] = "expired"
          /\ FreeSlot(cur[r])
          /\ Resume(r, cur[r])
       \/ /\ event[cur[r]] # "expired"
          /\ event_waker' = [event_waker EXCEPT ![cur[r]] = TRUE]
          /\ DoneWith(r)
          /\ UNCHANGED <<event, future, awaited>>
       \/ /\ Drops      \* the other branch of a select was ready
          /\ event[cur[r]] # "expired"
          /\ event_waker' = [event_waker EXCEPT ![cur[r]] = TRUE]
          /\ Resume(r, cur[r])
          /\ UNCHANGED event
    /\ UNCHANGED <<program, state, completion_waker, exit, fuel>>

-----------------------------------------------------------------------------
(***************************************************************************)
(* The code of an async block between two awaits: it may spawn, yield,     *)
(* await a JoinHandle that it holds, await an event, or return.            *)
(***************************************************************************)
UserSpawn(r, t) ==
    /\ pc[r] = "user"
    /\ spawn(t, cur[r])

UseFuel(t) == fuel' = IF t \in Endless THEN fuel ELSE [fuel EXCEPT ![t] = @ - 1]

SelfWake_PendingLate(t) == state' = [state EXCEPT ![t] = TASK_PENDING]

SelfWake(t) == state' = wake_by_ref(state, t)

\* defer(): Defer::poll sets yielded, wakes its own task and returns Pending.
UserDefer(r) ==
    /\ pc[r] = "user"
    /\ fuel[cur[r]] > 0
    /\ UseFuel(cur[r])
    /\ future' = [future EXCEPT ![cur[r]] = "defer"]
    /\ SelfWake(cur[r])
    /\ DoneWith(r)
    /\ UNCHANGED <<program, completion_waker, exit, awaited, source>>

UserAwaitJoin(r, t) ==
    /\ pc[r] = "user"
    /\ owner[t] = cur[r]
    /\ future' = [future EXCEPT ![cur[r]] = "join"]
    /\ awaited' = [awaited EXCEPT ![cur[r]] = t]
    /\ Goto(r, "poll")
    /\ UNCHANGED <<program, state, completion_waker, exit, fuel, source, ready, cur>>

\* AsyncTimer::schedule takes a free slot, without a waker, then polls the Delay.  A task
\* has one slot here: one that has dropped a delay whose slot is taken awaits no other.
UserAwaitEvent(r) ==
    /\ pc[r] = "user"
    /\ cur[r] \notin Endless
    /\ fuel[cur[r]] > 0
    /\ event[cur[r]] = "none"
    /\ UseFuel(cur[r])
    /\ event' = [event EXCEPT ![cur[r]] = "armed"]
    /\ future' = [future EXCEPT ![cur[r]] = "event"]
    /\ Goto(r, "poll")
    /\ UNCHANGED <<program, state, completion_waker, exit, awaited, event_waker, ready,
                   cur>>

UserReturn(r) ==
    /\ pc[r] = "user"
    /\ cur[r] \notin Endless
    /\ future' = [future EXCEPT ![cur[r]] = "done"]
    /\ Goto(r, "ready")
    /\ UNCHANGED <<program, state, completion_waker, exit, awaited, fuel, source,
                   ready, cur>>

(***************************************************************************)
(* JoinHandle::join spins until the flag says terminated and unwraps the   *)
(* exit value.  The flag is stored and loaded relaxed with a fence for the *)
(* compiler only, so unless the machine keeps stores in order a thread     *)
(* that sees the flag may still see the cell as it was.                    *)
(***************************************************************************)
ExitSeen(t) == IF Ordered THEN {exit[t]} ELSE {exit[t], FALSE}

Join(t) ==
    /\ owner[t] = Main
    /\ ~joined[t]
    /\ state[t] = TASK_TERMINATED
    /\ \E some \in ExitSeen(t) :
          \/ ~some /\ Panic("unwrap")
          \/ /\ some
             /\ joined' = [joined EXCEPT ![t] = TRUE]
             /\ UNCHANGED <<executor, tasks, outcome, owner, panic, tcb, source, runners>>

-----------------------------------------------------------------------------
RunnerStep(r) ==
    \/ StartRun(r) \/ CheckTerminated(r) \/ CollectReady(r) \/ EndRound(r)
    \/ SignalPending(r) \/ SetExit(r) \/ SignalTerminated(r) \/ WakeCompletion(r)
    \/ PollResume(r) \/ PollDone(r) \/ PollJoin(r) \/ RegisterJoin(r) \/ DropJoin(r)
    \/ PollEvent(r)
    \/ UserDefer(r) \/ UserAwaitEvent(r) \/ UserReturn(r)
    \/ \E t \in Task : UserSpawn(r, t) \/ UserAwaitJoin(r, t)

\* A panic stops the program.
Next ==
    /\ panic = "none"
    /\ \/ init_executor
       \/ \E t \in Task : MainSpawn(t) \/ Join(t) \/ SpuriousWake(t) \/ Signal(t)
       \/ \E r \in Runner : RunnerStep(r)

Spec == Init /\ [][Next]_vars

(***************************************************************************)
(* run_forever() calls run() again and again, a spinning join() sees the   *)
(* flag in the end, and an armed timer expires in the end.                 *)
(***************************************************************************)
FairSpec ==
    /\ Spec
    /\ \A r \in Runner : WF_vars(panic = "none" /\ RunnerStep(r))
    /\ \A t \in Task : /\ WF_vars(panic = "none" /\ event[t] = "armed" /\ Signal(t))
                       /\ WF_vars(panic = "none" /\ Join(t))
-----------------------------------------------------------------------------
(***************************************************************************)
(* Properties.                                                             *)
(***************************************************************************)
\* Every variable stays in its type and the list never outgrows its capacity
\* (the push in Executor::schedule, executor.rs:241).
TypeOK ==
    /\ executor \in BOOLEAN
    /\ tasks \in Seq(Task) /\ Len(tasks) <= TaskCap
    /\ outcome \in [Task -> Outcomes]
    /\ state \in [Task -> {TASK_PENDING, TASK_READY, TASK_TERMINATED}]
    /\ completion_waker \in [Task -> Task \cup {None}]
    /\ exit \in [Task -> BOOLEAN]
    /\ future \in [Task -> Suspensions]
    /\ awaited \in [Task -> Task \cup {None}]
    /\ fuel \in [Task -> Nat]
    /\ owner \in [Task -> Task \cup {Main, None}]
    /\ event \in [Task -> {"none", "armed", "expired"}]
    /\ event_waker \in [Task -> BOOLEAN]
    /\ pc \in [Runner -> Places]
    /\ ready \in [Runner -> SUBSET Task]
    /\ cur \in [Runner -> Task \cup {None}]
    /\ joined \in [Task -> BOOLEAN]
    /\ panic \in Panics

InPoll(t) == \E r \in Runner : cur[r] = t

\* What the task waits for has happened and whoever brought it about is done.
WakeDue(t) ==
    \/ future[t] = "defer"
    \/ future[t] = "event" /\ event[t] = "expired"
    \/ /\ future[t] = "join"
       /\ state[awaited[t]] = TASK_TERMINATED
       /\ ~InPoll(awaited[t])

\* No wakeup is lost: a suspended task whose leaf future has become ready is
\* marked ready, wherever the interrupt or the completion came in between the
\* stores of do_poll and of JoinHandle::poll.
NoLostWakeup ==
    \A t \in Scheduled : ~InPoll(t) /\ WakeDue(t) => state[t] = TASK_READY

\* The exit value is in its cell before the flag says terminated (the fence of
\* do_poll), so whoever sees the flag may unwrap the value.
ExitBeforeFlag == \A t \in Task : state[t] = TASK_TERMINATED => exit[t]

\* A task collected into the snapshot is still ready when its turn comes, after
\* the polls of the tasks before it and the interrupts among them.
SnapshotStaysReady ==
    \A r \in Runner : \A t \in ready[r] : state[t] = TASK_READY /\ future[t] # "done"

\* A program that stays within the capacities and initialises the executor
\* never panics: no snapshot overflow, no poll of a finished future, no unwrap
\* of a missing exit value.
NoPanic == panic \in {"none", "uninitialized"}

\* A terminated task stays terminated: no waker that is still registered (in a
\* completion_waker cell or a timer slot) stores TASK_READY over the flag.
TerminatedIsFinal ==
    [][\A t \in Task : state[t] = TASK_TERMINATED => state'[t] = TASK_TERMINATED]_vars

\* Two runners never poll the same task at the same time ("We are the only path
\* calling do_poll", executor.rs:275).
PollIsExclusive ==
    \A r, s \in Runner : cur[r] # None /\ cur[r] = cur[s] => r = s

\* The snapshot holds all the ready tasks of a list within its capacity ("a
\* hard-coded 64 maximum number of tasks", lib.rs:3).
SnapshotFits == panic # "overflow"

\* A task without an end, or one that awaits such a task, perhaps through others: it is
\* in every set that holds the endless tasks and whoever awaits a member.
AwaitsEndless(t) ==
    \A S \in SUBSET Task :
        Endless \subseteq S /\ (\A u \in Task : awaited[u] \in S => u \in S) => t \in S

\* Every scheduled task terminates in the end, unless its program has no end or awaits
\* one without: wakeups, polls and completions of do_poll and JoinHandle::poll keep
\* coming, next to tasks that go on for ever.
EveryTaskTerminates ==
    \A t \in Task : (outcome[t] = "ok") ~> (state[t] = TASK_TERMINATED \/ AwaitsEndless(t))

\* join(), which only spins, returns in the end on a root task that terminates.
JoinReturns == \A t \in Task : (owner[t] = Main) ~> (joined[t] \/ AwaitsEndless(t))

\* run() does not return before every task of the list, those spawned meanwhile included,
\* has returned from its block and left its exit value (executor.rs:253), although it is
\* documented as one round (executor.rs:301).
ReturnsOnlyDone ==
    [][\A r \in Runner : pc[r] # "idle" /\ pc'[r] = "idle" =>
           \A t \in Scheduled' : future'[t] = "done" /\ exit'[t]]_vars


\* A ready task is polled in the end, whatever the tasks before it in the list do.
ReadyIsPolled ==
    \A t \in Task : (outcome[t] = "ok" /\ state[t] = TASK_READY) ~> InPoll(t)
=============================================================================
