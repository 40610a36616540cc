--------------------------- MODULE ExecutorProofs ---------------------------
(***************************************************************************)
(* Proofs about the executor, for any number of tasks and any capacities.  *)
(***************************************************************************)
EXTENDS ExecutorInv, FiniteSetTheorems, TLAPS

-----------------------------------------------------------------------------
(***************************************************************************)
(* Type correctness.                                                       *)
(***************************************************************************)

\* A panic changes nothing but the panic itself.
LEMMA PanicType ==
    ASSUME TypeOK, NEW why \in Panics, Panic(why)
    PROVE  TypeOK'
BY DEF TypeOK, Panic, tcb, block, source, runners

\* spawn() keeps the types, and pushes on the list only while there is room.
LEMMA SpawnType ==
    ASSUME TypeOK, ConstantsAssumption, NEW t \in Task, NEW holder \in Task \cup {Main, None},
           spawn(t, holder)
    PROVE  TypeOK'
<1>1. CASE /\ outcome' = [outcome EXCEPT ![t] = "ExecutorNotInitialized"]
           /\ UNCHANGED <<executor, tasks, owner, joined, panic, tcb, source, runners>>
  BY <1>1 DEF TypeOK, Outcomes, tcb, block, source, runners
<1>2. CASE Panic("name") \/ Panic("out of memory")
  BY <1>2, PanicType DEF Panics
<1>3. CASE /\ HasRoom
           /\ tasks' = Append(tasks, t)
           /\ outcome' = [outcome EXCEPT ![t] = "ok"]
           /\ owner' = [owner EXCEPT ![t] = holder]
           /\ UNCHANGED <<executor, joined, panic, tcb, source, runners>>
  <2>1. tasks' \in Seq(Task) /\ Len(tasks') <= TaskCap
    BY <1>3, ConstantsAssumption DEF TypeOK, HasRoom, ConstantsAssumption
  <2> QED BY <1>3, <2>1 DEF TypeOK, Outcomes, tcb, block, source, runners
<1>4. CASE /\ outcome' = [outcome EXCEPT ![t] = "TaskListFull"]
           /\ UNCHANGED <<executor, tasks, owner, joined, panic, tcb, source, runners>>
  BY <1>4 DEF TypeOK, Outcomes, tcb, block, source, runners
<1> QED BY <1>1, <1>2, <1>3, <1>4 DEF spawn, Schedule

\* An await that is still allowed leaves a natural number of awaits.
LEMMA FuelType ==
    ASSUME fuel \in [Task -> Nat], NEW t, fuel[t] > 0, UseFuel(t)
    PROVE  fuel' \in [Task -> Nat]
<1>1. CASE t \in Endless
  BY <1>1 DEF UseFuel
<1>2. CASE t \notin Endless /\ t \in Task
  <2>1. fuel[t] \in Nat /\ fuel[t] - 1 \in Nat
    BY <1>2
  <2> QED BY <1>2, <2>1 DEF UseFuel
<1>3. CASE t \notin Endless /\ t \notin Task
  <2>1. fuel' = [fuel EXCEPT ![t] = fuel[t] - 1]
    BY <1>3 DEF UseFuel
  <2>2. \A u \in Task : fuel'[u] = fuel[u]
    BY <1>3, <2>1
  <2> QED BY <2>1, <2>2
<1> QED BY <1>1, <1>2, <1>3

\* Every step of run(), do_poll() and of an async block keeps the types.
LEMMA RunnerStepType ==
    ASSUME TypeOK, ConstantsAssumption, NEW r \in Runner, RunnerStep(r)
    PROVE  TypeOK'
<1> USE DEF TypeOK, program, block, tcb, source, runners, Goto, Resume, DoneWith,
            Places, Polling
<1>1. CASE StartRun(r)
  BY <1>1, PanicType DEF StartRun, Panics
<1>2. CASE CheckTerminated(r) \/ EndRound(r)
  BY <1>2 DEF CheckTerminated, EndRound
<1>3. CASE CollectReady(r)
  <2>1. ReadyTasks \subseteq Task
    BY DEF ReadyTasks, Scheduled
  <2>2. CASE Panic("overflow")
    BY <2>2, PanicType DEF Panics
  <2> QED BY <1>3, <2>1, <2>2 DEF CollectReady
<1>4. CASE SignalPending(r)
  <2>1. PICK i \in DOMAIN tasks :
            /\ state' = [state EXCEPT ![tasks[i]] = TASK_PENDING]
            /\ cur' = [cur EXCEPT ![r] = tasks[i]]
            /\ ready' = [ready EXCEPT ![r] = @ \ {tasks[i]}]
    BY <1>4 DEF SignalPending
  <2>2. tasks[i] \in Task
    OBVIOUS
  <2> QED BY <1>4, <2>1, <2>2 DEF SignalPending
<1>5. CASE SetExit(r)
  BY <1>5 DEF SetExit
<1>6. CASE SignalTerminated(r)
  BY <1>6 DEF SignalTerminated
<1>7. CASE WakeCompletion(r)
  BY <1>7 DEF WakeCompletion, wake_by_ref
<1>8. CASE PollResume(r)
  BY <1>8 DEF PollResume, Suspensions
<1>9. CASE PollDone(r)
  BY <1>9, PanicType DEF PollDone, Panics
<1>10. CASE PollJoin(r)
  <2>1. CASE Panic("unwrap")
    BY <2>1, PanicType DEF Panics
  <2>2. CASE Goto(r, "register") /\ UNCHANGED <<program, tcb, source, ready, cur>>
    BY <2>2
  <2>3. CASE /\ Resume(r, cur[r])
             /\ owner' = [owner EXCEPT ![awaited[cur[r]]] = None]
             /\ UNCHANGED <<executor, tasks, outcome, joined, panic, state,
                            completion_waker, exit, fuel, source>>
    BY <2>3 DEF Suspensions
  <2> QED BY <1>10, <2>1, <2>2, <2>3 DEF PollJoin
<1>11. CASE RegisterJoin(r)
  BY <1>11 DEF RegisterJoin, SetCompletionWaker
<1>12. CASE DropJoin(r)
  BY <1>12 DEF DropJoin, SetCompletionWaker, Suspensions
<1>13. CASE PollEvent(r)
  <2>1. CASE FreeSlot(cur[r]) /\ Resume(r, cur[r])
    BY <1>13, <2>1 DEF PollEvent, FreeSlot, Suspensions
  <2>2. CASE /\ event_waker' = [event_waker EXCEPT ![cur[r]] = TRUE]
             /\ UNCHANGED event
             /\ Resume(r, cur[r]) \/ (DoneWith(r) /\ UNCHANGED <<future, awaited>>)
    <3>1. event_waker' \in [Task -> BOOLEAN]
      BY <2>2
    <3>2. CASE Resume(r, cur[r])
      BY <1>13, <2>2, <3>1, <3>2 DEF PollEvent, Suspensions
    <3>3. CASE DoneWith(r) /\ UNCHANGED <<future, awaited>>
      BY <1>13, <2>2, <3>1, <3>3 DEF PollEvent
    <3> QED BY <2>2, <3>2, <3>3
  <2> QED BY <1>13, <2>1, <2>2 DEF PollEvent
<1>14. CASE UserDefer(r)
  <2>1. fuel' \in [Task -> Nat]
    BY <1>14, FuelType DEF UserDefer
  <2> QED BY <1>14, <2>1 DEF UserDefer, SelfWake, wake_by_ref, Suspensions
<1>15. CASE UserAwaitEvent(r)
  <2>1. fuel' \in [Task -> Nat]
    BY <1>15, FuelType DEF UserAwaitEvent
  <2> QED BY <1>15, <2>1 DEF UserAwaitEvent, Suspensions
<1>16. CASE UserReturn(r)
  BY <1>16 DEF UserReturn, Suspensions
<1>17. ASSUME NEW t \in Task, UserSpawn(r, t)
       PROVE  TypeOK'
  BY <1>17, SpawnType DEF UserSpawn
<1>18. ASSUME NEW t \in Task, UserAwaitJoin(r, t)
       PROVE  TypeOK'
  BY <1>18 DEF UserAwaitJoin, Suspensions
<1> QED
  BY ONLY RunnerStep(r), <1>1, <1>2, <1>3, <1>4, <1>5, <1>6, <1>7, <1>8, <1>9, <1>10,
     <1>11, <1>12, <1>13, <1>14, <1>15, <1>16, <1>17, <1>18 DEF RunnerStep

\* The initial state is well typed.
LEMMA InitType == Init => TypeOK
<1> SUFFICES ASSUME Init PROVE TypeOK
  OBVIOUS
<1>1. tasks \in Seq(Task) /\ Len(tasks) <= TaskCap
  BY ConstantsAssumption DEF Init, ConstantsAssumption
<1> QED BY <1>1, ConstantsAssumption
        DEF Init, TypeOK, ConstantsAssumption, Outcomes, Suspensions, Places, Panics, TASK_READY

\* Every step of the system keeps the types.
LEMMA NextType ==
    ASSUME TypeOK, [Next]_vars
    PROVE  TypeOK'
<1>1. CASE init_executor
  BY <1>1 DEF init_executor, TypeOK, tcb, block, source, runners
<1>2. ASSUME NEW t \in Task, MainSpawn(t) PROVE TypeOK'
  BY <1>2, SpawnType, ConstantsAssumption DEF MainSpawn
<1>3. ASSUME NEW t \in Task, Join(t) PROVE TypeOK'
  <2>1. CASE Panic("unwrap")
    BY <2>1, PanicType DEF Panics
  <2> QED BY <1>3, <2>1 DEF Join, TypeOK, tcb, block, source, runners
<1>4. ASSUME NEW t \in Task, SpuriousWake(t) \/ Signal(t) PROVE TypeOK'
  BY <1>4 DEF SpuriousWake, Signal, wake_by_ref, TypeOK, program, block, source, runners
<1>5. ASSUME NEW r \in Runner, RunnerStep(r) PROVE TypeOK'
  BY <1>5, RunnerStepType, ConstantsAssumption
<1>6. CASE UNCHANGED vars
  BY <1>6 DEF vars, program, tcb, block, source, runners, TypeOK
<1> QED BY <1>1, <1>2, <1>3, <1>4, <1>5, <1>6 DEF Next

\* Whatever runners, drops and machine orderings: every variable keeps its type
\* and the task list stays within its capacity (Executor::schedule).
THEOREM TypeCorrect == Spec => []TypeOK
<1>1. TypeOK /\ [Next]_vars => TypeOK'
  BY NextType
<1> QED BY <1>1, InitType, PTL DEF Spec

-----------------------------------------------------------------------------
(***************************************************************************)
(* The inductive invariant, under the discipline of one runner.  There is  *)
(* one lemma per action (or group of actions that touch the same state),   *)
(* with one step for every part of the invariant the action can disturb.   *)
(***************************************************************************)

\* The values of the state flag differ, and None is not a task.
LEMMA Distinct ==
    /\ TASK_PENDING # TASK_READY
    /\ TASK_PENDING # TASK_TERMINATED
    /\ TASK_READY # TASK_TERMINATED
    /\ None \notin Task
BY ConstantsAssumption DEF ConstantsAssumption, TASK_PENDING, TASK_READY, TASK_TERMINATED

\* The list of tasks is all there is to know about who is scheduled.
LEMMA SameList ==
    ASSUME tasks' = tasks
    PROVE  Scheduled' = Scheduled
BY DEF Scheduled

\* Scheduled tasks are tasks.
LEMMA ScheduledTasks ==
    ASSUME TypeOK
    PROVE  Scheduled \subseteq Task
BY DEF Scheduled, TypeOK

\* A step that leaves the list, the TCBs, the event slots and the runners alone
\* and is no fault: init_executor!, a panic of spawn or of collect, a join().
LEMMA FrameInv ==
    ASSUME Inv, TypeOK', NoFault', UNCHANGED <<tasks, outcome, owner, tcb, source, runners>>
    PROVE  Inv'
<1> USE DEF tcb, block, source, runners
<1>1. Scheduled' = Scheduled
  BY SameList
<1>2. ListInv' /\ RunnerInv'
  BY <1>1 DEF Inv, ListInv, RunnerInv
<1>3. FutureInv' /\ WakerInv' /\ EventInv'
  BY DEF Inv, FutureInv, WakerInv, EventInv, InPoll
<1>4. SnapshotStaysReady' /\ NoLostWakeup'
  BY <1>1 DEF Inv, SnapshotStaysReady, NoLostWakeup, WakeDue, InPoll
<1> QED BY <1>2, <1>3, <1>4 DEF Inv

\* A refused spawn leaves everything but its result alone.
LEMMA RefusedInv ==
    ASSUME Inv, TypeOK', NEW t \in Task, NEW why, why # "ok", outcome[t] = "unspawned",
           outcome' = [outcome EXCEPT ![t] = why],
           UNCHANGED <<executor, tasks, owner, joined, panic, tcb, source, runners>>
    PROVE  Inv'
<1> USE DEF tcb, block, source, runners
<1>1. Scheduled' = Scheduled
  BY SameList
<1>2. ListInv' /\ RunnerInv'
  BY <1>1 DEF Inv, ListInv, RunnerInv, TypeOK
<1>3. FutureInv' /\ WakerInv' /\ EventInv'
  BY DEF Inv, FutureInv, WakerInv, EventInv, InPoll
<1>4. SnapshotStaysReady' /\ NoLostWakeup' /\ NoFault'
  BY <1>1 DEF Inv, SnapshotStaysReady, NoLostWakeup, WakeDue, InPoll, NoFault
<1> QED BY <1>2, <1>3, <1>4 DEF Inv

\* A push on the list: the new task has not started and nobody awaits it.
LEMMA ScheduledInv ==
    ASSUME Inv, TypeOK', NEW t \in Task, NEW holder, outcome[t] = "unspawned",
           tasks' = Append(tasks, t),
           outcome' = [outcome EXCEPT ![t] = "ok"],
           owner' = [owner EXCEPT ![t] = holder],
           UNCHANGED <<executor, joined, panic, tcb, source, runners>>
    PROVE  Inv'
<1> USE Distinct DEF tcb, block, source, runners
<1>1. Scheduled' = Scheduled \cup {t}
  <2>1. /\ DOMAIN tasks' = DOMAIN tasks \cup {Len(tasks) + 1}
        /\ \A i \in DOMAIN tasks : tasks'[i] = tasks[i]
        /\ tasks'[Len(tasks) + 1] = t
    BY DEF Inv, TypeOK
  <2> QED BY <2>1 DEF Scheduled
<1>2. t \notin Scheduled /\ future[t] = "start" /\ owner[t] = None
  BY DEF Inv, ListInv
<1>3. ListInv'
  BY <1>1, <1>2 DEF Inv, ListInv, TypeOK
<1>4. RunnerInv'
  BY DEF Inv, RunnerInv
<1>5. FutureInv'
  BY <1>2 DEF Inv, FutureInv, TypeOK, InPoll
<1>6. WakerInv' /\ EventInv'
  BY DEF Inv, WakerInv, EventInv, InPoll
<1>7. SnapshotStaysReady' /\ NoFault'
  BY DEF Inv, SnapshotStaysReady, NoFault
<1>8. NoLostWakeup'
  BY <1>1, <1>2 DEF Inv, NoLostWakeup, WakeDue, InPoll
<1> QED BY <1>3, <1>4, <1>5, <1>6, <1>7, <1>8 DEF Inv

\* spawn(): nobody awaits or wakes the new task yet.
LEMMA SpawnInv ==
    ASSUME Inv, NEW t \in Task, NEW holder \in Task \cup {Main, None},
           spawn(t, holder), TypeOK'
    PROVE  Inv'
<1> USE Distinct DEF Inv
<1>1. CASE /\ outcome' = [outcome EXCEPT ![t] = "ExecutorNotInitialized"]
           /\ UNCHANGED <<executor, tasks, owner, joined, panic, tcb, source, runners>>
  <2>1. outcome[t] = "unspawned"
    BY DEF spawn
  <2> QED BY <1>1, <2>1, RefusedInv
<1>2. CASE Panic("name") \/ Panic("out of memory")
  BY <1>2, FrameInv DEF Panic, NoFault
<1>3. CASE /\ HasRoom
           /\ tasks' = Append(tasks, t)
           /\ outcome' = [outcome EXCEPT ![t] = "ok"]
           /\ owner' = [owner EXCEPT ![t] = holder]
           /\ UNCHANGED <<executor, joined, panic, tcb, source, runners>>
  BY <1>3, ScheduledInv DEF spawn
<1>4. CASE /\ outcome' = [outcome EXCEPT ![t] = "TaskListFull"]
           /\ UNCHANGED <<executor, tasks, owner, joined, panic, tcb, source, runners>>
  BY <1>4, RefusedInv DEF spawn
<1> QED BY <1>1, <1>2, <1>3, <1>4 DEF spawn, Schedule

\* A waker call for a task that is not terminated: no flag stops saying
\* terminated, and only that task becomes ready.
LEMMA WakeInv ==
    ASSUME Inv, TypeOK', NEW t \in Task, state[t] # TASK_TERMINATED,
           state' = wake_by_ref(state, t),
           UNCHANGED <<program, completion_waker, exit, block, source, runners>>
    PROVE  Inv'
<1> USE Distinct DEF program, block, source, runners
<1>1. Scheduled' = Scheduled
  BY SameList
<1>2. /\ state[t] # TASK_TERMINATED
      /\ \A u \in Task : state'[u] = IF u = t THEN TASK_READY ELSE state[u]
      /\ \A u \in Task : state'[u] = TASK_TERMINATED <=> state[u] = TASK_TERMINATED
  BY DEF Inv, TypeOK, wake_by_ref
<1>3. ListInv' /\ EventInv' /\ NoFault'
  BY <1>1 DEF Inv, ListInv, EventInv, InPoll, NoFault
<1>4. RunnerInv'
  <2>1. \A r \in Runner : pc[r] = "register" =>
            /\ future[cur[r]] = "join" /\ cur[r] \in Task
            /\ awaited[cur[r]] \in Task
    BY DEF Inv, RunnerInv, FutureInv, TypeOK, Polling
  <2>2. \A r \in Runner : pc[r] = "notify" => cur[r] \in Task
    BY DEF Inv, RunnerInv, TypeOK, Polling
  <2> QED BY <1>2, <2>1, <2>2 DEF Inv, RunnerInv
<1>5. FutureInv' /\ WakerInv'
  BY <1>2 DEF Inv, FutureInv, WakerInv, InPoll
<1>6. SnapshotStaysReady'
  BY <1>2 DEF Inv, SnapshotStaysReady, TypeOK
<1>7. NoLostWakeup'
  <2> SUFFICES ASSUME NEW u \in Scheduled, ~InPoll(u), WakeDue(u)'
               PROVE  state'[u] = TASK_READY
    BY <1>1 DEF NoLostWakeup, InPoll
  <2>1. u \in Task /\ (future[u] = "join" => awaited[u] \in Task)
    BY ScheduledTasks DEF Inv, FutureInv
  <2>2. WakeDue(u)
    BY <1>2, <2>1 DEF WakeDue, InPoll
  <2> QED BY <1>2, <2>1, <2>2 DEF Inv, NoLostWakeup
<1> QED BY <1>3, <1>4, <1>5, <1>6, <1>7 DEF Inv

\* An interrupt: it wakes a task suspended at the event; if the slot holds no
\* waker yet, the task is still being polled and will see the expired slot.
LEMMA SignalInv ==
    ASSUME Inv, TypeOK', NEW t \in Task, Signal(t)
    PROVE  Inv'
<1> USE Distinct DEF program, block, source, runners
<1>1. Scheduled' = Scheduled
  BY SameList DEF Signal
<1>2. /\ event[t] # "none" /\ future[t] = "event" /\ state[t] # TASK_TERMINATED
      /\ event_waker[t] \/ InPoll(t)
  BY DEF Signal, Inv, EventInv, FutureInv
<1>3. /\ \A u \in Task : u # t => state'[u] = state[u] /\ event'[u] = event[u]
      /\ state'[t] = state[t] \/ state'[t] = TASK_READY
      /\ event_waker[t] => state'[t] = TASK_READY
      /\ event'[t] = "expired"
      /\ \A u \in Task : state'[u] = TASK_TERMINATED <=> state[u] = TASK_TERMINATED
      /\ UNCHANGED <<program, completion_waker, exit, block, event_waker, runners>>
  BY <1>2 DEF Signal, Inv, TypeOK, wake_by_ref
<1>4. ListInv' /\ NoFault'
  BY <1>1, <1>3 DEF Inv, ListInv, NoFault
<1>5. EventInv'
  BY <1>2, <1>3 DEF Inv, EventInv, InPoll
<1>6. RunnerInv'
  <2>1. \A r \in Runner : pc[r] = "register" =>
            /\ future[cur[r]] = "join" /\ cur[r] \in Task
            /\ awaited[cur[r]] \in Task
    BY DEF Inv, RunnerInv, FutureInv, TypeOK, Polling
  <2>2. \A r \in Runner : pc[r] = "notify" => cur[r] \in Task
    BY DEF Inv, RunnerInv, TypeOK, Polling
  <2> QED BY <1>3, <2>1, <2>2 DEF Inv, RunnerInv
<1>7. FutureInv' /\ WakerInv'
  BY <1>3 DEF Inv, FutureInv, WakerInv, InPoll
<1>8. SnapshotStaysReady'
  BY <1>3 DEF Inv, SnapshotStaysReady, TypeOK
<1>9. NoLostWakeup'
  <2> SUFFICES ASSUME NEW u \in Scheduled, ~InPoll(u), WakeDue(u)'
               PROVE  state'[u] = TASK_READY
    BY <1>1, <1>3 DEF NoLostWakeup, InPoll
  <2>1. u \in Task /\ (future[u] = "join" => awaited[u] \in Task)
    BY ScheduledTasks DEF Inv, FutureInv
  <2>2. CASE u = t
    BY <1>2, <1>3, <2>2
  <2>3. CASE u # t
    <3>1. WakeDue(u)
      BY <1>3, <2>1, <2>3 DEF WakeDue, InPoll
    <3> QED BY <1>3, <2>1, <2>3, <3>1 DEF Inv, NoLostWakeup
  <2> QED BY <2>2, <2>3
<1> QED BY <1>4, <1>5, <1>6, <1>7, <1>8, <1>9 DEF Inv

\* The loop of run() moves between two polls, and does not touch a TCB.
LEMMA TurnInv ==
    ASSUME Inv, TypeOK', Disciplined, NEW r \in Runner,
           pc[r] \notin Polling, pc'[r] \notin Polling,
           ready'[r] \subseteq Scheduled,
           \A t \in ready'[r] : state[t] = TASK_READY /\ future[t] # "done",
           UNCHANGED <<program, tcb, source, cur>>
    PROVE  Inv'
<1> USE Distinct DEF program, tcb, block, source
<1>1. Scheduled' = Scheduled
  BY SameList
<1>2. (\A s \in Runner : s = r) /\ cur[r] = None
  BY DEF Inv, RunnerInv, Disciplined
<1>3. ListInv'
  BY <1>1, <1>2 DEF Inv, ListInv
<1>4. RunnerInv'
  BY <1>1, <1>2, ScheduledTasks DEF Inv, RunnerInv, Polling
<1>5. FutureInv'
  BY <1>2 DEF Inv, FutureInv, InPoll, Polling
<1>6. WakerInv' /\ EventInv' /\ NoFault'
  BY DEF Inv, WakerInv, EventInv, InPoll, NoFault
<1>7. SnapshotStaysReady'
  BY <1>2 DEF SnapshotStaysReady
<1>8. NoLostWakeup'
  BY <1>1 DEF Inv, NoLostWakeup, WakeDue, InPoll
<1> QED BY <1>3, <1>4, <1>5, <1>6, <1>7, <1>8 DEF Inv

\* The steps of the loop: what CollectReady puts in the snapshot is ready, and
\* hence has not returned, because no do_poll is between its two stores.
LEMMA LoopInv ==
    ASSUME Inv, TypeOK', Disciplined, NEW r \in Runner,
           StartRun(r) \/ CheckTerminated(r) \/ CollectReady(r) \/ EndRound(r)
    PROVE  Inv'
<1>1. CASE Panic("uninitialized") \/ Panic("overflow")
  BY <1>1, FrameInv DEF Panic, NoFault
<1>2. \A t \in ready[r] : t \in Scheduled /\ state[t] = TASK_READY /\ future[t] # "done"
  BY DEF Inv, ListInv, SnapshotStaysReady
<1>3. CASE /\ Goto(r, "check") \/ Goto(r, "idle") \/ Goto(r, "collect")
           /\ pc[r] \in {"idle", "check", "next"}
           /\ UNCHANGED <<program, tcb, source, ready, cur>>
  <2>1. pc[r] \notin Polling /\ pc'[r] \notin Polling
    BY <1>3 DEF Inv, TypeOK, Goto, Polling
  <2> QED BY <1>2, <1>3, <2>1, TurnInv
<1>4. CASE /\ pc[r] = "collect"
           /\ ready' = [ready EXCEPT ![r] = ReadyTasks]
           /\ Goto(r, "next")
           /\ UNCHANGED <<program, tcb, source, cur>>
  <2>1. pc[r] \notin Polling /\ pc'[r] \notin Polling /\ ready'[r] = ReadyTasks
    BY <1>4 DEF Inv, TypeOK, Goto, Polling
  <2>2. ASSUME NEW t \in ReadyTasks
        PROVE  t \in Scheduled /\ state[t] = TASK_READY /\ future[t] # "done"
    <3>1. t \in Scheduled /\ t \in Task /\ state[t] = TASK_READY
      BY ScheduledTasks DEF Inv, ReadyTasks
    <3>2. \A s \in Runner : pc[s] = "collect"
      BY <1>4 DEF Disciplined
    <3> QED BY <3>1, <3>2, Distinct DEF Inv, FutureInv
  <2> QED BY <1>4, <2>1, <2>2, TurnInv
<1> QED BY <1>1, <1>3, <1>4 DEF StartRun, CheckTerminated, CollectReady, EndRound

\* do_poll stores the pending flag: the task leaves the snapshot, it had not
\* returned, and a wakeup from now on is not overwritten.
LEMMA SignalPendingInv ==
    ASSUME Inv, TypeOK', Disciplined, NEW r \in Runner, SignalPending(r)
    PROVE  Inv'
<1> USE Distinct DEF program, block, source
<1>1. PICK i \in DOMAIN tasks :
          /\ tasks[i] \in ready[r]
          /\ state' = [state EXCEPT ![tasks[i]] = TASK_PENDING]
          /\ cur' = [cur EXCEPT ![r] = tasks[i]]
          /\ ready' = [ready EXCEPT ![r] = @ \ {tasks[i]}]
  BY DEF SignalPending
<1>2. PICK u \in Task : u = tasks[i]
  BY DEF Inv, TypeOK
<1>3. /\ pc[r] = "next" /\ pc' = [pc EXCEPT ![r] = "poll"]
      /\ UNCHANGED <<program, completion_waker, exit, block, source>>
  BY DEF SignalPending, Goto
<1>4. (\A s \in Runner : s = r) /\ Scheduled' = Scheduled
  BY <1>3, SameList DEF Disciplined
<1>5. /\ u \in ready[r] /\ state[u] = TASK_READY /\ future[u] # "done"
      /\ cur[r] = None /\ cur'[r] = u /\ ready'[r] = ready[r] \ {u} /\ pc'[r] = "poll"
      /\ u \in Scheduled
  <2>1. /\ u \in ready[r] /\ cur[r] = None
        /\ state[u] = TASK_READY /\ future[u] # "done" /\ u \in Scheduled
    BY <1>1, <1>2, <1>3 DEF Inv, RunnerInv, SnapshotStaysReady, ListInv, Polling
  <2>2. cur'[r] = u /\ ready'[r] = ready[r] \ {u} /\ pc'[r] = "poll"
    BY <1>1, <1>2, <1>3 DEF Inv, TypeOK
  <2> QED BY <2>1, <2>2
<1>6. /\ state'[u] = TASK_PENDING
      /\ \A t \in Task : t # u => state'[t] = state[t]
      /\ \A t \in Task : state'[t] = TASK_TERMINATED <=> state[t] = TASK_TERMINATED
  BY <1>1, <1>2, <1>5 DEF Inv, TypeOK
<1>7. ListInv'
  BY <1>3, <1>4, <1>5 DEF Inv, ListInv
<1>8. RunnerInv'
  <2>1. future[u] \in {"start", "defer", "join", "event"}
    BY <1>4, <1>5 DEF Inv, TypeOK, FutureInv, InPoll, Suspensions
  <2> QED BY <1>3, <1>4, <1>5, <2>1 DEF RunnerInv, Polling
<1>9. FutureInv'
  BY <1>3, <1>4, <1>5, <1>6 DEF Inv, FutureInv, InPoll
<1>10. WakerInv'
  BY <1>3, <1>4, <1>5, <1>6 DEF Inv, WakerInv, InPoll
<1>11. EventInv' /\ NoFault'
  BY <1>3, <1>4, <1>5 DEF Inv, EventInv, InPoll, NoFault
<1>12. SnapshotStaysReady'
  BY <1>3, <1>4, <1>5, <1>6 DEF Inv, SnapshotStaysReady, TypeOK
<1>13. NoLostWakeup'
  <2> SUFFICES ASSUME NEW t \in Scheduled, ~InPoll(t)', WakeDue(t)'
               PROVE  state'[t] = TASK_READY
    BY <1>4 DEF NoLostWakeup
  <2>1. t \in Task /\ (future[t] = "join" => awaited[t] \in Task)
    BY ScheduledTasks DEF Inv, FutureInv
  <2>2. t # u /\ ~InPoll(t)
    BY <1>4, <1>5, <2>1 DEF InPoll
  <2>3. WakeDue(t)
    BY <1>3, <1>4, <1>5, <1>6, <2>1 DEF WakeDue, InPoll
  <2> QED BY <1>6, <2>1, <2>2, <2>3 DEF Inv, NoLostWakeup
<1> QED BY <1>7, <1>8, <1>9, <1>10, <1>11, <1>12, <1>13 DEF Inv

\* While the only runner polls a task, that task is known to the invariant.
LEMMA Polled ==
    ASSUME Inv, Disciplined, NEW r \in Runner, pc[r] \in Polling
    PROVE  /\ \A s \in Runner : s = r
           /\ cur[r] \in Task /\ cur[r] \in Scheduled /\ cur[r] \notin ready[r]
BY DEF Inv, Disciplined, TypeOK, RunnerInv, ListInv

\* do_poll stores the exit value: nothing else changes.
LEMMA SetExitInv ==
    ASSUME Inv, TypeOK', Disciplined, NEW r \in Runner, SetExit(r)
    PROVE  Inv'
<1> DEFINE c == cur[r]
<1> USE Distinct DEF program, block, source
<1>1. /\ pc[r] = "ready" /\ pc' = [pc EXCEPT ![r] = "exited"]
      /\ exit' = [exit EXCEPT ![c] = TRUE]
      /\ UNCHANGED <<program, state, completion_waker, block, source, ready, cur>>
  BY DEF SetExit, Goto
<1>2. (\A s \in Runner : s = r) /\ c \in Task /\ c \in Scheduled
  BY <1>1, Polled DEF Polling
<1>3. /\ pc'[r] = "exited" /\ exit'[c]
      /\ \A t \in Task : exit[t] => exit'[t]
  BY <1>1, <1>2 DEF Inv, TypeOK
<1>4. Scheduled' = Scheduled
  BY <1>1, SameList
<1>5. ListInv'
  BY <1>1, <1>4 DEF Inv, ListInv
<1>6. RunnerInv'
  BY <1>1, <1>2, <1>3 DEF Inv, RunnerInv, Polling
<1>7. FutureInv'
  BY <1>1, <1>2, <1>3 DEF Inv, FutureInv, InPoll
<1>8. WakerInv' /\ EventInv' /\ NoFault'
  BY <1>1 DEF Inv, WakerInv, EventInv, InPoll, NoFault
<1>9. SnapshotStaysReady' /\ NoLostWakeup'
  BY <1>1, <1>4 DEF Inv, SnapshotStaysReady, NoLostWakeup, WakeDue, InPoll
<1> QED BY <1>5, <1>6, <1>7, <1>8, <1>9 DEF Inv

\* do_poll stores the terminated flag: the exit value is in its cell, and the
\* awaiter of the task is not due before do_poll has called its waker.
LEMMA SignalTerminatedInv ==
    ASSUME Inv, TypeOK', Disciplined, NEW r \in Runner, SignalTerminated(r)
    PROVE  Inv'
<1> DEFINE c == cur[r]
<1> USE Distinct DEF program, block, source
<1>1. /\ pc[r] = "exited" /\ pc' = [pc EXCEPT ![r] = "notify"]
      /\ state' = [state EXCEPT ![c] = TASK_TERMINATED]
      /\ UNCHANGED <<program, completion_waker, exit, block, source, ready, cur>>
  BY DEF SignalTerminated, Goto
<1>2. (\A s \in Runner : s = r) /\ c \in Task /\ c \in Scheduled /\ c \notin ready[r]
  BY <1>1, Polled DEF Polling
<1>3. /\ pc'[r] = "notify" /\ state'[c] = TASK_TERMINATED
      /\ \A t \in Task : t # c => state'[t] = state[t]
  BY <1>1, <1>2 DEF Inv, TypeOK
<1>4. future[c] = "done" /\ exit[c]
  BY <1>1 DEF Inv, RunnerInv
<1>5. Scheduled' = Scheduled
  BY <1>1, SameList
<1>6. ListInv' /\ EventInv' /\ NoFault'
  BY <1>1, <1>5 DEF Inv, ListInv, EventInv, InPoll, NoFault
<1>7. RunnerInv'
  BY <1>1, <1>2, <1>3, <1>4 DEF Inv, RunnerInv, Polling
<1>8. FutureInv'
  BY <1>1, <1>2, <1>3, <1>4 DEF Inv, FutureInv, InPoll
<1>9. WakerInv'
  BY <1>1, <1>2, <1>3 DEF Inv, WakerInv, InPoll
<1>10. SnapshotStaysReady'
  BY <1>1, <1>2, <1>3 DEF Inv, SnapshotStaysReady, TypeOK
<1>11. NoLostWakeup'
  <2> SUFFICES ASSUME NEW t \in Scheduled, ~InPoll(t), WakeDue(t)'
               PROVE  state'[t] = TASK_READY
    BY <1>1, <1>5 DEF NoLostWakeup, InPoll
  <2>1. t \in Task /\ t # c /\ (future[t] = "join" => awaited[t] \in Task)
    BY ScheduledTasks DEF Inv, FutureInv, InPoll
  <2>2. WakeDue(t)
    BY <1>1, <1>2, <1>3, <2>1 DEF WakeDue, InPoll
  <2> QED BY <1>3, <2>1, <2>2 DEF Inv, NoLostWakeup
<1> QED BY <1>6, <1>7, <1>8, <1>9, <1>10, <1>11 DEF Inv

\* do_poll calls the completion waker: it belongs to the task that awaits this
\* one, so it is not stored over the flag of a task that has terminated.
LEMMA WakeCompletionInv ==
    ASSUME Inv, TypeOK', Disciplined, NEW r \in Runner, WakeCompletion(r)
    PROVE  Inv'
<1> DEFINE c == cur[r]
           w == completion_waker[c]
<1> USE Distinct DEF program, block, source
<1>1. /\ pc[r] = "notify" /\ pc' = [pc EXCEPT ![r] = "next"]
      /\ cur' = [cur EXCEPT ![r] = None]
      /\ state' = IF w = None THEN state ELSE [state EXCEPT ![w] = TASK_READY]
      /\ UNCHANGED <<program, completion_waker, exit, block, source, ready>>
  BY DEF WakeCompletion, DoneWith, Goto, wake_by_ref
<1>2. (\A s \in Runner : s = r) /\ c \in Task /\ c \in Scheduled
  BY <1>1, Polled DEF Polling
<1>3. pc'[r] = "next" /\ cur'[r] = None
  BY <1>1 DEF Inv, TypeOK
<1>4. future[c] = "done" /\ state[c] = TASK_TERMINATED
  BY <1>1 DEF Inv, RunnerInv
<1>5. w # None => w \in Task /\ future[w] = "join" /\ awaited[w] = c
  BY <1>2 DEF Inv, WakerInv, TypeOK, InPoll
<1>6. /\ \A t \in Task : t # w => state'[t] = state[t]
      /\ w # None => state[w] # TASK_TERMINATED /\ state'[w] = TASK_READY
      /\ \A t \in Task : state'[t] = TASK_TERMINATED <=> state[t] = TASK_TERMINATED
  <2>1. CASE w = None
    BY <1>1, <2>1
  <2>2. CASE w # None
    <3>1. w \in Task /\ state[w] # TASK_TERMINATED
      BY <1>5, <2>2 DEF Inv, FutureInv
    <3> QED BY <1>1, <2>2, <3>1 DEF Inv, TypeOK
  <2> QED BY <2>1, <2>2
<1>7. Scheduled' = Scheduled
  BY <1>1, SameList
<1>8. ListInv' /\ NoFault'
  BY <1>1, <1>2, <1>3, <1>7 DEF Inv, ListInv, NoFault
<1>9. RunnerInv'
  <2>1. None \notin ready[r]
    BY DEF Inv, TypeOK
  <2> QED BY <1>1, <1>2, <1>3, <2>1 DEF RunnerInv, Polling
<1>10. FutureInv'
  BY <1>1, <1>2, <1>3, <1>4, <1>6 DEF Inv, FutureInv, InPoll
<1>11. WakerInv'
  BY <1>1, <1>2, <1>3, <1>4, <1>6 DEF Inv, WakerInv, InPoll
<1>12. EventInv'
  BY <1>1, <1>2, <1>3, <1>4 DEF Inv, EventInv, InPoll
<1>13. SnapshotStaysReady'
  BY <1>1, <1>6 DEF Inv, SnapshotStaysReady, TypeOK
<1>14. NoLostWakeup'
  <2> SUFFICES ASSUME NEW t \in Scheduled, WakeDue(t)'
               PROVE  state'[t] = TASK_READY
    BY <1>7 DEF NoLostWakeup
  <2>1. t \in Task /\ (future[t] = "join" => awaited[t] \in Task)
    BY ScheduledTasks DEF Inv, FutureInv
  <2>2. t # c /\ ~InPoll(t)
    BY <1>1, <1>2, <1>4 DEF WakeDue, InPoll
  <2>3. CASE future[t] = "join" /\ awaited[t] = c
    <3>1. w = t
      BY <2>1, <2>2, <2>3 DEF Inv, WakerInv
    <3> QED BY <1>6, <2>1, <3>1
  <2>4. CASE ~(future[t] = "join" /\ awaited[t] = c)
    <3>1. WakeDue(t)
      BY <1>1, <1>2, <1>6, <2>1, <2>4 DEF WakeDue, InPoll
    <3>2. state[t] = TASK_READY
      BY <2>2, <3>1 DEF Inv, NoLostWakeup
    <3> QED BY <1>6, <2>1, <3>2
  <2> QED BY <2>3, <2>4
<1> QED BY <1>8, <1>9, <1>10, <1>11, <1>12, <1>13, <1>14 DEF Inv

\* The polled block moves on inside its poll: the flags, the waker cells and the
\* other blocks stay, and no waker that will still be called belongs to it.
LEMMA BlockInv ==
    ASSUME Inv, TypeOK', Disciplined, NEW r \in Runner, NEW c \in Task, c = cur[r],
           pc[r] \in Polling, pc'[r] \in {"user", "poll", "ready"},
           pc'[r] = "user" => future'[c] = "active",
           pc'[r] = "poll" => future'[c] \in {"join", "event"},
           pc'[r] = "ready" => future'[c] = "done",
           future[c] # "done",
           \A t \in Task : t # c => future'[t] = future[t] /\ awaited'[t] = awaited[t],
           IF future'[c] = "join" THEN awaited'[c] \in Task /\ owner'[awaited'[c]] = c
                                  ELSE awaited'[c] = None,
           \A t \in Task : future[t] = "join" /\ t # c => owner'[awaited[t]] = t,
           \A t \in Task : owner'[t] = owner[t] \/ t \in Scheduled,
           \A t \in Task : t # c => event'[t] = event[t] /\ event_waker'[t] = event_waker[t],
           event'[c] # "none" <=> future'[c] = "event",
           event_waker'[c] => event'[c] # "none",
           \A u \in Task : completion_waker[u] = c =>
               state[u] = TASK_TERMINATED /\ ~InPoll(u),
           UNCHANGED <<tasks, outcome, panic, state, completion_waker, exit, ready, cur>>
    PROVE  Inv'
<1> USE Distinct
<1>1. (\A s \in Runner : s = r) /\ c \in Scheduled /\ c \notin ready[r]
  BY Polled
<1>2. Scheduled' = Scheduled
  BY SameList
<1>3. state[c] # TASK_TERMINATED
  BY DEF Inv, FutureInv
<1>4. ListInv' /\ NoFault'
  BY <1>1, <1>2 DEF Inv, ListInv, NoFault
<1>5. RunnerInv'
  BY <1>1 DEF Inv, RunnerInv, Polling
<1>6. FutureInv'
  BY <1>1, <1>3 DEF Inv, FutureInv, InPoll
<1>7. WakerInv'
  BY <1>1 DEF Inv, WakerInv, InPoll, TypeOK
<1>8. EventInv'
  BY <1>1 DEF Inv, EventInv, InPoll
<1>9. SnapshotStaysReady'
  BY <1>1 DEF Inv, SnapshotStaysReady, TypeOK
<1>10. NoLostWakeup'
  <2> SUFFICES ASSUME NEW t \in Scheduled, ~InPoll(t), WakeDue(t)'
               PROVE  state[t] = TASK_READY
    BY <1>2 DEF NoLostWakeup, InPoll
  <2>1. t \in Task /\ t # c
    BY ScheduledTasks DEF Inv, InPoll
  <2>2. WakeDue(t)
    BY <2>1 DEF WakeDue, InPoll
  <2> QED BY <2>2 DEF Inv, NoLostWakeup
<1> QED BY <1>4, <1>5, <1>6, <1>7, <1>8, <1>9, <1>10 DEF Inv

\* No live waker belongs to a polled block unless it awaits a handle.
LEMMA NoLiveWaker ==
    ASSUME Inv, NEW c \in Task, future[c] # "join", NEW u \in Task, completion_waker[u] = c
    PROVE  state[u] = TASK_TERMINATED /\ ~InPoll(u)
BY Distinct DEF Inv, WakerInv

\* The first poll of a block, or the one after defer().
LEMMA PollResumeInv ==
    ASSUME Inv, TypeOK', Disciplined, NEW r \in Runner, PollResume(r)
    PROVE  Inv'
<1> DEFINE c == cur[r]
<1> USE Distinct DEF program, source
<1>1. /\ pc[r] = "poll" /\ pc' = [pc EXCEPT ![r] = "user"]
      /\ future[c] \in {"start", "defer"}
      /\ future' = [future EXCEPT ![c] = "active"]
      /\ awaited' = [awaited EXCEPT ![c] = None]
      /\ UNCHANGED <<program, state, completion_waker, exit, fuel, source, ready, cur>>
  BY DEF PollResume, Resume, Goto
<1>2. c \in Task /\ c \in Scheduled /\ pc[r] \in Polling
  BY <1>1, Polled DEF Polling
<1>3. /\ pc'[r] = "user" /\ future'[c] = "active" /\ awaited'[c] = None
      /\ \A t \in Task : t # c => future'[t] = future[t] /\ awaited'[t] = awaited[t]
  BY <1>1, <1>2 DEF Inv, TypeOK
<1>4. event[c] = "none" /\ ~event_waker[c]
  BY <1>1, <1>2 DEF Inv, EventInv
<1>5. \A t \in Task : future[t] = "join" => owner'[awaited[t]] = t
  BY <1>1 DEF Inv, FutureInv
<1>6. \A u \in Task : completion_waker[u] = c => state[u] = TASK_TERMINATED /\ ~InPoll(u)
  BY <1>1, <1>2, NoLiveWaker
<1> QED
  <2> HIDE DEF c
  <2> QED BY <1>1, <1>2, <1>3, <1>4, <1>5, <1>6, BlockInv DEF c

\* A finished block is not polled again.
LEMMA PollDoneImpossible ==
    ASSUME Inv, NEW r \in Runner, PollDone(r)
    PROVE  FALSE
BY DEF PollDone, Inv, RunnerInv

\* JoinHandle::poll: the exit value of a terminated task is there; while the task
\* runs only this awaiter may register, because it owns the handle.
LEMMA PollJoinInv ==
    ASSUME Inv, TypeOK', Disciplined, NEW r \in Runner, PollJoin(r)
    PROVE  Inv'
<1> DEFINE c == cur[r]
           u == awaited[c]
<1> USE Distinct DEF program, tcb, block, source
<1>1. pc[r] = "poll" /\ future[c] = "join"
  BY DEF PollJoin
<1>2. /\ \A s \in Runner : s = r
      /\ c \in Task /\ c \in Scheduled /\ pc[r] \in Polling
  BY <1>1, Polled DEF Polling
<1>3. /\ u \in Task /\ owner[u] = c
      /\ state[u] = TASK_TERMINATED => exit[u] /\ u # c
  BY <1>1, <1>2 DEF Inv, FutureInv
<1>4. CASE /\ state[u] # TASK_TERMINATED
           /\ Goto(r, "register")
           /\ UNCHANGED <<program, tcb, source, ready, cur>>
  <2>1. pc'[r] = "register" /\ Scheduled' = Scheduled
    BY <1>4, SameList DEF Goto, Inv, TypeOK
  <2>2. RunnerInv'
    BY <1>1, <1>2, <1>4, <2>1 DEF Inv, RunnerInv, Polling
  <2>3. FutureInv'
    BY <1>1, <1>2, <1>4 DEF Inv, FutureInv, InPoll
  <2>4. ListInv' /\ WakerInv' /\ EventInv' /\ NoFault'
    BY <1>4, <2>1 DEF Inv, ListInv, WakerInv, EventInv, NoFault, InPoll
  <2>5. SnapshotStaysReady' /\ NoLostWakeup'
    BY <1>4, <2>1 DEF Inv, SnapshotStaysReady, NoLostWakeup, WakeDue, InPoll
  <2> QED BY <2>2, <2>3, <2>4, <2>5 DEF Inv
<1>5. CASE /\ state[u] = TASK_TERMINATED
           /\ Resume(r, c)
           /\ owner' = [owner EXCEPT ![u] = None]
           /\ UNCHANGED <<executor, tasks, outcome, joined, panic, state,
                          completion_waker, exit, fuel, source>>
  <2>1. /\ pc'[r] = "user" /\ future'[c] = "active" /\ awaited'[c] = None
        /\ \A t \in Task : t # c => future'[t] = future[t] /\ awaited'[t] = awaited[t]
        /\ UNCHANGED <<ready, cur>>
    BY <1>2, <1>5 DEF Inv, TypeOK, Resume, Goto
  <2>2. event[c] = "none" /\ ~event_waker[c]
    BY <1>1, <1>2 DEF Inv, EventInv
  <2>3. u \in Scheduled /\ \A t \in Task : t # u => owner'[t] = owner[t]
    BY <1>3, <1>5, <1>2 DEF Inv, ListInv, TypeOK
  <2>4. \A t \in Task : future[t] = "join" /\ t # c => owner'[awaited[t]] = t
    BY <1>3, <2>3 DEF Inv, FutureInv
  <2>5. \A x \in Task : completion_waker[x] = c => state[x] = TASK_TERMINATED /\ ~InPoll(x)
    BY <1>2, <1>3, <1>5 DEF Inv, WakerInv, InPoll
  <2> QED
    <3> HIDE DEF c, u
    <3> QED BY <1>1, <1>2, <1>5, <2>1, <2>2, <2>3, <2>4, <2>5, BlockInv DEF c
<1> QED BY <1>3, <1>4, <1>5 DEF PollJoin

\* JoinHandle::poll registers the waker and the poll returns: the awaited task
\* cannot have terminated since its flag was read, because do_poll runs here only.
LEMMA RegisterJoinInv ==
    ASSUME Inv, TypeOK', Disciplined, NEW r \in Runner, RegisterJoin(r)
    PROVE  Inv'
<1> DEFINE c == cur[r]
           u == awaited[c]
<1> USE Distinct DEF program, block, source
<1>1. /\ pc[r] = "register" /\ pc' = [pc EXCEPT ![r] = "next"]
      /\ cur' = [cur EXCEPT ![r] = None]
      /\ completion_waker' = [completion_waker EXCEPT ![u] = c]
      /\ UNCHANGED <<program, state, exit, block, source, ready>>
  BY DEF RegisterJoin, SetCompletionWaker, DoneWith, Goto
<1>2. (\A s \in Runner : s = r) /\ c \in Task /\ c \in Scheduled
  BY <1>1, Polled DEF Polling
<1>3. future[c] = "join" /\ u \in Task /\ owner[u] = c /\ state[u] # TASK_TERMINATED
  BY <1>1, <1>2 DEF Inv, RunnerInv, FutureInv
<1>4. /\ pc'[r] = "next" /\ cur'[r] = None /\ completion_waker'[u] = c
      /\ \A t \in Task : t # u => completion_waker'[t] = completion_waker[t]
  BY <1>1, <1>3 DEF Inv, TypeOK
<1>5. Scheduled' = Scheduled
  BY <1>1, SameList
<1>6. ListInv' /\ NoFault'
  BY <1>1, <1>2, <1>4, <1>5 DEF Inv, ListInv, NoFault
<1>7. RunnerInv'
  <2>1. None \notin ready[r]
    BY DEF Inv, TypeOK
  <2> QED BY <1>1, <1>2, <1>4, <2>1 DEF RunnerInv, Polling
<1>8. FutureInv'
  BY <1>1, <1>2, <1>3, <1>4 DEF Inv, FutureInv, InPoll
<1>9. WakerInv'
  <2>1. \A t \in Task : future[t] = "join" /\ awaited[t] = u => t = c
    BY <1>3 DEF Inv, FutureInv
  <2>2. \A t \in Task : future[t] = "join" => awaited[t] \in Task
    BY DEF Inv, FutureInv
  <2> QED BY <1>1, <1>2, <1>3, <1>4, <2>1, <2>2 DEF Inv, WakerInv, InPoll
<1>10. EventInv'
  BY <1>1, <1>2, <1>3, <1>4 DEF Inv, EventInv, InPoll
<1>11. SnapshotStaysReady'
  BY <1>1 DEF Inv, SnapshotStaysReady
<1>12. NoLostWakeup'
  <2> SUFFICES ASSUME NEW t \in Scheduled, WakeDue(t)'
               PROVE  state[t] = TASK_READY
    BY <1>1, <1>5 DEF NoLostWakeup
  <2>1. t \in Task /\ (future[t] = "join" => awaited[t] \in Task)
    BY ScheduledTasks DEF Inv, FutureInv
  <2>2. t # c
    BY <1>1, <1>3 DEF WakeDue
  <2>3. ~InPoll(t)
    BY <1>2, <2>2 DEF InPoll
  <2>4. CASE future[t] = "join" /\ awaited[t] = c
    <3>1. state[c] # TASK_TERMINATED
      BY <1>2, <1>3 DEF Inv, FutureInv
    <3> QED BY <1>1, <2>4, <3>1 DEF WakeDue
  <2>5. CASE ~(future[t] = "join" /\ awaited[t] = c)
    <3>1. WakeDue(t)
      BY <1>1, <1>2, <2>1, <2>5 DEF WakeDue, InPoll
    <3> QED BY <2>3, <3>1 DEF Inv, NoLostWakeup
  <2> QED BY <2>4, <2>5
<1> QED BY <1>6, <1>7, <1>8, <1>9, <1>10, <1>11, <1>12 DEF Inv

\* Delay::poll: an expired slot is freed, otherwise it holds the waker when the
\* poll returns, in one critical section with the test.
LEMMA PollEventInv ==
    ASSUME Inv, TypeOK', Disciplined, NEW r \in Runner, PollEvent(r)
    PROVE  Inv'
<1> DEFINE c == cur[r]
<1> USE Distinct DEF program
<1>1. /\ pc[r] = "poll" /\ future[c] = "event"
      /\ UNCHANGED <<program, state, completion_waker, exit, fuel>>
  BY DEF PollEvent
<1>2. /\ \A s \in Runner : s = r
      /\ c \in Task /\ c \in Scheduled /\ pc[r] \in Polling
  BY <1>1, Polled DEF Polling
<1>3. Scheduled' = Scheduled
  BY <1>1, SameList
<1>4. CASE FreeSlot(c) /\ Resume(r, c)
  <2>1. /\ pc'[r] = "user" /\ future'[c] = "active" /\ awaited'[c] = None
        /\ \A t \in Task : t # c => future'[t] = future[t] /\ awaited'[t] = awaited[t]
        /\ UNCHANGED <<ready, cur>>
    BY <1>2, <1>4 DEF Inv, TypeOK, Resume, Goto
  <2>2. /\ event'[c] = "none" /\ ~event_waker'[c]
        /\ \A t \in Task : t # c => event'[t] = event[t] /\ event_waker'[t] = event_waker[t]
    BY <1>2, <1>4 DEF Inv, TypeOK, FreeSlot
  <2>3. \A t \in Task : future[t] = "join" => owner'[awaited[t]] = t
    BY <1>1 DEF Inv, FutureInv
  <2>4. \A u \in Task : completion_waker[u] = c => state[u] = TASK_TERMINATED /\ ~InPoll(u)
    BY <1>1, <1>2, NoLiveWaker
  <2> QED
    <3> HIDE DEF c
    <3> QED BY <1>1, <1>2, <2>1, <2>2, <2>3, <2>4, BlockInv DEF c
<1>5. CASE /\ event[c] # "expired"
           /\ event_waker' = [event_waker EXCEPT ![c] = TRUE]
           /\ DoneWith(r)
           /\ UNCHANGED <<event, future, awaited>>
  <2>1. /\ pc'[r] = "next" /\ cur'[r] = None /\ event_waker'[c]
        /\ \A t \in Task : t # c => event_waker'[t] = event_waker[t]
        /\ ready' = ready
    BY <1>2, <1>5 DEF Inv, TypeOK, DoneWith, Goto
  <2>2. ListInv' /\ NoFault'
    BY <1>1, <1>2, <1>3, <1>5, <2>1 DEF Inv, ListInv, NoFault
  <2>3. RunnerInv'
    <3>1. None \notin ready[r]
      BY DEF Inv, TypeOK
    <3> QED BY <1>2, <2>1, <3>1 DEF RunnerInv, Polling
  <2>4. FutureInv' /\ WakerInv'
    BY <1>1, <1>2, <1>5, <2>1 DEF Inv, FutureInv, WakerInv, InPoll
  <2>5. EventInv'
    BY <1>1, <1>2, <1>5, <2>1 DEF Inv, EventInv, InPoll
  <2>6. SnapshotStaysReady'
    BY <1>1, <1>5, <2>1 DEF Inv, SnapshotStaysReady
  <2>7. NoLostWakeup'
    <3> SUFFICES ASSUME NEW t \in Scheduled, WakeDue(t)'
                 PROVE  state[t] = TASK_READY
      BY <1>1, <1>3 DEF NoLostWakeup
    <3>1. t \in Task /\ t # c /\ (future[t] = "join" => awaited[t] \in Task)
      BY <1>1, <1>5, ScheduledTasks DEF Inv, FutureInv, WakeDue
    <3>2. ~InPoll(t) /\ state[c] # TASK_TERMINATED
      BY <1>1, <1>2, <3>1 DEF Inv, FutureInv, InPoll
    <3>3. WakeDue(t)
      BY <1>1, <1>2, <1>5, <3>1, <3>2 DEF WakeDue, InPoll
    <3> QED BY <3>2, <3>3 DEF Inv, NoLostWakeup
  <2> QED BY <2>2, <2>3, <2>4, <2>5, <2>6, <2>7 DEF Inv
<1> QED BY <1>4, <1>5 DEF PollEvent, Disciplined

\* defer(): the block wakes its own task after do_poll has marked it pending, so
\* it is ready when the poll returns.
LEMMA UserDeferInv ==
    ASSUME Inv, TypeOK', Disciplined, NEW r \in Runner, UserDefer(r)
    PROVE  Inv'
<1> DEFINE c == cur[r]
<1> USE Distinct DEF program, source
<1>1. /\ pc[r] = "user" /\ pc' = [pc EXCEPT ![r] = "next"]
      /\ cur' = [cur EXCEPT ![r] = None]
      /\ future' = [future EXCEPT ![c] = "defer"]
      /\ state' = [state EXCEPT ![c] = TASK_READY]
      /\ UNCHANGED <<program, completion_waker, exit, awaited, source, ready>>
  BY DEF UserDefer, SelfWake, wake_by_ref, DoneWith, Goto
<1>2. (\A s \in Runner : s = r) /\ c \in Task /\ c \in Scheduled /\ c \notin ready[r]
  BY <1>1, Polled DEF Polling
<1>3. future[c] = "active" /\ awaited[c] = None /\ event[c] = "none"
  BY <1>1, <1>2 DEF Inv, RunnerInv, FutureInv, EventInv
<1>4. /\ pc'[r] = "next" /\ cur'[r] = None /\ future'[c] = "defer" /\ state'[c] = TASK_READY
      /\ \A t \in Task : t # c => future'[t] = future[t] /\ state'[t] = state[t]
      /\ \A t \in Task : state'[t] = TASK_TERMINATED <=> state[t] = TASK_TERMINATED
  BY <1>1, <1>2, <1>3 DEF Inv, TypeOK, FutureInv
<1>5. Scheduled' = Scheduled
  BY <1>1, SameList
<1>6. ListInv' /\ NoFault'
  BY <1>1, <1>2, <1>4, <1>5 DEF Inv, ListInv, NoFault
<1>7. RunnerInv'
  <2>1. None \notin ready[r]
    BY DEF Inv, TypeOK
  <2> QED BY <1>1, <1>2, <1>4, <2>1 DEF RunnerInv, Polling
<1>8. FutureInv'
  BY <1>1, <1>2, <1>3, <1>4 DEF Inv, FutureInv, InPoll
<1>9. WakerInv'
  <2>1. \A u \in Task : completion_waker[u] = c => state[u] = TASK_TERMINATED
    BY <1>2, <1>3, NoLiveWaker
  <2> QED BY <1>1, <1>2, <1>3, <1>4, <2>1 DEF Inv, WakerInv, InPoll, TypeOK
<1>10. EventInv'
  BY <1>1, <1>2, <1>3, <1>4 DEF Inv, EventInv, InPoll
<1>11. SnapshotStaysReady'
  BY <1>1, <1>2, <1>4 DEF Inv, SnapshotStaysReady, TypeOK
<1>12. NoLostWakeup'
  <2> SUFFICES ASSUME NEW t \in Scheduled, t # c, WakeDue(t)'
               PROVE  state'[t] = TASK_READY
    BY <1>4, <1>5 DEF NoLostWakeup
  <2>1. t \in Task /\ (future[t] = "join" => awaited[t] \in Task)
    BY ScheduledTasks DEF Inv, FutureInv
  <2>2. ~InPoll(t) /\ state[c] # TASK_TERMINATED
    BY <1>2, <1>3 DEF Inv, FutureInv, InPoll
  <2>3. WakeDue(t)
    BY <1>1, <1>2, <1>4, <2>1, <2>2 DEF WakeDue, InPoll
  <2> QED BY <1>4, <2>1, <2>2, <2>3 DEF Inv, NoLostWakeup
<1> QED BY <1>6, <1>7, <1>8, <1>9, <1>10, <1>11, <1>12 DEF Inv

\* A block starts to await: a handle that it owns, or an event in a free slot.
LEMMA UserAwaitInv ==
    ASSUME Inv, TypeOK', Disciplined, NEW r \in Runner,
           UserAwaitEvent(r) \/ \E t \in Task : UserAwaitJoin(r, t)
    PROVE  Inv'
<1> DEFINE c == cur[r]
<1> USE Distinct DEF program, source
<1>1. pc[r] = "user" /\ pc' = [pc EXCEPT ![r] = "poll"]
  BY DEF UserAwaitEvent, UserAwaitJoin, Goto
<1>2. c \in Task /\ c \in Scheduled /\ pc[r] \in Polling
  BY <1>1, Polled DEF Polling
<1>3. /\ future[c] = "active" /\ awaited[c] = None
      /\ event[c] = "none" /\ ~event_waker[c] /\ pc'[r] = "poll"
  BY <1>1, <1>2 DEF Inv, RunnerInv, FutureInv, EventInv, TypeOK
<1>4. \A u \in Task : completion_waker[u] = c => state[u] = TASK_TERMINATED /\ ~InPoll(u)
  BY <1>2, <1>3, NoLiveWaker
<1>5. \A t \in Task : future[t] = "join" => owner[awaited[t]] = t
  BY DEF Inv, FutureInv
<1>6. ASSUME NEW u \in Task, UserAwaitJoin(r, u) PROVE Inv'
  <2>1. /\ owner[u] = c /\ future'[c] = "join" /\ awaited'[c] = u
        /\ \A t \in Task : t # c => future'[t] = future[t] /\ awaited'[t] = awaited[t]
        /\ UNCHANGED <<program, state, completion_waker, exit, source, ready, cur>>
    BY <1>2, <1>6 DEF UserAwaitJoin, Inv, TypeOK
  <2> QED
    <3> HIDE DEF c
    <3> QED BY <1>2, <1>3, <1>4, <1>5, <2>1, BlockInv DEF c
<1>7. CASE UserAwaitEvent(r)
  <2>1. /\ future'[c] = "event" /\ event'[c] = "armed"
        /\ \A t \in Task : t # c => future'[t] = future[t] /\ event'[t] = event[t]
        /\ UNCHANGED <<program, state, completion_waker, exit, awaited, event_waker, ready,
                       cur>>
    BY <1>2, <1>7 DEF UserAwaitEvent, Inv, TypeOK
  <2> QED
    <3> HIDE DEF c
    <3> QED BY <1>2, <1>3, <1>4, <1>5, <2>1, BlockInv DEF c
<1> QED BY <1>6, <1>7

\* The block returns Ready.
LEMMA UserReturnInv ==
    ASSUME Inv, TypeOK', Disciplined, NEW r \in Runner, UserReturn(r)
    PROVE  Inv'
<1> DEFINE c == cur[r]
<1> USE Distinct DEF program, source
<1>1. pc[r] = "user" /\ pc' = [pc EXCEPT ![r] = "ready"]
  BY DEF UserReturn, Goto
<1>2. c \in Task /\ c \in Scheduled /\ pc[r] \in Polling
  BY <1>1, Polled DEF Polling
<1>3. /\ future[c] = "active" /\ awaited[c] = None
      /\ event[c] = "none" /\ ~event_waker[c] /\ pc'[r] = "ready"
  BY <1>1, <1>2 DEF Inv, RunnerInv, FutureInv, EventInv, TypeOK
<1>4. \A u \in Task : completion_waker[u] = c => state[u] = TASK_TERMINATED /\ ~InPoll(u)
  BY <1>2, <1>3, NoLiveWaker
<1>5. \A t \in Task : future[t] = "join" => owner[awaited[t]] = t
  BY DEF Inv, FutureInv
<1>6. /\ future'[c] = "done"
      /\ \A t \in Task : t # c => future'[t] = future[t]
      /\ UNCHANGED <<program, state, completion_waker, exit, awaited, source, ready, cur>>
  BY <1>2 DEF UserReturn, Inv, TypeOK
<1> QED
  <2> HIDE DEF c
  <2> QED BY <1>2, <1>3, <1>4, <1>5, <1>6, BlockInv DEF c

\* Every step of a runner keeps the invariant.
LEMMA RunnerStepInv ==
    ASSUME Inv, Disciplined, NEW r \in Runner, RunnerStep(r)
    PROVE  Inv'
<1>1. TypeOK'
  BY RunnerStepType, ConstantsAssumption DEF Inv
<1>2. ASSUME NEW t \in Task, UserSpawn(r, t) PROVE Inv'
  <2>1. cur[r] \in Task \cup {Main, None}
    BY DEF Inv, TypeOK
  <2> QED BY <1>1, <1>2, <2>1, SpawnInv DEF UserSpawn
<1>3. ~DropJoin(r)
  BY DEF DropJoin, Disciplined
<1> QED
  BY <1>1, <1>2, <1>3, LoopInv, SignalPendingInv, SetExitInv, SignalTerminatedInv,
     WakeCompletionInv, PollResumeInv, PollDoneImpossible, PollJoinInv, RegisterJoinInv,
     PollEventInv, UserDeferInv, UserAwaitInv, UserReturnInv DEF RunnerStep

\* Every step of the system keeps the invariant.
LEMMA NextInv ==
    ASSUME Inv, Disciplined, [Next]_vars
    PROVE  Inv'
<1>1. TypeOK'
  BY NextType DEF Inv
<1>2. CASE init_executor
  BY <1>1, <1>2, FrameInv DEF init_executor, Inv, NoFault
<1>3. ASSUME NEW t \in Task, MainSpawn(t) PROVE Inv'
  BY <1>1, <1>3, SpawnInv DEF MainSpawn
<1>4. ASSUME NEW t \in Task, Join(t) PROVE Inv'
  <2>1. exit[t] /\ ExitSeen(t) = {exit[t]}
    BY <1>4 DEF Join, Disciplined, ExitSeen, Inv, FutureInv
  <2> QED BY <1>1, <1>4, <2>1, FrameInv DEF Join, Inv, NoFault
<1>5. ASSUME NEW t \in Task, SpuriousWake(t) PROVE Inv'
  BY <1>1, <1>5, WakeInv DEF SpuriousWake, Disciplined
<1>6. ASSUME NEW t \in Task, Signal(t) PROVE Inv'
  BY <1>1, <1>6, SignalInv
<1>7. ASSUME NEW r \in Runner, RunnerStep(r) PROVE Inv'
  BY <1>7, RunnerStepInv
<1>8. CASE UNCHANGED vars
  BY <1>1, <1>8, FrameInv DEF vars, program, Inv, NoFault
<1> QED BY <1>2, <1>3, <1>4, <1>5, <1>6, <1>7, <1>8 DEF Next

\* The initial state satisfies the invariant.
LEMMA InitInv == Init => Inv
<1> SUFFICES ASSUME Init PROVE Inv
  OBVIOUS
<1> USE Distinct DEF Init
<1>1. TypeOK
  BY InitType
<1>2. Scheduled = {}
  BY DEF Scheduled
<1>3. ListInv /\ RunnerInv
  BY <1>2 DEF ListInv, RunnerInv, Polling
<1>4. FutureInv /\ WakerInv /\ EventInv
  BY DEF FutureInv, WakerInv, EventInv, InPoll
<1>5. SnapshotStaysReady /\ NoLostWakeup /\ NoFault
  BY <1>2 DEF SnapshotStaysReady, NoLostWakeup, NoFault
<1> QED BY <1>1, <1>3, <1>4, <1>5 DEF Inv

\* With one runner, no dropped future, no waker that outlives its task and ordered
\* stores, the inductive invariant holds: in particular no wakeup is lost between the stores of do_poll, of
\* JoinHandle::poll and of the interrupts, whatever the tasks do.
THEOREM InvariantHolds ==
    ASSUME Disciplined
    PROVE  Spec => []Inv
<1>1. Inv /\ [Next]_vars => Inv'
  BY NextInv
<1> QED BY <1>1, InitInv, PTL DEF Spec

\* No wakeup is lost.
THEOREM WakeupsKept ==
    ASSUME Disciplined
    PROVE  Spec => []NoLostWakeup
<1>1. Inv => NoLostWakeup
  BY DEF Inv
<1> QED BY <1>1, InvariantHolds, PTL

\* What run() has collected is still ready when its turn comes, whatever the tasks
\* polled before it and the interrupts among them did.
THEOREM SnapshotIsFresh ==
    ASSUME Disciplined
    PROVE  Spec => []SnapshotStaysReady
<1>1. Inv => SnapshotStaysReady
  BY DEF Inv
<1> QED BY <1>1, InvariantHolds, PTL

\* Whoever sees the terminated flag finds the exit value in its cell: the unwrap
\* of join() and of JoinHandle::poll does not panic.
THEOREM ExitIsThere ==
    ASSUME Disciplined
    PROVE  Spec => []ExitBeforeFlag
<1>1. Inv => ExitBeforeFlag
  BY DEF Inv, FutureInv, ExitBeforeFlag
<1> QED BY <1>1, InvariantHolds, PTL

-----------------------------------------------------------------------------
(***************************************************************************)
(* What follows from the invariant: flags that stay, and no panic.         *)
(***************************************************************************)

\* A flag that says terminated is never stored over: the steps that store a flag
\* store it for a task that has not returned.
LEMMA FlagKept ==
    ASSUME Inv, Disciplined, [Next]_vars, NEW t \in Task, state[t] = TASK_TERMINATED
    PROVE  state'[t] = TASK_TERMINATED
<1> USE Distinct DEF tcb
<1>1. future[t] = "done"
  BY DEF Inv, FutureInv
<1>2. ASSUME NEW u \in Task, future[u] # "done",
             state' = wake_by_ref(state, u) \/ state' = [state EXCEPT ![u] = TASK_PENDING]
      PROVE  state'[t] = TASK_TERMINATED
  BY <1>1, <1>2 DEF Inv, TypeOK, wake_by_ref
<1>3. ASSUME NEW u \in Task, SpuriousWake(u) \/ Signal(u) PROVE state'[t] = TASK_TERMINATED
  <2>1. Signal(u) => future[u] = "event"
    BY DEF Signal, Inv, EventInv
  <2>2. SpuriousWake(u) => u # t /\ state' = wake_by_ref(state, u)
    BY DEF SpuriousWake, Disciplined
  <2> QED BY <1>2, <1>3, <2>1, <2>2 DEF Signal, wake_by_ref, Inv, TypeOK
<1>4. ASSUME NEW r \in Runner, RunnerStep(r) PROVE state'[t] = TASK_TERMINATED
  <2>1. CASE SignalPending(r)
    <3>1. PICK i \in DOMAIN tasks :
              tasks[i] \in ready[r] /\ state' = [state EXCEPT ![tasks[i]] = TASK_PENDING]
      BY <2>1 DEF SignalPending
    <3>2. tasks[i] \in Task /\ future[tasks[i]] # "done"
      BY <3>1 DEF Inv, TypeOK, SnapshotStaysReady
    <3> QED BY <1>2, <3>1, <3>2
  <2>2. CASE SignalTerminated(r)
    BY <2>2 DEF SignalTerminated, Inv, TypeOK
  <2>3. CASE WakeCompletion(r)
    <3>1. cur[r] \in Task /\ InPoll(cur[r])
      BY <2>3, Polled DEF WakeCompletion, Polling, InPoll
    <3>2. completion_waker[cur[r]] # None =>
              /\ completion_waker[cur[r]] \in Task
              /\ future[completion_waker[cur[r]]] = "join"
      BY <3>1 DEF Inv, WakerInv, TypeOK
    <3> QED BY <1>2, <2>3, <3>2 DEF WakeCompletion
  <2>4. CASE UserDefer(r)
    <3>1. cur[r] \in Task /\ future[cur[r]] = "active"
      BY <2>4, Polled DEF UserDefer, Polling, Inv, RunnerInv
    <3> QED BY <1>2, <2>4, <3>1 DEF UserDefer, SelfWake
  <2>5. ASSUME NEW u \in Task, UserSpawn(r, u) \/ UserAwaitJoin(r, u)
        PROVE  state'[t] = TASK_TERMINATED
    BY <2>5 DEF UserSpawn, spawn, Schedule, Panic, UserAwaitJoin
  <2>6. CASE StartRun(r) \/ CheckTerminated(r) \/ CollectReady(r) \/ EndRound(r)
    BY <2>6 DEF StartRun, CheckTerminated, CollectReady, EndRound, Panic
  <2>7. CASE \/ SetExit(r) \/ PollResume(r) \/ PollDone(r) \/ PollJoin(r)
             \/ RegisterJoin(r) \/ DropJoin(r)
    BY <2>7 DEF SetExit, PollResume, PollDone, PollJoin, RegisterJoin, DropJoin, Panic
  <2>8. CASE PollEvent(r) \/ UserAwaitEvent(r) \/ UserReturn(r)
    BY <2>8 DEF PollEvent, UserAwaitEvent, UserReturn
  <2> QED BY <1>4, <2>1, <2>2, <2>3, <2>4, <2>5, <2>6, <2>7, <2>8 DEF RunnerStep
<1>5. ASSUME NEW u \in Task, MainSpawn(u) \/ Join(u) PROVE state'[t] = TASK_TERMINATED
  BY <1>5 DEF MainSpawn, spawn, Schedule, Panic, Join
<1>6. CASE init_executor \/ UNCHANGED vars
  BY <1>6 DEF init_executor, vars
<1> QED BY <1>3, <1>4, <1>5, <1>6 DEF Next

\* A terminated task stays terminated: no waker left in a completion_waker cell or
\* in a timer slot is called after the task it belongs to has finished.
THEOREM TerminationIsFinal ==
    ASSUME Disciplined
    PROVE  Spec => TerminatedIsFinal
<1>1. Inv /\ [Next]_vars =>
          [\A t \in Task : state[t] = TASK_TERMINATED => state'[t] = TASK_TERMINATED]_vars
  BY FlagKept
<1> QED BY <1>1, InvariantHolds, PTL DEF Spec, TerminatedIsFinal

\* A runner leaves run() by the check that all tasks have terminated, and no other way.
LEMMA ReturnsByCheck ==
    ASSUME TypeOK, Next, NEW r \in Runner, pc[r] # "idle", pc'[r] = "idle"
    PROVE  CheckTerminated(r) /\ AllTerminated
<1> USE DEF runners, Goto
<1>1. ASSUME UNCHANGED pc PROVE FALSE
  BY <1>1
<1>2. ASSUME NEW s \in Runner, NEW place, place # "idle", Goto(s, place) PROVE FALSE
  BY <1>2 DEF TypeOK
<1>3. ASSUME NEW t, NEW holder, spawn(t, holder) PROVE FALSE
  BY <1>1, <1>3 DEF spawn, Schedule, Panic
<1>4. ASSUME NEW t, Join(t) \/ SpuriousWake(t) \/ Signal(t) PROVE FALSE
  BY <1>1, <1>4 DEF Join, SpuriousWake, Signal, Panic
<1>5. ASSUME init_executor PROVE FALSE
  BY <1>1, <1>5 DEF init_executor
<1>6. ASSUME NEW s \in Runner, RunnerStep(s) PROVE CheckTerminated(s)
  <2>1. ~StartRun(s) /\ ~CollectReady(s) /\ ~EndRound(s) /\ ~SignalPending(s)
    BY <1>1, <1>2 DEF StartRun, CollectReady, EndRound, SignalPending, Panic
  <2>2. ~SetExit(s) /\ ~SignalTerminated(s) /\ ~WakeCompletion(s)
    BY <1>2 DEF SetExit, SignalTerminated, WakeCompletion, DoneWith
  <2>3. ~PollResume(s) /\ ~PollDone(s) /\ ~PollJoin(s) /\ ~RegisterJoin(s) /\ ~DropJoin(s)
    BY <1>1, <1>2 DEF PollResume, PollDone, PollJoin, RegisterJoin, DropJoin, DoneWith,
                      Resume, Panic
  <2>4. ~PollEvent(s) /\ ~UserDefer(s) /\ ~UserAwaitEvent(s) /\ ~UserReturn(s)
    BY <1>2 DEF PollEvent, UserDefer, UserAwaitEvent, UserReturn, DoneWith, Resume
  <2>5. \A t \in Task : ~UserSpawn(s, t) /\ ~UserAwaitJoin(s, t)
    BY <1>2, <1>3 DEF UserSpawn, UserAwaitJoin
  <2> QED BY <1>6, <2>1, <2>2, <2>3, <2>4, <2>5 DEF RunnerStep
<1>7. PICK s \in Runner : CheckTerminated(s)
  BY <1>3, <1>4, <1>5, <1>6 DEF Next, MainSpawn
<1> QED BY <1>7 DEF CheckTerminated, TypeOK

\* run() returns only after every task of the list has returned from its block and left
\* its exit value in the TCB.
THEOREM RunEndsWhenDone ==
    ASSUME Disciplined
    PROVE  Spec => ReturnsOnlyDone
<1>1. Inv /\ [Next]_vars =>
        [\A r \in Runner : pc[r] # "idle" /\ pc'[r] = "idle" =>
             \A t \in Scheduled' : future'[t] = "done" /\ exit'[t]]_vars
  <2> SUFFICES ASSUME Inv, Next, NEW r \in Runner, pc[r] # "idle", pc'[r] = "idle",
                      NEW t \in Scheduled'
               PROVE  future'[t] = "done" /\ exit'[t]
    OBVIOUS
  <2>1. CheckTerminated(r) /\ AllTerminated
    BY ReturnsByCheck DEF Inv
  <2>2. UNCHANGED <<tasks, future, exit>>
    BY <2>1 DEF CheckTerminated, program, tcb, block
  <2>3. Scheduled' = Scheduled
    BY <2>2 DEF Scheduled
  <2>4. t \in Task /\ state[t] = TASK_TERMINATED
    BY <2>1, <2>3, ScheduledTasks DEF AllTerminated, Inv
  <2> QED BY <2>2, <2>4 DEF Inv, FutureInv
<1> QED BY <1>1, InvariantHolds, PTL DEF Spec, ReturnsOnlyDone

\* A set of tasks is no larger than the set of all tasks, and smaller if a task
\* is missing from it.
LEMMA TasksFit ==
    ASSUME Roomy, NEW S \in SUBSET Task
    PROVE  /\ Cardinality(S) \in Nat
           /\ Cardinality(S) <= Cardinality(Task)
           /\ \A t \in Task \ S : Cardinality(S) < Cardinality(Task)
<1>1. IsFiniteSet(Task)
  BY DEF Roomy
<1>2. /\ IsFiniteSet(S) /\ Cardinality(S) \in Nat /\ Cardinality(Task) \in Nat
      /\ Cardinality(S) <= Cardinality(Task)
  BY <1>1, FS_Subset, FS_CardinalityType
<1>3. ASSUME NEW t \in Task \ S PROVE Cardinality(S) < Cardinality(Task)
  BY <1>1, <1>2, FS_Subset
<1> QED BY <1>2, <1>3

\* With room for every task, neither spawn() nor collect() panics.
LEMMA NextNoPanic ==
    ASSUME Inv, Inv', Disciplined, Roomy, NoPanic, [Next]_vars
    PROVE  NoPanic'
<1>1. SUFFICES panic' \notin {"name", "out of memory", "overflow"}
  BY DEF Inv, NoFault, TypeOK, Panics, NoPanic
<1> USE DEF Panic, program
<1>2. panic \notin {"name", "out of memory", "overflow"}
  BY DEF NoPanic
<1>3. ASSUME NEW t \in Task, NEW holder, spawn(t, holder)
      PROVE  panic' \notin {"name", "out of memory", "overflow"}
  <2>1. t \notin Allocated /\ Allocated \in SUBSET Task
    BY <1>3 DEF spawn, Allocated
  <2>2. Cardinality(Allocated) < HeapCap
    <3>1. Cardinality(Allocated) \in Nat /\ Cardinality(Allocated) < Cardinality(Task)
      BY <2>1, TasksFit
    <3>2. Cardinality(Task) \in Nat /\ Cardinality(Task) <= HeapCap /\ HeapCap \in Nat
      BY FS_CardinalityType, ConstantsAssumption DEF Roomy, ConstantsAssumption
    <3> QED BY <3>1, <3>2
  <2>3. ~(Cardinality(Allocated) >= HeapCap) /\ ~LongNames
    <3>1. Cardinality(Allocated) \in Nat /\ HeapCap \in Nat
      BY <2>1, TasksFit, ConstantsAssumption DEF ConstantsAssumption
    <3> QED BY <2>2, <3>1 DEF Roomy
  <2> QED BY <1>2, <1>3, <2>3 DEF spawn, Schedule
<1>4. ASSUME NEW r \in Runner, CollectReady(r)
      PROVE  panic' \notin {"name", "out of memory", "overflow"}
  <2>1. ReadyTasks \in SUBSET Task
    BY ScheduledTasks DEF ReadyTasks, Inv
  <2>2. Cardinality(ReadyTasks) \in Nat /\ Cardinality(ReadyTasks) <= Cardinality(Task)
    BY <2>1, TasksFit
  <2>3. /\ Cardinality(Task) \in Nat /\ Cardinality(Task) <= ReadyCap /\ ReadyCap \in Nat
    BY FS_CardinalityType, ConstantsAssumption DEF Roomy, ConstantsAssumption
  <2>4. ~(Cardinality(ReadyTasks) > ReadyCap)
    BY <2>2, <2>3
  <2> QED BY <1>2, <1>4, <2>4 DEF CollectReady
<1>5. ASSUME NEW r \in Runner, RunnerStep(r)
      PROVE  panic' \notin {"name", "out of memory", "overflow"}
  <2>1. CASE StartRun(r) \/ CheckTerminated(r) \/ EndRound(r) \/ SignalPending(r)
    BY <1>2, <2>1 DEF StartRun, CheckTerminated, EndRound, SignalPending
  <2>2. CASE \/ SetExit(r) \/ SignalTerminated(r) \/ WakeCompletion(r) \/ PollResume(r)
             \/ PollDone(r) \/ PollJoin(r) \/ RegisterJoin(r)
    BY <1>2, <2>2 DEF SetExit, SignalTerminated, WakeCompletion, PollResume, PollDone,
                      PollJoin, RegisterJoin
  <2>3. CASE \/ DropJoin(r) \/ PollEvent(r) \/ UserDefer(r) \/ UserAwaitEvent(r)
             \/ UserReturn(r) \/ \E t \in Task : UserAwaitJoin(r, t)
    BY <1>2, <2>3 DEF DropJoin, PollEvent, UserDefer, UserAwaitEvent, UserReturn,
                      UserAwaitJoin
  <2>4. CASE \E t \in Task : UserSpawn(r, t)
    BY <1>3, <2>4 DEF UserSpawn
  <2> QED BY <1>4, <1>5, <2>1, <2>2, <2>3, <2>4 DEF RunnerStep
<1>6. ASSUME NEW t \in Task, Join(t) \/ SpuriousWake(t) \/ Signal(t)
      PROVE  panic' \notin {"name", "out of memory", "overflow"}
  BY <1>2, <1>6 DEF Join, SpuriousWake, Signal
<1>7. ASSUME NEW t \in Task, MainSpawn(t)
      PROVE  panic' \notin {"name", "out of memory", "overflow"}
  BY <1>3, <1>7 DEF MainSpawn
<1>8. CASE init_executor \/ UNCHANGED vars
  BY <1>2, <1>8 DEF init_executor, vars
<1> QED BY <1>5, <1>6, <1>7, <1>8 DEF Next

\* An initialised executor whose tasks fit into its memory and its snapshot never
\* panics, whatever the order of polls, wakeups and interrupts.
THEOREM PanicFree ==
    ASSUME Disciplined, Roomy
    PROVE  Spec => []NoPanic
<1>1. Init => NoPanic
  BY DEF Init, NoPanic
<1>2. Inv /\ Inv' /\ NoPanic /\ [Next]_vars => NoPanic'
  BY NextNoPanic
<1> QED BY <1>1, <1>2, InvariantHolds, PTL DEF Spec
=============================================================================
