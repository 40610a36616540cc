--------------------------- MODULE ContractProofs ---------------------------
(***************************************************************************)
(* The executor implements JoinContract, and uses events as EventSource    *)
(* expects.                                                                *)
(***************************************************************************)
EXTENDS ExecutorProofs

\* Main, None and the tasks are different owners.
LEMMA Owners == Main # None /\ Main \notin Task /\ None \notin Task
BY ConstantsAssumption DEF ConstantsAssumption

\* The invariant with what it says of joined handles.
LEMMA NextJoined ==
    ASSUME Inv, Inv', Disciplined, JoinedInv, [Next]_vars
    PROVE  JoinedInv'
<1> USE Owners DEF Panic, program
<1>1. CASE UNCHANGED <<owner, joined>>
  BY <1>1 DEF JoinedInv
<1>2. ASSUME NEW t \in Task, NEW holder, spawn(t, holder) PROVE JoinedInv'
  <2>1. owner[t] = None
    BY <1>2 DEF spawn, Inv, ListInv
  <2>2. UNCHANGED joined /\ (owner' = owner \/ owner' = [owner EXCEPT ![t] = holder])
    BY <1>2 DEF spawn, Schedule
  <2> QED BY <2>1, <2>2 DEF JoinedInv, Inv, TypeOK
<1>3. ASSUME NEW t \in Task, Join(t) PROVE JoinedInv'
  BY <1>3, <1>1 DEF Join, JoinedInv, Inv, TypeOK
<1>4. ASSUME NEW r \in Runner, PollJoin(r) PROVE JoinedInv'
  <2>1. cur[r] \in Task /\ awaited[cur[r]] \in Task /\ owner[awaited[cur[r]]] = cur[r]
    BY <1>4, Polled DEF PollJoin, Polling, Inv, FutureInv
  <2> QED BY <1>1, <1>4, <2>1 DEF PollJoin, JoinedInv, Inv, TypeOK
<1>5. ASSUME NEW r \in Runner, RunnerStep(r) PROVE JoinedInv'
  <2>1. CASE \/ StartRun(r) \/ CheckTerminated(r) \/ CollectReady(r) \/ EndRound(r)
             \/ SignalPending(r) \/ SetExit(r) \/ SignalTerminated(r) \/ WakeCompletion(r)
    BY <1>1, <2>1 DEF StartRun, CheckTerminated, CollectReady, EndRound, SignalPending,
                      SetExit, SignalTerminated, WakeCompletion
  <2>2. CASE \/ PollResume(r) \/ PollDone(r) \/ RegisterJoin(r) \/ PollEvent(r)
             \/ UserDefer(r) \/ UserAwaitEvent(r) \/ UserReturn(r)
             \/ \E t \in Task : UserAwaitJoin(r, t)
    BY <1>1, <2>2 DEF PollResume, PollDone, RegisterJoin, PollEvent, UserDefer,
                      UserAwaitEvent, UserReturn, UserAwaitJoin
  <2>3. ~DropJoin(r)
    BY DEF DropJoin, Disciplined
  <2> QED BY <1>2, <1>4, <1>5, <2>1, <2>2, <2>3 DEF RunnerStep, UserSpawn
<1>6. ASSUME NEW t \in Task, MainSpawn(t) \/ SpuriousWake(t) \/ Signal(t) PROVE JoinedInv'
  BY <1>1, <1>2, <1>6 DEF MainSpawn, SpuriousWake, Signal
<1>7. CASE init_executor \/ UNCHANGED vars
  BY <1>1, <1>7 DEF init_executor, vars
<1> QED BY <1>3, <1>5, <1>6, <1>7 DEF Next

-----------------------------------------------------------------------------
(***************************************************************************)
(* Steps that the contract sees, and steps that it does not.               *)
(***************************************************************************)

\* The contract sees a step only through outcomes, owners, joins and the flags
\* that say terminated.
LEMMA Unseen ==
    ASSUME UNCHANGED <<outcome, owner, joined>>,
           \A t \in Task : state'[t] = TASK_TERMINATED <=> state[t] = TASK_TERMINATED
    PROVE  UNCHANGED Contract!vars
<1>1. \A t \in Task : Phase(t)' = Phase(t)
  BY DEF Phase
<1>2. \A t \in Task : Delivered(t)' = Delivered(t)
  <2>1. joined' = joined /\ outcome' = outcome /\ owner' = owner
    OBVIOUS
  <2> QED BY ONLY <2>1 DEF Delivered
<1> QED BY <1>1, <1>2 DEF Contract!vars

\* spawn() is Spawn, Refuse or, if it panics, nothing.
LEMMA SpawnSeen ==
    ASSUME Inv, NEW t \in Task, NEW holder, holder # None, JoinedInv, spawn(t, holder)
    PROVE  [Contract!Next]_Contract!vars
<1> USE Owners, Distinct
<1>1. /\ outcome[t] = "unspawned" /\ UNCHANGED <<joined, state>>
      /\ state[t] # TASK_TERMINATED /\ owner[t] = None /\ ~joined[t]
  <2>1. outcome[t] = "unspawned" /\ UNCHANGED <<joined, state>>
    BY DEF spawn, Schedule, Panic, tcb
  <2>2. future[t] = "start" /\ owner[t] = None
    BY <2>1 DEF Inv, ListInv
  <2> QED BY <2>1, <2>2 DEF Inv, FutureInv, JoinedInv
<1>2. CASE UNCHANGED <<outcome, owner>>
  BY <1>1, <1>2, Unseen
<1>3. ASSUME NEW why \in {"TaskListFull", "ExecutorNotInitialized"},
             outcome' = [outcome EXCEPT ![t] = why], UNCHANGED owner
      PROVE  Contract!Refuse(t)
  <2>1. /\ outcome'[t] = why
        /\ \A u \in Task : u # t => outcome'[u] = outcome[u]
    BY <1>3 DEF Inv, TypeOK
  <2>2. Phase(t) = "unspawned" /\ Phase(t)' = "refused"
    BY <1>1, <2>1 DEF Phase
  <2>3. \A u \in Task : u # t => Phase(u)' = Phase(u)
    BY <1>1, <2>1 DEF Phase
  <2>4. \A u \in Task : Delivered(u)' = Delivered(u)
    BY <1>1, <1>3, <2>1 DEF Delivered
  <2> QED BY <2>2, <2>3, <2>4 DEF Contract!Refuse, Contract!Move
<1>4. ASSUME outcome' = [outcome EXCEPT ![t] = "ok"], owner' = [owner EXCEPT ![t] = holder]
      PROVE  Contract!Spawn(t)
  <2>1. /\ outcome'[t] = "ok" /\ owner'[t] = holder
        /\ \A u \in Task : u # t => outcome'[u] = outcome[u] /\ owner'[u] = owner[u]
    BY <1>4 DEF Inv, TypeOK
  <2>2. Phase(t) = "unspawned" /\ Phase(t)' = "running"
    BY <1>1, <2>1 DEF Phase
  <2>3. \A u \in Task : u # t => Phase(u)' = Phase(u)
    BY <1>1, <2>1 DEF Phase
  <2>4. \A u \in Task : Delivered(u)' = Delivered(u)
    BY <1>1, <2>1 DEF Delivered
  <2> QED BY <2>2, <2>3, <2>4 DEF Contract!Spawn, Contract!Move
<1> QED BY <1>2, <1>3, <1>4 DEF spawn, Schedule, Panic, Contract!Next

\* The store of the terminated flag is Finish.
LEMMA FinishSeen ==
    ASSUME Inv, Disciplined, NEW r \in Runner, SignalTerminated(r)
    PROVE  [Contract!Next]_Contract!vars
<1> USE Distinct DEF program
<1>0. PICK c \in Task : c = cur[r]
  BY Polled DEF SignalTerminated, Polling
<1>1. /\ outcome[c] = "ok"
      /\ UNCHANGED <<outcome, owner, joined>>
      /\ state'[c] = TASK_TERMINATED
      /\ \A t \in Task : t # c => state'[t] = state[t]
  BY <1>0, Polled DEF SignalTerminated, Polling, Inv, ListInv, TypeOK
<1>2. CASE state[c] = TASK_TERMINATED
  BY <1>1, <1>2, Unseen
<1>3. CASE state[c] # TASK_TERMINATED
  <2>1. Phase(c) = "running" /\ Phase(c)' = "finished"
    BY <1>1, <1>3 DEF Phase
  <2>2. \A t \in Task : t # c => Phase(t)' = Phase(t)
    BY <1>1 DEF Phase
  <2>3. \A t \in Task : Delivered(t)' = Delivered(t)
    BY <1>1 DEF Delivered
  <2>4. Contract!Finish(c)
    BY <1>1, <2>1, <2>2, <2>3 DEF Contract!Finish, Contract!Move
  <2> QED BY <1>1, <2>4 DEF Contract!Next
<1> QED BY <1>2, <1>3

\* join() and .await deliver the value of a task that has finished.
LEMMA DeliverSeen ==
    ASSUME Inv, JoinedInv, NEW t \in Task, state[t] = TASK_TERMINATED,
           owner[t] # None, ~joined[t],
           \/ joined' = [joined EXCEPT ![t] = TRUE] /\ UNCHANGED owner
           \/ owner' = [owner EXCEPT ![t] = None] /\ UNCHANGED joined,
           UNCHANGED <<outcome, state>>
    PROVE  [Contract!Next]_Contract!vars
<1>1. outcome[t] = "ok"
  BY DEF Inv, ListInv
<1>2. /\ joined'[t] \/ owner'[t] = None
      /\ \A u \in Task : u # t => joined'[u] = joined[u] /\ owner'[u] = owner[u]
  BY DEF Inv, TypeOK
<1>3. Phase(t) = "finished" /\ \A u \in Task : Phase(u)' = Phase(u)
  BY <1>1 DEF Phase
<1>4. ~Delivered(t) /\ Delivered(t)' = TRUE
  BY <1>1, <1>2 DEF Delivered
<1>5. \A u \in Task : u # t => Delivered(u)' = Delivered(u)
  BY <1>2 DEF Delivered
<1>6. Contract!Deliver(t)
  BY <1>3, <1>4, <1>5 DEF Contract!Deliver
<1> QED BY <1>6 DEF Contract!Next

\* Every other step is invisible to the contract.
LEMMA OthersUnseen ==
    ASSUME Inv, Disciplined, [Next]_vars, UNCHANGED <<outcome, owner, joined>>,
           \A r \in Runner : ~SignalTerminated(r)
    PROVE  UNCHANGED Contract!vars
<1> USE Distinct DEF tcb
<1>1. SUFFICES ASSUME NEW t \in Task, state'[t] = TASK_TERMINATED
               PROVE  state[t] = TASK_TERMINATED
  BY FlagKept, Unseen
<1>2. ASSUME NEW u,
             state' = wake_by_ref(state, u) \/ state' = [state EXCEPT ![u] = TASK_PENDING]
      PROVE  state[t] = TASK_TERMINATED
  BY <1>1, <1>2 DEF Inv, TypeOK, wake_by_ref
<1>3. ASSUME NEW u \in Task, SpuriousWake(u) \/ Signal(u) PROVE state[t] = TASK_TERMINATED
  BY <1>1, <1>2, <1>3 DEF SpuriousWake, Signal
<1>4. ASSUME NEW r \in Runner, RunnerStep(r) PROVE state[t] = TASK_TERMINATED
  <2>1. CASE SignalPending(r) \/ WakeCompletion(r) \/ UserDefer(r)
    BY <1>1, <1>2, <2>1 DEF SignalPending, WakeCompletion, UserDefer, SelfWake
  <2>2. ASSUME NEW u \in Task, UserSpawn(r, u) \/ UserAwaitJoin(r, u)
        PROVE  state[t] = TASK_TERMINATED
    BY <1>1, <2>2 DEF UserSpawn, spawn, Schedule, Panic, UserAwaitJoin
  <2>3. CASE StartRun(r) \/ CheckTerminated(r) \/ CollectReady(r) \/ EndRound(r)
    BY <1>1, <2>3 DEF StartRun, CheckTerminated, CollectReady, EndRound, Panic
  <2>4. CASE \/ SetExit(r) \/ PollResume(r) \/ PollDone(r) \/ PollJoin(r)
             \/ RegisterJoin(r) \/ DropJoin(r)
    BY <1>1, <2>4 DEF SetExit, PollResume, PollDone, PollJoin, RegisterJoin, DropJoin, Panic
  <2>5. CASE PollEvent(r) \/ UserAwaitEvent(r) \/ UserReturn(r)
    BY <1>1, <2>5 DEF PollEvent, UserAwaitEvent, UserReturn
  <2> QED BY <1>4, <2>1, <2>2, <2>3, <2>4, <2>5 DEF RunnerStep
<1>5. ASSUME NEW u \in Task, MainSpawn(u) \/ Join(u) PROVE state[t] = TASK_TERMINATED
  BY <1>1, <1>5 DEF MainSpawn, spawn, Schedule, Panic, Join
<1>6. CASE init_executor \/ UNCHANGED vars
  BY <1>1, <1>6 DEF init_executor, vars
<1> QED BY <1>3, <1>4, <1>5, <1>6 DEF Next

\* Every step of the executor is a step of the contract or invisible to it.
LEMMA StepRefines ==
    ASSUME Inv, JoinedInv, Disciplined, [Next]_vars
    PROVE  [Contract!Next]_Contract!vars
<1> USE Owners DEF Panic, program
<1>1. CASE UNCHANGED <<outcome, owner, joined>> /\ \A r \in Runner : ~SignalTerminated(r)
  BY <1>1, OthersUnseen
<1>2. ASSUME NEW r \in Runner, SignalTerminated(r) PROVE [Contract!Next]_Contract!vars
  BY <1>2, FinishSeen
<1>3. ASSUME NEW t \in Task, MainSpawn(t) PROVE [Contract!Next]_Contract!vars
  BY <1>3, SpawnSeen DEF MainSpawn
<1>4. ASSUME NEW t \in Task, Join(t)
      PROVE  UNCHANGED <<outcome, owner, joined>> \/ [Contract!Next]_Contract!vars
  <2>1. /\ owner[t] = Main /\ ~joined[t] /\ state[t] = TASK_TERMINATED
        /\ UNCHANGED <<outcome, owner, state>>
        /\ UNCHANGED joined \/ joined' = [joined EXCEPT ![t] = TRUE]
    BY <1>4 DEF Join, tcb
  <2> QED BY <2>1, DeliverSeen
<1>5. ASSUME NEW r \in Runner, PollJoin(r)
      PROVE  UNCHANGED <<outcome, owner, joined>> \/ [Contract!Next]_Contract!vars
  <2>1. PICK u \in Task : u = awaited[cur[r]] /\ owner[u] = cur[r] /\ cur[r] \in Task
    BY <1>5, Polled DEF PollJoin, Polling, Inv, FutureInv
  <2>2. \/ UNCHANGED <<outcome, owner, joined>>
        \/ /\ state[u] = TASK_TERMINATED /\ owner' = [owner EXCEPT ![u] = None]
           /\ UNCHANGED <<outcome, joined, state>>
    BY <1>5, <2>1 DEF PollJoin
  <2>3. owner[u] # None /\ ~joined[u]
    BY <2>1 DEF JoinedInv
  <2> QED BY <2>2, <2>3, DeliverSeen
<1>6. ASSUME NEW r \in Runner, NEW t \in Task, UserSpawn(r, t)
      PROVE  [Contract!Next]_Contract!vars
  <2>1. cur[r] # None
    BY <1>6 DEF UserSpawn, Inv, RunnerInv, Polling
  <2> QED BY <1>6, <2>1, SpawnSeen DEF UserSpawn
<1>7. ASSUME NEW r \in Runner, RunnerStep(r)
      PROVE  UNCHANGED <<outcome, owner, joined>> \/ [Contract!Next]_Contract!vars
  <2>1. CASE \/ StartRun(r) \/ CheckTerminated(r) \/ CollectReady(r) \/ EndRound(r)
             \/ SignalPending(r) \/ SetExit(r) \/ WakeCompletion(r) \/ SignalTerminated(r)
    BY <2>1 DEF StartRun, CheckTerminated, CollectReady, EndRound, SignalPending, SetExit,
                WakeCompletion, SignalTerminated
  <2>2. CASE \/ PollResume(r) \/ PollDone(r) \/ RegisterJoin(r) \/ PollEvent(r)
             \/ UserDefer(r) \/ UserAwaitEvent(r) \/ UserReturn(r)
             \/ \E t \in Task : UserAwaitJoin(r, t)
    BY <2>2 DEF PollResume, PollDone, RegisterJoin, PollEvent, UserDefer, UserAwaitEvent,
                UserReturn, UserAwaitJoin
  <2>3. ~DropJoin(r)
    BY DEF DropJoin, Disciplined
  <2> QED BY ONLY <1>5, <1>6, <1>7, <2>1, <2>2, <2>3 DEF RunnerStep
<1>8. ASSUME NEW t \in Task, SpuriousWake(t) \/ Signal(t)
      PROVE  UNCHANGED <<outcome, owner, joined>>
  BY <1>8 DEF SpuriousWake, Signal
<1>9. CASE init_executor \/ UNCHANGED vars
  <2>1. UNCHANGED <<outcome, owner, joined>>
    BY <1>9 DEF init_executor, vars
  <2> QED BY <1>1, <1>2, <2>1
<1> QED BY <1>1, <1>2, <1>3, <1>4, <1>7, <1>8, <1>9 DEF Next

\* The executor implements the contract of spawn, join and .await: a task starts or
\* is refused, finishes once, and its value is delivered after that.
THEOREM ExecutorKeepsContract ==
    ASSUME Disciplined
    PROVE  Spec => ContractSpec
<1>1. Init => Contract!Init /\ JoinedInv
  <2> SUFFICES ASSUME Init PROVE Contract!Init /\ JoinedInv
    OBVIOUS
  <2>1. \A t \in Task : Phase(t) = "unspawned"
    BY DEF Init, Phase
  <2>2. \A t \in Task : Delivered(t) = FALSE
    BY DEF Init, Delivered
  <2> QED BY <2>1, <2>2 DEF Contract!Init, Init, JoinedInv
<1>2. Inv /\ Inv' /\ JoinedInv /\ [Next]_vars => JoinedInv'
  BY NextJoined
<1>3. Inv /\ JoinedInv /\ [Next]_vars => [Contract!Next]_Contract!vars
  BY StepRefines
<1> QED BY <1>1, <1>2, <1>3, InvariantHolds, PTL DEF Spec, ContractSpec, Contract!Spec

-----------------------------------------------------------------------------
(***************************************************************************)
(* The executor and its events: steps that the event source sees.          *)
(***************************************************************************)

\* Nobody is polled anew or no longer while the runners keep their tasks.
LEMMA SamePolls ==
    ASSUME UNCHANGED cur
    PROVE  BeingPolled' = BeingPolled
BY DEF BeingPolled, InPoll

\* A store of ready or terminated into the flag of one task is Wake.
LEMMA StoreIsWake ==
    ASSUME TypeOK, NEW t \in Task, NEW v, v # TASK_PENDING,
           state' = [state EXCEPT ![t] = v], UNCHANGED <<event, event_waker, cur, panic>>
    PROVE  Source!Next
<1>1. ASSUME NEW u \in Task
      PROVE  (state'[u] # TASK_PENDING) = IF u = t THEN TRUE ELSE state[u] # TASK_PENDING
  BY DEF TypeOK
<1>2. Awake' = [Awake EXCEPT ![t] = TRUE]
  BY <1>1 DEF Awake
<1>3. Source!Wake(t)
  BY <1>2, SamePolls DEF Source!Wake
<1> QED BY <1>3 DEF Source!Next

\* A panic is Halt, and the source sees nothing else that leaves flags, polls and events
\* alone.
LEMMA PanicIsHalt ==
    ASSUME UNCHANGED <<state, cur, event, event_waker>>
    PROVE  /\ panic' # "none" => Source!Next
           /\ UNCHANGED panic => UNCHANGED Source!vars
<1>1. Awake' = Awake
  BY DEF Awake
<1> QED BY <1>1, SamePolls DEF Source!Next, Source!Halt, Source!vars

\* The interrupt expires one event and wakes its task if the slot holds its waker.
LEMMA SignalIsExpire ==
    ASSUME TypeOK, NEW t \in Task, Signal(t)
    PROVE  Source!Next
<1>1. UNCHANGED <<event_waker, cur, panic>> /\ event[t] # "none"
  BY DEF Signal, program, runners
<1>2. event' = [u \in Task |-> IF u \in {t} THEN "expired" ELSE event[u]]
  BY DEF Signal, TypeOK
<1>3. ASSUME NEW u \in Task
      PROVE  (state'[u] # TASK_PENDING)
             = ((state[u] # TASK_PENDING) \/ (u \in {t} /\ event_waker[u]))
  BY Distinct DEF Signal, TypeOK, wake_by_ref
<1>4. Awake' = [u \in Task |-> Awake[u] \/ (u \in {t} /\ event_waker[u])]
  BY <1>3 DEF Awake
<1>5. Source!Expire({t})
  BY <1>1, <1>2, <1>4, SamePolls DEF Source!Expire
<1> QED BY <1>5 DEF Source!Next

\* do_poll starts with a task of the snapshot, whose flag is up, and lowers it: Poll.
LEMMA SignalPendingIsPoll ==
    ASSUME Inv, Disciplined, NEW r \in Runner, SignalPending(r)
    PROVE  Source!Next
<1> USE Distinct
<1>1. PICK i \in DOMAIN tasks : /\ tasks[i] \in ready[r]
                                /\ state' = [state EXCEPT ![tasks[i]] = TASK_PENDING]
                                /\ cur' = [cur EXCEPT ![r] = tasks[i]]
  BY DEF SignalPending
<1>2. PICK t \in Task : t = tasks[i] /\ state[t] = TASK_READY
  BY <1>1 DEF Inv, TypeOK, SnapshotStaysReady
<1>3. BeingPolled = {} /\ BeingPolled' = {t}
  <2>1. cur[r] = None /\ \A s \in Runner : s = r
    BY DEF SignalPending, Inv, RunnerInv, Polling, Places, Disciplined
  <2>2. cur'[r] = t
    BY <1>1, <1>2 DEF Inv, TypeOK
  <2> QED BY <2>1, <2>2, Owners DEF BeingPolled, InPoll
<1>4. ASSUME NEW u \in Task
      PROVE  (state'[u] # TASK_PENDING) = IF u = t THEN FALSE ELSE state[u] # TASK_PENDING
  BY <1>1, <1>2 DEF Inv, TypeOK
<1>5. Awake[t] /\ Awake' = [Awake EXCEPT ![t] = FALSE]
  BY <1>2, <1>4 DEF Awake
<1>6. UNCHANGED <<event, event_waker, panic>>
  BY DEF SignalPending, program, source
<1>7. Source!Poll(t)
  BY <1>3, <1>5, <1>6 DEF Source!Poll
<1> QED BY <1>7 DEF Source!Next

\* The one runner polls one task, and none once it is done with that.
LEMMA PollEnds ==
    ASSUME Inv, Disciplined, NEW r \in Runner, NEW c \in Task, c = cur[r]
    PROVE  /\ BeingPolled = {c}
           /\ DoneWith(r) => BeingPolled' = {}
<1>1. \A s \in Runner : s = r
  BY DEF Disciplined
<1>2. DoneWith(r) => cur'[r] = None
  BY DEF DoneWith, Inv, TypeOK
<1> QED BY <1>1, <1>2, Owners DEF BeingPolled, InPoll

\* A poll that ends outside of an event and wakes the tasks of S is Suspend.
LEMMA DoneIsSuspend ==
    ASSUME Inv, Disciplined, NEW r \in Runner, NEW c \in Task, c = cur[r],
           DoneWith(r), future[c] # "event", UNCHANGED <<event, event_waker, panic>>,
           NEW S \in SUBSET Task,
           \A u \in Task :
               (state'[u] # TASK_PENDING) <=> (state[u] # TASK_PENDING \/ u \in S)
    PROVE  Source!Next
<1>1. event[c] = "none"
  BY DEF Inv, EventInv
<1>2. c \in BeingPolled /\ BeingPolled' = BeingPolled \ {c}
  BY PollEnds
<1>3. Awake' = [u \in Task |-> Awake[u] \/ u \in S]
  BY DEF Awake
<1>4. Source!Suspend(c, S)
  BY <1>1, <1>2, <1>3 DEF Source!Suspend
<1> QED BY <1>4 DEF Source!Next

\* A waker that is called raises one flag.
LEMMA WokenIs ==
    ASSUME TypeOK, NEW t \in Task, state' = wake_by_ref(state, t)
    PROVE  \A u \in Task : (state'[u] # TASK_PENDING)
                            <=> (state[u] # TASK_PENDING \/ u \in {t})
BY Distinct DEF TypeOK, wake_by_ref

\* defer(), the end of a task and the wait for another one end the poll.
LEMMA EndsOfPolls ==
    ASSUME Inv, Disciplined, NEW r \in Runner,
           UserDefer(r) \/ WakeCompletion(r) \/ RegisterJoin(r)
    PROVE  Source!Next
<1>1. PICK c \in Task : c = cur[r]
  BY Polled DEF UserDefer, WakeCompletion, RegisterJoin, Polling
<1>2. DoneWith(r) /\ UNCHANGED <<event, event_waker, panic>>
  BY DEF UserDefer, WakeCompletion, RegisterJoin, program, source
<1>3. future[c] # "event" /\ TypeOK
  BY <1>1 DEF UserDefer, WakeCompletion, RegisterJoin, Inv, RunnerInv
<1>4. ASSUME UNCHANGED state PROVE Source!Next
  <2>1. {} \in SUBSET Task
    OBVIOUS
  <2>2. \A u \in Task : (state'[u] # TASK_PENDING) <=> (state[u] # TASK_PENDING \/ u \in {})
    BY <1>4
  <2> QED BY <1>1, <1>2, <1>3, <2>1, <2>2, DoneIsSuspend
<1>5. CASE UserDefer(r)
  <2>1. state' = wake_by_ref(state, c)
    BY <1>1, <1>5 DEF UserDefer, SelfWake
  <2>2. {c} \in SUBSET Task
    OBVIOUS
  <2> QED BY <1>1, <1>2, <1>3, <2>1, <2>2, WokenIs, DoneIsSuspend
<1>6. CASE WakeCompletion(r)
  <2>1. CASE UNCHANGED state
    BY <1>4, <2>1
  <2>2. CASE completion_waker[c] # None
    <3>1. PICK w \in Task : w = completion_waker[c]
      BY <1>3, <2>2 DEF TypeOK
    <3>2. state' = wake_by_ref(state, w) /\ {w} \in SUBSET Task
      BY <1>1, <1>6, <2>2, <3>1 DEF WakeCompletion
    <3> QED BY <1>1, <1>2, <1>3, <3>2, WokenIs, DoneIsSuspend
  <2> QED BY <1>1, <1>6, <2>1, <2>2 DEF WakeCompletion
<1>7. CASE RegisterJoin(r)
  <2>1. UNCHANGED state
    BY <1>7 DEF RegisterJoin
  <2> QED BY <1>4, <2>1
<1> QED BY <1>5, <1>6, <1>7

\* The poll of an event ends the wait or leaves the waker.
LEMMA PollEventIsPoll ==
    ASSUME Inv, Disciplined, NEW r \in Runner, PollEvent(r)
    PROVE  Source!Next
<1>1. PICK c \in Task : c = cur[r]
  BY Polled DEF PollEvent, Polling
<1>2. UNCHANGED <<state, panic>> /\ Awake' = Awake
  BY DEF PollEvent, program, Awake
<1>3. event[c] \in {"armed", "expired"}
  BY <1>1 DEF PollEvent, Inv, TypeOK, EventInv
<1>4. BeingPolled = {c} /\ (DoneWith(r) => BeingPolled' = {})
  BY <1>1, PollEnds
<1>5. CASE event[c] = "expired" /\ FreeSlot(c) /\ Resume(r, c)
  <2>1. BeingPolled' = BeingPolled
    BY <1>5, SamePolls DEF Resume
  <2>2. Source!Finish(c)
    BY <1>2, <1>4, <1>5, <2>1 DEF FreeSlot, Source!Finish
  <2> QED BY <2>2 DEF Source!Next
<1>6. CASE /\ event[c] # "expired"
           /\ event_waker' = [event_waker EXCEPT ![c] = TRUE]
           /\ DoneWith(r)
           /\ UNCHANGED event
  <2>1. BeingPolled' = BeingPolled \ {c}
    BY <1>4, <1>6
  <2>2. Source!Wait(c)
    BY <1>2, <1>3, <1>4, <1>6, <2>1 DEF Source!Wait
  <2> QED BY <2>2 DEF Source!Next
<1> QED BY <1>1, <1>5, <1>6 DEF PollEvent, Disciplined

\* A block that awaits an event arms it: it has none.
LEMMA AwaitIsArm ==
    ASSUME Inv, Disciplined, NEW r \in Runner, UserAwaitEvent(r)
    PROVE  Source!Next
<1>1. PICK c \in Task : c = cur[r]
  BY Polled DEF UserAwaitEvent, Polling
<1>2. BeingPolled = {c} /\ BeingPolled' = BeingPolled /\ Awake' = Awake
  BY <1>1, PollEnds, SamePolls DEF UserAwaitEvent, Awake
<1>3. Source!Arm(c)
  BY <1>1, <1>2 DEF UserAwaitEvent, program, Source!Arm
<1> QED BY <1>3 DEF Source!Next

\* Every step of the executor is a step of the event source, or changes nothing it sees.
LEMMA StepFollowsProtocol ==
    ASSUME Inv, Disciplined, [Next]_vars
    PROVE  [~(panic # "none") /\ Source!Next]_Source!vars
<1> USE Distinct DEF program, tcb, source, runners
<1>1. ASSUME NEW why \in Panics \ {"none"}, Panic(why) PROVE Source!Next
  BY <1>1, PanicIsHalt DEF Panic
<1>2. ASSUME NEW t \in Task, NEW holder, spawn(t, holder)
      PROVE  UNCHANGED Source!vars \/ Source!Next
  BY <1>1, <1>2, PanicIsHalt DEF spawn, Schedule, Panics
<1>3. ASSUME NEW t \in Task, SpuriousWake(t) PROVE Source!Next
  BY <1>3, StoreIsWake DEF SpuriousWake, wake_by_ref, Inv
<1>4. ASSUME NEW t \in Task, Join(t) PROVE UNCHANGED Source!vars \/ Source!Next
  BY <1>1, <1>4, PanicIsHalt DEF Join, Panics
<1>5. ASSUME NEW r \in Runner, RunnerStep(r) PROVE UNCHANGED Source!vars \/ Source!Next
  <2>1. CASE \/ CheckTerminated(r) \/ EndRound(r) \/ SetExit(r) \/ PollResume(r)
             \/ UserReturn(r) \/ \E t \in Task : UserAwaitJoin(r, t)
    BY <2>1, PanicIsHalt DEF CheckTerminated, EndRound, SetExit, PollResume, Resume,
                             UserReturn, UserAwaitJoin
  <2>2. CASE StartRun(r) \/ CollectReady(r) \/ PollDone(r) \/ PollJoin(r)
    BY <1>1, <2>2, PanicIsHalt DEF StartRun, CollectReady, PollDone, PollJoin, Resume, Panics
  <2>3. CASE SignalTerminated(r)
    <3>1. cur[r] \in Task
      BY <2>3, Polled DEF SignalTerminated, Polling
    <3> QED BY <2>3, <3>1, StoreIsWake DEF SignalTerminated, Inv
  <2>4. ~DropJoin(r)
    BY DEF DropJoin, Disciplined
  <2> QED BY <1>2, <1>5, <2>1, <2>2, <2>3, <2>4, SignalPendingIsPoll, EndsOfPolls,
             PollEventIsPoll, AwaitIsArm DEF RunnerStep, UserSpawn
<1>6. CASE init_executor \/ UNCHANGED vars
  BY <1>6, PanicIsHalt DEF init_executor, vars
<1> QED
  <2>1. \A t \in Task : Signal(t) => Source!Next
    BY SignalIsExpire DEF Inv
  <2> QED BY <1>2, <1>3, <1>4, <1>5, <1>6, <2>1 DEF Next, MainSpawn

\* The executor follows the protocol of an event source, which the timer implements: it
\* lowers a flag at the start of a poll only, arms an event once at a time, ends a wait by
\* a poll only and no poll of an event without leaving the waker, so that every interrupt
\* which finds the waker of a task raises its flag, and the flag stays up until a poll.
THEOREM ExecutorFollowsProtocol ==
    ASSUME Disciplined
    PROVE  Spec => EventProtocol
<1>1. Init => Source!Init
  <2> SUFFICES ASSUME Init PROVE Source!Init
    OBVIOUS
  <2>1. Awake = [t \in Task |-> TRUE] /\ BeingPolled = {}
    BY Distinct, Owners DEF Init, Awake, BeingPolled, InPoll
  <2>2. (panic # "none") = FALSE
    BY DEF Init
  <2> QED BY <2>1, <2>2 DEF Init, Source!Init
<1>2. Inv /\ [Next]_vars => [~(panic # "none") /\ Source!Next]_Source!vars
  BY StepFollowsProtocol
<1> QED BY <1>1, <1>2, InvariantHolds, PTL DEF Spec, EventProtocol, Source!Spec
=============================================================================
