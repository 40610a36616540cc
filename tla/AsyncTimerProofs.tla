-------------------------- MODULE AsyncTimerProofs --------------------------
(***************************************************************************)
(* Proofs about the delays, for any number of tasks and slots, any delays  *)
(* and any longest delay.                                                  *)
(***************************************************************************)
EXTENDS AsyncTimer, Arithmetic

-----------------------------------------------------------------------------
(***************************************************************************)
(* The inductive invariant.  InterruptToCome speaks of the deadlines only; *)
(* a delay that is scheduled behind the running one finds the timer as it  *)
(* is, so the timer must run whenever next_deadline is set.                *)
(***************************************************************************)
TimerRuns ==
    next_deadline # None => next_deadline # 0 /\ (counter > 0 \/ irq)

Inv == TypeOK /\ TimerRuns /\ InterruptToCome /\ SlotsOwned

\* The slot that schedule() takes is free.
LEMMA FirstFreeIsFree ==
    ASSUME TypeOK, Free # {}
    PROVE  FirstFree \in Slot /\ deadline[FirstFree] = None
<1>1. Free \in SUBSET Nat
  BY TimerAssumption DEF Free, Slot, TimerAssumption
<1>2. FirstFree \in Free
  BY <1>1, MinIsLeast DEF FirstFree
<1> QED BY <1>2 DEF Free

\* The time that signal() starts the timer for is that of a waiter it leaves waiting.
LEMMA LaterIsPositive ==
    ASSUME TypeOK, next_deadline # None, Later # {}
    PROVE  Later \subseteq Nat \ {0} /\ Min(Later) \in Nat \ {0}
<1>1. ASSUME NEW s \in Taken \ Due
      PROVE  deadline[s] - next_deadline \in Nat \ {0}
  <2>1. s \in Slot /\ deadline[s] \in Nat /\ next_deadline \in Nat
    BY <1>1 DEF TypeOK, Taken, Free
  <2>2. ~(deadline[s] <= next_deadline)
    BY <1>1 DEF Due
  <2> QED BY <2>1, <2>2
<1>2. Later \subseteq Nat \ {0}
  BY <1>1 DEF Later
<1>3. Later \in SUBSET Nat
  BY <1>2
<1> QED BY <1>2, <1>3, MinIsLeast

-----------------------------------------------------------------------------
(***************************************************************************)
(* Every step keeps the invariant.                                         *)
(***************************************************************************)

\* What changes neither the slots nor who owns them leaves them owned.
LEMMA SlotsUntouched ==
    ASSUME SlotsOwned, UNCHANGED <<deadline, waker, index>>
    PROVE  SlotsOwned'
BY DEF SlotsOwned, Taken, Free

\* A step of the executor touches neither the slots nor the timer.
LEMMA ExecutorStepKeeps ==
    ASSUME Inv, Defer \/ initialize \/ \E t \in Task : Poll(t)
    PROVE  Inv'
<1>1. TypeOK'
  <2>1. CASE Defer
    BY <2>1 DEF Inv, TypeOK, Defer, waiters, hardware
  <2>2. CASE initialize
    BY <2>2 DEF Inv, TypeOK, initialize, waiters, hardware, tasks
  <2>3. CASE \E t \in Task : Poll(t)
    BY <2>3 DEF Inv, TypeOK, Poll, waiters, hardware
  <2> QED BY <2>1, <2>2, <2>3
<1>2. UNCHANGED <<deadline, waker, index, next_deadline, counter, irq>>
  BY DEF Defer, initialize, Poll, waiters, hardware, tasks
<1>3. SlotsOwned'
  BY <1>2, SlotsUntouched DEF Inv
<1> QED BY <1>1, <1>2, <1>3 DEF Inv, TimerRuns, InterruptToCome, Taken, Free

\* When a millisecond passes the timer still runs, or has interrupted.
LEMMA TickKeeps ==
    ASSUME Inv, Tick
    PROVE  Inv'
<1>1. counter' \in Nat /\ left' \in [Task -> Nat]
  BY DEF Tick, Inv, TypeOK
<1>2. irq' \in BOOLEAN
  BY DEF Tick, Inv, TypeOK
<1>3. UNCHANGED <<initialized, deadline, waker, index, next_deadline, flag, running, panic>>
  BY DEF Tick, waiters, tasks
<1>4. TypeOK'
  BY <1>1, <1>2, <1>3 DEF Inv, TypeOK
<1>5. counter > 0 \/ irq => counter' > 0 \/ irq'
  <2>1. counter \in Nat
    BY DEF Inv, TypeOK
  <2>2. counter > 1 => counter' > 0
    BY <2>1 DEF Tick
  <2>3. counter = 1 \/ irq => irq'
    BY DEF Tick
  <2> QED BY <2>1, <2>2, <2>3
<1>6. SlotsOwned'
  BY <1>3, SlotsUntouched DEF Inv
<1> QED BY <1>3, <1>4, <1>5, <1>6 DEF Inv, TimerRuns, InterruptToCome, Taken, Free

\* A panic leaves everything as it was.
LEMMA PanicKeeps ==
    ASSUME Inv, NEW why \in {"uninitialized", "slots", "start"}, Panic(why)
    PROVE  Inv'
<1>1. TypeOK'
  BY DEF Inv, TypeOK, Panic, waiters, hardware, tasks
<1>2. UNCHANGED <<deadline, waker, index, next_deadline, counter, irq>>
  BY DEF Panic, waiters, hardware, tasks
<1>3. SlotsOwned'
  BY <1>2, SlotsUntouched DEF Inv
<1> QED BY <1>1, <1>2, <1>3 DEF Inv, TimerRuns, InterruptToCome, Taken, Free

\* The slot of a new delay was free, so it belongs to no other task.
LEMMA TakeKeepsSlotsOwned ==
    ASSUME Inv, NEW t \in Task, index[t] = None,
           NEW s \in Slot, deadline[s] = None, NEW d \in Nat,
           deadline' = [deadline EXCEPT ![s] = d],
           waker' = [waker EXCEPT ![s] = None],
           index' = [index EXCEPT ![t] = s]
    PROVE  SlotsOwned'
<1>1. d # None /\ s # None
  BY TimerAssumption DEF TimerAssumption, Slot
<1>2. Taken' = Taken \cup {s}
  BY <1>1 DEF Taken, Free, Inv, TypeOK
<1>3. \A u \in Task : index[u] # s
  BY <1>1 DEF Inv, SlotsOwned, Taken, Free
<1>4. \A u \in Task : index'[u] = IF u = t THEN s ELSE index[u]
  BY DEF Inv, TypeOK
<1>5. \A r \in Slot : waker'[r] = IF r = s THEN None ELSE waker[r]
  BY DEF Inv, TypeOK
<1>6. ASSUME NEW r \in Taken' PROVE \E u \in Task : index'[u] = r /\ waker'[r] \in {u, None}
  <2>1. CASE r = s
    BY <2>1, <1>4, <1>5
  <2>2. CASE r # s
    <3>1. r \in Taken /\ r \in Slot
      BY <2>2, <1>2 DEF Taken
    <3>2. PICK u \in Task : index[u] = r /\ waker[r] \in {u, None}
      BY <3>1 DEF Inv, SlotsOwned
    <3>3. u # t
      BY <3>1, <3>2, TimerAssumption DEF TimerAssumption, Slot
    <3> QED BY <2>2, <3>1, <3>2, <3>3, <1>4, <1>5
  <2> QED BY <2>1, <2>2
<1>7. \A u \in Task : index'[u] # None => index'[u] \in Taken'
  BY <1>2, <1>4 DEF Inv, SlotsOwned
<1>8. \A u, v \in Task : index'[u] # None /\ index'[u] = index'[v] => u = v
  BY <1>3, <1>4 DEF Inv, SlotsOwned
<1> QED BY <1>6, <1>7, <1>8 DEF SlotsOwned

\* A delay that is scheduled behind the running one relies on the timer as it is.
LEMMA ScheduleKeeps ==
    ASSUME Inv, NEW d \in Durations, schedule(d)
    PROVE  Inv'
<1>1. CASE \E why \in {"uninitialized", "slots", "start"} : Panic(why)
  BY <1>1, PanicKeeps
<1>2. CASE /\ Free # {}
           /\ Sooner(d) => Startable(d)
           /\ deadline' = [deadline EXCEPT ![FirstFree] = d]
           /\ waker' = [waker EXCEPT ![FirstFree] = None]
           /\ index' = [index EXCEPT ![running] = FirstFree]
           /\ IF Sooner(d) THEN next_deadline' = d /\ start(d)
                           ELSE UNCHANGED <<next_deadline, hardware>>
           /\ left' = IF running \in Timed THEN [left EXCEPT ![running] = d] ELSE left
           /\ UNCHANGED <<initialized, flag, running, panic>>
  <2>1. d \in Nat /\ running \in Task /\ index[running] = None
    BY TimerAssumption DEF TimerAssumption, schedule, Inv, TypeOK
  <2>2. FirstFree \in Slot /\ deadline[FirstFree] = None
    BY <1>2, FirstFreeIsFree DEF Inv
  <2>3. SlotsOwned'
    BY <1>2, <2>1, <2>2, TakeKeepsSlotsOwned
  <2>4. deadline' \in [Slot -> Nat \cup {None}] /\ waker' \in [Slot -> Task \cup {None}]
    BY <1>2, <2>1 DEF Inv, TypeOK
  <2>5. index' \in [Task -> Slot \cup {None}] /\ left' \in [Task -> Nat]
    BY <1>2, <2>1, <2>2 DEF Inv, TypeOK
  <2>6. next_deadline' \in Nat \cup {None} /\ counter' \in Nat
    BY <1>2, <2>1 DEF Inv, TypeOK, start, hardware
  <2>7. irq' = irq
    BY <1>2 DEF start, hardware
  <2>8. TypeOK'
    BY <1>2, <2>4, <2>5, <2>6, <2>7 DEF Inv, TypeOK
  <2>9. next_deadline' # None /\ next_deadline' # 0 /\ (counter' > 0 \/ irq')
    <3>1. CASE Sooner(d)
      BY <1>2, <2>1, <3>1, TimerAssumption DEF TimerAssumption, Startable, start
    <3>2. CASE ~Sooner(d)
      BY <1>2, <2>7, <3>2 DEF Sooner, hardware, Inv, TimerRuns
    <3> QED BY <3>1, <3>2
  <2> QED BY <2>3, <2>8, <2>9 DEF Inv, TimerRuns, InterruptToCome
<1> QED BY <1>1, <1>2 DEF schedule

\* The slot that a finished delay gives back is nobody's.
LEMMA HasExpiredKeeps ==
    ASSUME Inv, has_expired
    PROVE  Inv'
<1> DEFINE s == index[running]
<1>1. running \in Task /\ s # None /\ s \in Slot /\ s \in Taken
  BY DEF has_expired, Inv, TypeOK, SlotsOwned
<1>2. UNCHANGED <<initialized, next_deadline, counter, irq, flag, panic>>
  BY DEF has_expired, hardware
<1>3. CASE /\ deadline[s] = 0
           /\ FreeSlot(s)
           /\ index' = [index EXCEPT ![running] = None]
           /\ left' = [left EXCEPT ![running] = 0]
           /\ UNCHANGED running
  <2>1. TypeOK'
    BY <1>1, <1>2, <1>3 DEF Inv, TypeOK, FreeSlot
  <2>2. \A r \in Slot : /\ deadline'[r] = IF r = s THEN None ELSE deadline[r]
                        /\ waker'[r] = IF r = s THEN None ELSE waker[r]
    BY <1>1, <1>3 DEF Inv, TypeOK, FreeSlot
  <2>3. Taken' = Taken \ {s}
    BY <1>1, <2>2 DEF Taken, Free
  <2>4. \A u \in Task : index'[u] = IF u = running THEN None ELSE index[u]
    BY <1>3 DEF Inv, TypeOK
  <2>5. ASSUME NEW r \in Taken'
        PROVE  \E u \in Task : index'[u] = r /\ waker'[r] \in {u, None}
    <3>1. r \in Taken /\ r # s /\ r \in Slot
      BY <2>3 DEF Taken
    <3>2. PICK u \in Task : index[u] = r /\ waker[r] \in {u, None}
      BY <3>1 DEF Inv, SlotsOwned
    <3> QED BY <2>2, <2>4, <3>1, <3>2
  <2>6. \A u \in Task : index'[u] # None => index'[u] \in Taken'
    BY <1>1, <2>3, <2>4 DEF Inv, SlotsOwned
  <2>7. \A u, v \in Task : index'[u] # None /\ index'[u] = index'[v] => u = v
    BY <2>4 DEF Inv, SlotsOwned
  <2>8. SlotsOwned'
    BY <2>5, <2>6, <2>7 DEF SlotsOwned
  <2>9. ASSUME NEW r \in Taken', deadline'[r] # 0
        PROVE  r \in Taken /\ deadline[r] # 0
    BY <2>2, <2>3, <2>9 DEF Taken
  <2> QED BY <1>2, <2>1, <2>8, <2>9 DEF Inv, TimerRuns, InterruptToCome
<1>4. CASE /\ Install(s)
           /\ running' = None
           /\ UNCHANGED <<index, left>>
  <2>1. waker' = [waker EXCEPT ![s] = running] /\ deadline' = deadline
    BY <1>1, <1>4 DEF Install, Taken
  <2>2. TypeOK'
    BY <1>1, <1>2, <1>4, <2>1 DEF Inv, TypeOK
  <2>3. Taken' = Taken
    BY <2>1 DEF Taken, Free
  <2>4. \A r \in Slot : waker'[r] = IF r = s THEN running ELSE waker[r]
    BY <2>1 DEF Inv, TypeOK
  <2>5. ASSUME NEW r \in Taken
        PROVE  \E u \in Task : index[u] = r /\ waker'[r] \in {u, None}
    <3>1. r \in Slot
      BY DEF Taken
    <3>2. PICK u \in Task : index[u] = r /\ waker[r] \in {u, None}
      BY DEF Inv, SlotsOwned
    <3>3. r = s => u = running
      BY <1>1, <3>2 DEF Inv, SlotsOwned
    <3> QED BY <1>1, <2>4, <3>1, <3>2, <3>3
  <2>6. SlotsOwned'
    BY <1>4, <2>3, <2>5 DEF Inv, SlotsOwned
  <2> QED BY <1>2, <2>1, <2>2, <2>3, <2>6 DEF Inv, TimerRuns, InterruptToCome
<1> QED BY <1>3, <1>4 DEF has_expired

\* signal() leaves every slot with its owner, and expires the delays that are due or
\* has the timer started for the others.
LEMMA SignalKeeps ==
    ASSUME Inv, TIM15
    PROVE  Inv'
<1>1. UNCHANGED <<initialized, waker, index, running, left>>
  BY DEF TIM15, signal, waiters
<1>2. CASE /\ next_deadline = None
           /\ irq' = FALSE
           /\ UNCHANGED <<waiters, next_deadline, counter, flag, panic>>
  <2>1. TypeOK'
    BY <1>1, <1>2 DEF Inv, TypeOK, waiters
  <2>2. SlotsOwned'
    BY <1>1, <1>2, SlotsUntouched DEF Inv, waiters
  <2> QED BY <1>2, <2>1, <2>2 DEF Inv, TimerRuns, InterruptToCome, Taken, Free, waiters
<1>3. CASE /\ panic' = "start"
           /\ UNCHANGED <<waiters, next_deadline, hardware, flag>>
  <2>1. Panic("start")
    BY <1>1, <1>3 DEF Panic, tasks
  <2> QED BY <2>1, PanicKeeps
<1>4. CASE /\ next_deadline # None
           /\ irq' = FALSE
           /\ deadline' = [s \in Slot |-> IF s \in Free THEN None
                                          ELSE IF s \in Due THEN 0
                                          ELSE deadline[s] - next_deadline]
           /\ flag' = [t \in Task |-> flag[t] \/ \E s \in Due : waker[s] = t]
           /\ Rearm
           /\ UNCHANGED <<waker, panic>>
  <2>1. ASSUME NEW s \in Slot
        PROVE  /\ s \in Free => deadline'[s] = None
               /\ s \in Due => deadline'[s] = 0
               /\ s \in Taken \ Due => deadline'[s] \in Later
               /\ s \in Taken => s \in Due \/ s \in Taken \ Due
    BY <1>4 DEF Taken, Due, Later
  <2>2. Later \subseteq Nat \ {0}
    BY <1>4, LaterIsPositive DEF Inv
  <2>3. Later # {} => counter' \in Nat \ {0} /\ next_deadline' = next_deadline
    BY <1>4, LaterIsPositive DEF Inv, Rearm
  <2>4. Later = {} => counter' = counter /\ next_deadline' = None
    BY <1>4 DEF Rearm
  <2>5. ASSUME NEW s \in Slot
         PROVE  \/ s \in Free /\ s \notin Taken /\ deadline'[s] = None
                \/ s \notin Free /\ s \in Taken /\ deadline'[s] \in Nat
    <3>1. s \in Taken <=> s \notin Free
      BY DEF Taken
    <3>2. s \in Taken => deadline'[s] = 0 \/ deadline'[s] \in Nat \ {0}
      BY <2>1, <2>2, Zenon
    <3> QED BY <2>1, <3>1, <3>2
  <2>6. Taken' = Taken
    <3>1. \A s \in Slot : deadline'[s] = None <=> s \in Free
      BY <2>5, TimerAssumption DEF TimerAssumption
    <3> QED BY <3>1 DEF Taken, Free
  <2>7. deadline' \in [Slot -> Nat \cup {None}]
    <3>1. DOMAIN deadline' = Slot /\ deadline' = [s \in Slot |-> deadline'[s]]
      BY <1>4
    <3>2. \A s \in Slot : deadline'[s] \in Nat \cup {None}
      BY <2>5
    <3> QED BY <3>1, <3>2
  <2>8. flag' \in [Task -> BOOLEAN]
    BY <1>4 DEF Inv, TypeOK
  <2>9. next_deadline' \in Nat \cup {None} /\ counter' \in Nat
    BY <2>3, <2>4 DEF Inv, TypeOK
  <2>10. TypeOK'
    BY <1>1, <1>4, <2>7, <2>8, <2>9 DEF Inv, TypeOK
  <2>11. SlotsOwned'
    BY <1>1, <2>6 DEF Inv, SlotsOwned
  <2>12. TimerRuns'
    BY <2>3, <2>4, <1>4 DEF Inv, TimerRuns
  <2>13. ASSUME NEW s \in Taken', deadline'[s] # 0
         PROVE  next_deadline' # None
    <3>1. s \in Taken \ Due /\ s \in Slot
      BY <2>1, <2>6, <2>13 DEF Taken
    <3> QED BY <2>1, <2>3, <1>4, <3>1
  <2> QED BY <2>10, <2>11, <2>12, <2>13 DEF Inv, TimerRuns, InterruptToCome
<1> QED BY <1>2, <1>3, <1>4 DEF TIM15, signal

\* Every step keeps the invariant.
LEMMA NextKeeps ==
    ASSUME Inv, [Next]_vars
    PROVE  Inv'
<1>1. CASE UNCHANGED vars
  <2>1. UNCHANGED <<deadline, waker, index, next_deadline, counter, irq>>
    BY <1>1 DEF vars, waiters, hardware, tasks
  <2>2. TypeOK'
    BY <1>1 DEF Inv, TypeOK, vars, waiters, hardware, tasks
  <2>3. SlotsOwned'
    BY <2>1, SlotsUntouched DEF Inv
  <2> QED BY <2>1, <2>2, <2>3 DEF Inv, TimerRuns, InterruptToCome, Taken, Free
<1> QED BY <1>1, ExecutorStepKeeps, TickKeeps, ScheduleKeeps, HasExpiredKeeps, SignalKeeps
        DEF Next, TaskStep

-----------------------------------------------------------------------------
(***************************************************************************)
(* The theorems.                                                           *)
(***************************************************************************)

\* The inductive invariant holds.
THEOREM InvariantHolds == Spec => []Inv
<1>1. Init => Inv
  <2> SUFFICES ASSUME Init PROVE Inv
    OBVIOUS
  <2>1. TypeOK
    BY DEF Init, TypeOK
  <2>2. Taken = {}
    BY DEF Init, Taken, Free
  <2> QED BY <2>1, <2>2 DEF Init, Inv, TimerRuns, InterruptToCome, SlotsOwned
<1>2. Inv /\ [Next]_vars => Inv'
  BY NextKeeps
<1> QED BY <1>1, <1>2, PTL DEF Spec

\* Every variable of the delays stays in its type: no deadline is ever negative.
THEOREM TypeCorrect == Spec => []TypeOK
<1>1. Inv => TypeOK
  BY DEF Inv
<1> QED BY <1>1, InvariantHolds, PTL

\* While a delay has not expired the timer runs or its interrupt is pending, with any
\* number of delays scheduled behind each other and interrupts served late.
THEOREM InterruptComes == Spec => []InterruptToCome
<1>1. Inv => InterruptToCome
  BY DEF Inv
<1> QED BY <1>1, InvariantHolds, PTL

\* A taken slot belongs to exactly one delay and holds no waker but its task's.
THEOREM SlotsStayOwned == Spec => []SlotsOwned
<1>1. Inv => SlotsOwned
  BY DEF Inv
<1> QED BY <1>1, InvariantHolds, PTL

-----------------------------------------------------------------------------
(***************************************************************************)
(* The delays implement EventSource.                                       *)
(***************************************************************************)

\* Steps that leave the slots and their owners alone change no event.
LEMMA EventsUntouched ==
    ASSUME UNCHANGED <<deadline, waker, index>>
    PROVE  /\ UNCHANGED [t \in Task |-> Event(t)]
           /\ UNCHANGED [t \in Task |-> Waiting(t)]
BY DEF Event, Waiting

\* A step that concerns one task changes the event of that task only.
LEMMA EventOfOne ==
    ASSUME NEW t \in Task,
           \A u \in Task \ {t} : Event(u)' = Event(u) /\ Waiting(u)' = Waiting(u)
    PROVE  /\ [u \in Task |-> Event(u)]'
              = [[u \in Task |-> Event(u)] EXCEPT ![t] = Event(t)']
           /\ [u \in Task |-> Waiting(u)]'
              = [[u \in Task |-> Waiting(u)] EXCEPT ![t] = Waiting(t)']
<1>1. [u \in Task |-> Event(u)']
      = [u \in Task |-> IF u = t THEN Event(t)' ELSE Event(u)]
  OBVIOUS
<1>2. [u \in Task |-> Waiting(u)']
      = [u \in Task |-> IF u = t THEN Waiting(t)' ELSE Waiting(u)]
  OBVIOUS
<1> QED BY <1>1, <1>2

\* A panic of the timer is the end of the source of events.
LEMMA PanicHalts ==
    ASSUME Inv, NEW why \in {"uninitialized", "slots", "start"}, Panic(why)
    PROVE  Events!Halt
<1>1. UNCHANGED <<deadline, waker, index, flag, running>>
  BY DEF Panic, waiters, tasks
<1>2. panic' # "none"
  BY DEF Panic
<1> QED BY <1>1, <1>2, EventsUntouched DEF Events!Halt, BeingPolled

\* A task that schedules a delay arms its event, which has not expired: a delay of 0
\* panics, however soon it is.
LEMMA ScheduleArms ==
    ASSUME Inv, NEW d \in Durations, schedule(d)
    PROVE  Events!Halt \/ \E t \in Task : Events!Arm(t)
<1>1. CASE \E why \in {"uninitialized", "slots", "start"} : Panic(why)
  BY <1>1, PanicHalts
<1>2. CASE /\ Free # {}
           /\ Sooner(d) => Startable(d)
           /\ deadline' = [deadline EXCEPT ![FirstFree] = d]
           /\ waker' = [waker EXCEPT ![FirstFree] = None]
           /\ index' = [index EXCEPT ![running] = FirstFree]
           /\ UNCHANGED <<flag, running, panic>>
  <2>1. PICK t \in Task : t = running
    BY DEF schedule, Inv, TypeOK
  <2>2. d \in Nat /\ index[t] = None /\ t # None
    BY <2>1, TimerAssumption DEF TimerAssumption, schedule
  <2>3. FirstFree \in Slot /\ FirstFree # None /\ deadline[FirstFree] = None
    BY <1>2, FirstFreeIsFree, TimerAssumption DEF TimerAssumption, Slot, Inv
  <2>4. d # 0
    <3>1. CASE Sooner(d)
      BY <1>2, <3>1 DEF Startable
    <3>2. CASE ~Sooner(d)
      <4>1. next_deadline \in Nat /\ next_deadline # 0 /\ ~(d < next_deadline)
        BY <3>2 DEF Sooner, Inv, TypeOK, TimerRuns
      <4> QED BY <2>2, <4>1
    <3> QED BY <3>1, <3>2
  <2>5. ASSUME NEW u \in Task \ {t}
        PROVE  Event(u)' = Event(u) /\ Waiting(u)' = Waiting(u)
    <3>1. index'[u] = index[u]
      BY <1>2, <2>1 DEF Inv, TypeOK
    <3>2. index[u] # None => index[u] \in Slot /\ index[u] # FirstFree
      BY <2>3 DEF Inv, SlotsOwned, Taken, Free
    <3>3. index[u] # None => /\ deadline'[index[u]] = deadline[index[u]]
                             /\ waker'[index[u]] = waker[index[u]]
      BY <1>2, <3>2 DEF Inv, TypeOK
    <3> QED BY <3>1, <3>3 DEF Event, Waiting
  <2>6. index'[t] = FirstFree /\ deadline'[FirstFree] = d /\ waker'[FirstFree] = None
    BY <1>2, <2>1, <2>3 DEF Inv, TypeOK
  <2>7. Event(t) = "none" /\ Event(t)' = "armed"
    BY <2>2, <2>3, <2>4, <2>6 DEF Event
  <2>8. Waiting(t)' = Waiting(t)
    BY <2>2, <2>6 DEF Waiting
  <2>9. t \in BeingPolled /\ BeingPolled' = BeingPolled
    BY <1>2, <2>1, <2>2 DEF BeingPolled
  <2>10. Events!Arm(t)
    BY <1>2, <2>5, <2>7, <2>8, <2>9, EventOfOne DEF Events!Arm
  <2> QED BY <2>10
<1> QED BY <1>1, <1>2 DEF schedule

\* The poll of a delay ends it or leaves the waker of its task.
LEMMA HasExpiredPolls ==
    ASSUME Inv, has_expired
    PROVE  \E t \in Task : Events!Finish(t) \/ Events!Wait(t)
<1>1. PICK t \in Task : t = running
  BY DEF has_expired, Inv, TypeOK
<1>2. PICK s \in Slot : s = index[t]
  BY <1>1 DEF has_expired, Inv, TypeOK
<1>3. t # None /\ s # None /\ s \in Taken
  BY <1>1, <1>2 DEF has_expired, Inv, SlotsOwned
<1>4. \A u \in Task \ {t} : index[u] # None => index[u] \in Slot \ {s}
  BY <1>2, <1>3 DEF Inv, SlotsOwned, TypeOK
<1>5. UNCHANGED <<flag, panic>>
  BY DEF has_expired
<1>6. CASE /\ deadline[s] = 0
           /\ FreeSlot(s)
           /\ index' = [index EXCEPT ![t] = None]
           /\ UNCHANGED running
  <2>1. ASSUME NEW u \in Task \ {t}
        PROVE  Event(u)' = Event(u) /\ Waiting(u)' = Waiting(u)
    <3>1. index'[u] = index[u]
      BY <1>6 DEF Inv, TypeOK
    <3>2. index[u] # None => /\ deadline'[index[u]] = deadline[index[u]]
                             /\ waker'[index[u]] = waker[index[u]]
      BY <1>4, <1>6 DEF Inv, TypeOK, FreeSlot
    <3> QED BY <3>1, <3>2 DEF Event, Waiting
  <2>2. index'[t] = None
    BY <1>6 DEF Inv, TypeOK
  <2>3. Event(t) = "expired" /\ Event(t)' = "none" /\ Waiting(t)' = FALSE
    BY <1>2, <1>3, <1>6, <2>2 DEF Event, Waiting
  <2>4. t \in BeingPolled /\ BeingPolled' = BeingPolled
    BY <1>1, <1>3, <1>6 DEF BeingPolled
  <2>5. Events!Finish(t)
    BY <1>5, <2>1, <2>3, <2>4, EventOfOne DEF Events!Finish
  <2> QED BY <2>5
<1>7. CASE /\ deadline[s] # 0
           /\ Install(s)
           /\ running' = None
           /\ UNCHANGED index
  <2>1. waker' = [waker EXCEPT ![s] = t] /\ deadline' = deadline
    BY <1>1, <1>3, <1>7 DEF Install, Taken
  <2>2. ASSUME NEW u \in Task \ {t}
        PROVE  Event(u)' = Event(u) /\ Waiting(u)' = Waiting(u)
    <3>1. index[u] # None => waker'[index[u]] = waker[index[u]]
      BY <1>4, <2>1 DEF Inv, TypeOK
    <3> QED BY <1>7, <2>1, <3>1 DEF Event, Waiting
  <2>3. waker'[s] = t
    BY <2>1 DEF Inv, TypeOK
  <2>4. Event(t) = "armed" /\ Event(t)' = Event(t) /\ Waiting(t)' = TRUE
    BY <1>2, <1>3, <1>7, <2>1, <2>3 DEF Event, Waiting
  <2>5. t \in BeingPolled /\ BeingPolled' = BeingPolled \ {t}
    BY <1>1, <1>3, <1>7 DEF BeingPolled
  <2>6. Events!Wait(t)
    BY <1>5, <2>2, <2>4, <2>5, EventOfOne DEF Events!Wait
  <2> QED BY <2>6
<1> QED BY <1>1, <1>2, <1>6, <1>7 DEF has_expired

\* An interrupt expires the delays that are due, and wakes those that left a waker.
LEMMA SignalExpires ==
    ASSUME Inv, TIM15
    PROVE  \/ UNCHANGED Events!vars
           \/ Events!Halt
           \/ \E S \in SUBSET Task : Events!Expire(S)
<1>1. UNCHANGED <<initialized, waker, index, running, left>>
  BY DEF TIM15, signal, waiters
<1>2. CASE UNCHANGED <<waiters, next_deadline, counter, flag, panic>>
  BY <1>1, <1>2, EventsUntouched DEF Events!vars, BeingPolled, waiters
<1>3. CASE /\ panic' = "start"
           /\ UNCHANGED <<waiters, next_deadline, hardware, flag>>
  <2>1. Panic("start")
    BY <1>1, <1>3 DEF Panic, tasks
  <2> QED BY <2>1, PanicHalts
<1>4. CASE /\ next_deadline # None
           /\ deadline' = [s \in Slot |-> IF s \in Free THEN None
                                          ELSE IF s \in Due THEN 0
                                          ELSE deadline[s] - next_deadline]
           /\ flag' = [t \in Task |-> flag[t] \/ \E s \in Due : waker[s] = t]
           /\ UNCHANGED <<waker, panic>>
  <2> DEFINE S == {t \in Task : index[t] \in Due}
  <2>1. Due \subseteq Taken /\ Taken \subseteq Slot /\ None \notin Slot
    BY TimerAssumption DEF TimerAssumption, Due, Taken, Slot
  <2>2. ASSUME NEW t \in Task
        PROVE  /\ Event(t)' = IF t \in S THEN "expired" ELSE Event(t)
               /\ Waiting(t)' = Waiting(t)
               /\ t \in S => Event(t) # "none"
    <3>1. Waiting(t)' = Waiting(t)
      BY <1>1 DEF Waiting
    <3>2. CASE index[t] = None
      BY <1>1, <2>1, <3>1, <3>2 DEF Event
    <3>3. CASE t \in S
      <4>1. deadline'[index[t]] = 0 /\ index[t] # None
        BY <1>4, <2>1, <3>3 DEF Taken
      <4> QED BY <1>1, <3>1, <3>3, <4>1 DEF Event
    <3>4. CASE t \notin S /\ index[t] # None
      <4>1. PICK s \in Slot : s = index[t] /\ s \in Taken \ Due
        BY <2>1, <3>4 DEF Inv, SlotsOwned
      <4>2. deadline[s] \in Nat /\ next_deadline \in Nat /\ ~(deadline[s] <= next_deadline)
        BY <1>4, <4>1 DEF Inv, TypeOK, Taken, Free, Due
      <4>3. deadline'[s] = deadline[s] - next_deadline
        BY <1>4, <4>1 DEF Taken
      <4>4. deadline[s] # 0 /\ deadline'[s] # 0
        BY <4>2, <4>3
      <4> QED BY <1>1, <3>1, <3>4, <4>1, <4>4 DEF Event
    <3> QED BY <3>2, <3>3, <3>4
  <2>3. ASSUME NEW t \in Task
        PROVE  (\E s \in Due : waker[s] = t) <=> (t \in S /\ Waiting(t))
    <3>1. t # None
      BY TimerAssumption DEF TimerAssumption
    <3>2. ASSUME NEW s \in Due, waker[s] = t PROVE index[t] = s
      BY <2>1, <3>1, <3>2 DEF Inv, SlotsOwned
    <3> QED BY <2>1, <3>2 DEF Waiting
  <2>4. /\ [t \in Task |-> Event(t)]'
           = [t \in Task |-> IF t \in S THEN "expired" ELSE [u \in Task |-> Event(u)][t]]
        /\ [t \in Task |-> Waiting(t)]' = [t \in Task |-> Waiting(t)]
    BY <2>2
  <2>5. flag' = [t \in Task |-> flag[t] \/ (t \in S /\ [u \in Task |-> Waiting(u)][t])]
    BY <1>4, <2>3
  <2>6. \A t \in S : [u \in Task |-> Event(u)][t] # "none"
    BY <2>2
  <2>7. Events!Expire(S)
    BY <1>1, <1>4, <2>4, <2>5, <2>6 DEF Events!Expire, BeingPolled
  <2> QED BY <2>7
<1> QED BY <1>2, <1>3, <1>4 DEF TIM15, signal

\* Every step of the delays is a step of the event source, or changes nothing it sees.
LEMMA StepIsSeen ==
    ASSUME Inv, [Next]_vars
    PROVE  [~(panic # "none") /\ Events!Next]_Events!vars
<1>1. CASE UNCHANGED <<deadline, waker, index, flag, running, panic>>
  BY <1>1, EventsUntouched DEF Events!vars, BeingPolled
<1>2. CASE initialize \/ Tick \/ UNCHANGED vars
  BY <1>1, <1>2 DEF initialize, Tick, vars, waiters, hardware, tasks
<1>3. ASSUME Defer PROVE Events!Next
  <2>1. PICK t \in Task : t = running /\ t # None /\ index[t] = None
    BY <1>3 DEF Defer, Inv, TypeOK
  <2>2. /\ flag' = [flag EXCEPT ![t] = TRUE] /\ running' = None
        /\ UNCHANGED <<deadline, waker, index, panic>>
    BY <1>3, <2>1 DEF Defer, waiters
  <2>3. flag' = [u \in Task |-> flag[u] \/ u \in {t}]
    BY <2>2 DEF Inv, TypeOK
  <2>4. t \in BeingPolled /\ BeingPolled' = BeingPolled \ {t}
    BY <2>1, <2>2 DEF BeingPolled
  <2>5. Event(t) = "none"
    BY <2>1 DEF Event
  <2>6. Events!Suspend(t, {t})
    BY <2>2, <2>3, <2>4, <2>5, EventsUntouched DEF Events!Suspend
  <2>7. {t} \in SUBSET Task
    OBVIOUS
  <2> QED BY <2>6, <2>7 DEF Events!Next
<1>4. ASSUME NEW t \in Task, Poll(t) PROVE Events!Next
  <2>1. /\ flag[t] /\ flag' = [flag EXCEPT ![t] = FALSE] /\ running = None /\ running' = t
        /\ t # None /\ UNCHANGED <<deadline, waker, index, panic>>
    BY <1>4, TimerAssumption DEF Poll, waiters, TimerAssumption
  <2>2. t \notin BeingPolled /\ BeingPolled' = BeingPolled \cup {t}
    BY <2>1 DEF BeingPolled
  <2>3. Events!Poll(t)
    BY <2>1, <2>2, EventsUntouched DEF Events!Poll
  <2> QED BY <2>3 DEF Events!Next
<1>5. ASSUME NEW d \in Durations, schedule(d) PROVE Events!Next
  BY <1>5, ScheduleArms DEF Events!Next
<1>6. ASSUME has_expired PROVE Events!Next
  BY <1>6, HasExpiredPolls DEF Events!Next
<1>7. ASSUME TIM15 PROVE UNCHANGED Events!vars \/ Events!Next
  BY <1>7, SignalExpires DEF Events!Next
<1> QED BY <1>2, <1>3, <1>4, <1>5, <1>6, <1>7 DEF Next, TaskStep

\* The delays of the example are a source of events as the executor expects it: they
\* wake exactly the tasks whose delays have ended and that have left a waker.
THEOREM DelaysAreEvents == Spec => EventsSpec
<1>1. Init => Events!Init
  <2> SUFFICES ASSUME Init PROVE Events!Init
    OBVIOUS
  <2>1. \A t \in Task : Event(t) = "none" /\ Waiting(t) = FALSE
    BY DEF Init, Event, Waiting
  <2>2. BeingPolled = {}
    BY DEF Init, BeingPolled
  <2> QED BY <2>1, <2>2 DEF Init, Events!Init
<1>2. Inv /\ [Next]_vars => [~(panic # "none") /\ Events!Next]_Events!vars
  BY StepIsSeen
<1> QED BY <1>1, <1>2, InvariantHolds, PTL DEF Spec, EventsSpec, Events!Spec

\* What the protocol is for: a delay that has expired is being polled, or the flag of its
\* task is up and stays up until the poll.  An interrupt that falls between schedule() and
\* has_expired() finds no waker, and one that falls after do_poll has lowered the flag
\* raises it again; neither is lost.
THEOREM ExpiriesAreHeard == Spec => []Events!Heard
<1>1. Events!Init => Events!Heard /\ Events!WakerLeft
  BY DEF Events!Init, Events!Heard, Events!WakerLeft
<1>2. ASSUME Inv, Inv', Events!Heard, Events!WakerLeft, [~(panic # "none") /\ Events!Next]_Events!vars
      PROVE  Events!Heard' /\ Events!WakerLeft'
  <2> USE DEF Events!Heard, Events!WakerLeft
  <2>1. flag \in [Task -> BOOLEAN]
    BY <1>2 DEF Inv, TypeOK
  <2>2. CASE UNCHANGED Events!vars
    BY <1>2, <2>2 DEF Events!vars
  <2>3. ASSUME NEW t \in Task, Events!Poll(t) \/ Events!Wake(t)
        PROVE  Events!Heard' /\ Events!WakerLeft'
    BY <1>2, <2>1, <2>3 DEF Events!Poll, Events!Wake
  <2>4. ASSUME NEW t \in Task, Events!Arm(t) \/ Events!Finish(t) \/ Events!Wait(t)
        PROVE  Events!Heard' /\ Events!WakerLeft'
    BY <1>2, <2>1, <2>4 DEF Events!Arm, Events!Finish, Events!Wait
  <2>5. ASSUME NEW t \in Task, NEW S \in SUBSET Task, Events!Suspend(t, S)
        PROVE  Events!Heard' /\ Events!WakerLeft'
    BY <1>2, <2>1, <2>5 DEF Events!Suspend
  <2>6. ASSUME NEW S \in SUBSET Task, Events!Expire(S)
        PROVE  Events!Heard' /\ Events!WakerLeft'
    <3>1. \A t \in Task : Event(t) \in {"none", "armed", "expired"}
      BY DEF Event
    <3>2. \A t \in Task : /\ [u \in Task |-> Event(u)]'[t] = IF t \in S THEN "expired" ELSE Event(t)
                         /\ [u \in Task |-> Waiting(u)]'[t] = Waiting(t)
                         /\ BeingPolled' = BeingPolled
      BY <2>6 DEF Events!Expire
    <3>3. \A t \in Task : /\ t \in S => Event(t) # "none"
                         /\ flag'[t] = (flag[t] \/ (t \in S /\ Waiting(t)))
      BY <2>6 DEF Events!Expire
    <3> QED BY <1>2, <3>1, <3>2, <3>3
  <2>7. CASE Events!Halt
    BY <1>2, <2>7 DEF Events!Halt
  <2> QED BY <1>2, <2>2, <2>3, <2>4, <2>5, <2>6, <2>7 DEF Events!Next
<1> QED BY <1>1, <1>2, InvariantHolds, DelaysAreEvents, PTL DEF EventsSpec, Events!Spec
=============================================================================
