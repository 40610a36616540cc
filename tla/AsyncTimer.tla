----------------------------- MODULE AsyncTimer -----------------------------
(***************************************************************************)
(* The delays of the stm32l4 example (src/examples/stm32l4/src): the eight *)
(* waiter slots of AsyncTimer, its next_deadline and the one-shot timer    *)
(* behind it, used by tasks that a single executor polls one at a time.    *)
(*                                                                         *)
(* A step is one critical section (interrupt::free), the interrupt TIM15,  *)
(* a step of the executor, or one millisecond that passes.  The timer      *)
(* counts milliseconds here; module Timer is its registers.                *)
(***************************************************************************)
EXTENDS Naturals, FiniteSets, FiniteSetsExt

CONSTANTS
    Task,       \* the tasks, one delay at a time each
    None,       \* Option::None
    Slots,      \* the number of waiter slots, 8 in the code
    Durations,  \* the delays that tasks ask for, in milliseconds
    Longest,    \* the longest delay that has a rate in mHz, 1,000,000 in the code
    Prompt,     \* TRUE: every task gets its polls before the next millisecond
    Timed       \* the tasks whose delays are measured

ASSUME TimerAssumption ==
    /\ None \notin Task \cup Nat
    /\ Slots \in Nat /\ Longest \in Nat
    /\ Durations \subseteq Nat
    /\ Prompt \in BOOLEAN
    /\ Timed \subseteq Task

VARIABLES
    initialized,    \* ASYNC_TIMER.is_some()
    deadline,       \* waiters[i].deadline, None for an empty slot
    waker,          \* waiters[i].waker: the task to wake, or None
    next_deadline,
    counter,        \* the milliseconds the timer has left, 0 when it is stopped
    irq,            \* TRUE: the interrupt TIM15 is pending
    index,          \* Delay.index of the delay a task awaits, or None
    flag,           \* TRUE: the state flag of the task is TASK_READY
    running,        \* the task that is being polled, or None
    left,           \* how much of its delay a timed task has really left
    panic           \* why the program panicked, or "none"

waiters == <<deadline, waker>>
hardware == <<counter, irq>>
tasks == <<index, flag, running>>
vars == <<initialized, waiters, next_deadline, hardware, tasks, left, panic>>

Slot == 1 .. Slots
Free == {s \in Slot : deadline[s] = None}
Taken == Slot \ Free

Init ==
    /\ initialized = FALSE
    /\ deadline = [s \in Slot |-> None]
    /\ waker = [s \in Slot |-> None]
    /\ next_deadline = None
    /\ counter = 0
    /\ irq = FALSE
    /\ index = [t \in Task |-> None]
    /\ flag = [t \in Task |-> TRUE]
    /\ running = None
    /\ left = [t \in Task |-> 0]
    /\ panic = "none"

initialize ==
    /\ ~initialized
    /\ initialized' = TRUE
    /\ UNCHANGED <<waiters, next_deadline, hardware, tasks, left, panic>>

Panic(why) ==
    /\ panic' = why
    /\ UNCHANGED <<initialized, waiters, next_deadline, hardware, tasks, left>>

-----------------------------------------------------------------------------
(***************************************************************************)
(* Timer::start(d) starts the count anew.  A delay of 0 has no rate, that  *)
(* of one beyond Longest is rounded down to 0 by which start() divides:    *)
(* both panic.  An interrupt that is pending already stays pending: start  *)
(* clears the flag of the timer, not the latch of the NVIC.                *)
(***************************************************************************)
Startable(d) == 0 < d /\ d <= Longest

start(d) == counter' = d /\ UNCHANGED irq

\* A millisecond passes, and the timer stops and interrupts at the end of its count.
Tick ==
    /\ counter > 0 \/ \E t \in Task : left[t] > 0
    /\ Prompt => ~irq /\ running = None /\ \A t \in Task : ~flag[t]
    /\ counter' = IF counter > 0 THEN counter - 1 ELSE 0
    /\ irq' = (irq \/ counter = 1)
    /\ left' = [t \in Task |-> IF left[t] > 0 THEN left[t] - 1 ELSE 0]
    /\ UNCHANGED <<initialized, waiters, next_deadline, tasks, panic>>

-----------------------------------------------------------------------------
(***************************************************************************)
(* The task being polled: do_poll clears its flag; it goes on in its delay *)
(* or, between two delays, with its own code.                              *)
(***************************************************************************)
Poll(t) ==
    /\ running = None
    /\ flag[t]
    /\ flag' = [flag EXCEPT ![t] = FALSE]
    /\ running' = t
    /\ UNCHANGED <<initialized, waiters, next_deadline, hardware, index, left, panic>>

\* The task defers: it wakes itself and suspends.
Defer ==
    /\ running # None
    /\ index[running] = None
    /\ flag' = [flag EXCEPT ![running] = TRUE]
    /\ running' = None
    /\ UNCHANGED <<initialized, waiters, next_deadline, hardware, index, left, panic>>

FirstFree_Last == Slots

FirstFree == Min(Free)

Sooner(d) == next_deadline # None => d < next_deadline

\* The critical section of schedule(): take the first free slot, and start the
\* timer unless it is running for an earlier deadline already.
schedule(d) ==
    /\ running # None
    /\ index[running] = None
    /\ \/ ~initialized /\ Panic("uninitialized")
       \/ initialized /\ Free = {} /\ Panic("slots")
       \/ /\ initialized /\ Free # {}
          /\ Sooner(d) /\ ~Startable(d)
          /\ Panic("start")
       \/ /\ initialized /\ Free # {}
          /\ Sooner(d) => Startable(d)
          /\ deadline' = [deadline EXCEPT ![FirstFree] = d]
          /\ waker' = [waker EXCEPT ![FirstFree] = None]
          /\ index' = [index EXCEPT ![running] = FirstFree]
          /\ IF Sooner(d) THEN next_deadline' = d /\ start(d)
                          ELSE UNCHANGED <<next_deadline, hardware>>
          /\ left' = IF running \in Timed THEN [left EXCEPT ![running] = d] ELSE left
          /\ UNCHANGED <<initialized, flag, running, panic>>

\* Delay::poll, which is has_expired(): free the slot and go on, or leave the
\* waker, if the slot is taken, and suspend.
FreeSlot(s) ==
    /\ deadline' = [deadline EXCEPT ![s] = None]
    /\ waker' = [waker EXCEPT ![s] = None]

Install_Skipped(s) == UNCHANGED waiters

Install(s) ==
    /\ waker' = IF s \in Free THEN waker ELSE [waker EXCEPT ![s] = running]
    /\ UNCHANGED deadline

has_expired ==
    /\ running # None
    /\ index[running] # None
    /\ LET s == index[running] IN
          \/ /\ deadline[s] = 0
             /\ FreeSlot(s)
             /\ index' = [index EXCEPT ![running] = None]
             /\ left' = [left EXCEPT ![running] = 0]
             /\ UNCHANGED running
          \/ /\ deadline[s] # 0
             /\ Install(s)
             /\ running' = None
             /\ UNCHANGED <<index, left>>
    /\ UNCHANGED <<initialized, next_deadline, hardware, flag, panic>>

-----------------------------------------------------------------------------
(***************************************************************************)
(* The interrupt TIM15: signal() expires the waiters whose deadline is not *)
(* beyond next_deadline, brings the others forward by it, and starts the   *)
(* timer for the earliest of them, whose deadline it does not store.       *)
(***************************************************************************)
Due_Strict == {s \in Taken : deadline[s] < next_deadline}

Due_Unexpired == {s \in Taken : deadline[s] # 0 /\ deadline[s] <= next_deadline}

Due == {s \in Taken : deadline[s] <= next_deadline}

Later == {deadline[s] - next_deadline : s \in Taken \ Due}

Rearm_Forgotten ==
    /\ UNCHANGED counter
    /\ next_deadline' = IF Later = {} THEN None ELSE next_deadline

Rearm_Taken ==
    /\ counter' = IF Later # {} THEN Min(Later) ELSE counter
    /\ next_deadline' = None

Rearm ==
    IF Later # {} THEN counter' = Min(Later) /\ UNCHANGED next_deadline
                  ELSE next_deadline' = None /\ UNCHANGED counter

signal ==
    /\ \/ /\ next_deadline = None
          /\ irq' = FALSE
          /\ UNCHANGED <<waiters, next_deadline, counter, flag, panic>>
       \/ /\ next_deadline # None
          /\ Later # {} /\ Min(Later) > Longest
          /\ panic' = "start"
          /\ UNCHANGED <<waiters, next_deadline, hardware, flag>>
       \/ /\ next_deadline # None
          /\ Later # {} => Min(Later) <= Longest
          /\ irq' = FALSE
          /\ deadline' = [s \in Slot |-> IF s \in Free THEN None
                                         ELSE IF s \in Due THEN 0
                                         ELSE deadline[s] - next_deadline]
          /\ flag' = [t \in Task |-> flag[t] \/ \E s \in Due : waker[s] = t]
          /\ Rearm
          /\ UNCHANGED <<waker, panic>>
    /\ UNCHANGED <<initialized, index, running, left>>

TIM15 == irq /\ signal

-----------------------------------------------------------------------------
TaskStep == Defer \/ has_expired \/ \E d \in Durations : schedule(d)

Next ==
    /\ panic = "none"
    /\ \/ initialize \/ Tick \/ TIM15 \/ TaskStep
       \/ \E t \in Task : Poll(t)

Spec == Init /\ [][Next]_vars

(***************************************************************************)
(* Time passes, a pending interrupt is served, a task being polled goes on *)
(* and its poll ends (tasks cooperate), and a ready task is polled in the  *)
(* end (ReadyIsPolled of Executor).                                        *)
(***************************************************************************)
FairSpec ==
    /\ Spec
    /\ WF_vars(panic = "none" /\ Tick)
    /\ WF_vars(panic = "none" /\ TIM15)
    /\ WF_vars(panic = "none" /\ TaskStep)
    /\ SF_vars(panic = "none" /\ TaskStep /\ running' = None)
    /\ \A t \in Task : SF_vars(panic = "none" /\ Poll(t))

-----------------------------------------------------------------------------
(***************************************************************************)
(* Properties.                                                             *)
(***************************************************************************)
\* Every variable stays in its type.
TypeOK ==
    /\ initialized \in BOOLEAN
    /\ deadline \in [Slot -> Nat \cup {None}]
    /\ waker \in [Slot -> Task \cup {None}]
    /\ next_deadline \in Nat \cup {None}
    /\ counter \in Nat
    /\ irq \in BOOLEAN
    /\ index \in [Task -> Slot \cup {None}]
    /\ flag \in [Task -> BOOLEAN]
    /\ running \in Task \cup {None}
    /\ left \in [Task -> Nat]
    /\ panic \in {"none", "uninitialized", "slots", "start"}

\* While a delay has not expired there is an interrupt to come that will serve it:
\* next_deadline is set and the timer counts or has just fired, although signal()
\* never stores the deadline it starts the timer for.
InterruptToCome ==
    (\E s \in Taken : deadline[s] # 0) =>
        /\ next_deadline # None /\ next_deadline # 0
        /\ counter > 0 \/ irq

\* A taken slot belongs to exactly one delay, and holds no other task's waker: the
\* slot of an expired delay is not reused before its task has seen it expire.
SlotsOwned ==
    /\ \A s \in Taken : \E t \in Task : index[t] = s /\ waker[s] \in {t, None}
    /\ \A t \in Task : index[t] # None => index[t] \in Taken
    /\ \A t, u \in Task : index[t] # None /\ index[t] = index[u] => t = u

\* Every delay ends: its task gets past it, however other delays restart the timer.
EveryDelayEnds ==
    \A t \in Task : index[t] # None ~> (index[t] = None \/ panic # "none")

\* A delay does not end before its time ("Timer capable of providing (at the moment)
\* delays for up to 8 waiters", async_timer.rs:26).
NeverEarly ==
    \A t \in Task : index[t] # None /\ deadline[index[t]] = 0 => left[t] = 0

-----------------------------------------------------------------------------
(***************************************************************************)
(* The delays as a source of events.                                       *)
(***************************************************************************)
Event(t) ==
    IF index[t] = None THEN "none"
    ELSE IF deadline[index[t]] = 0 THEN "expired" ELSE "armed"

Waiting(t) == index[t] # None /\ waker[index[t]] = t

BeingPolled == {running} \ {None}

Events == INSTANCE EventSource WITH
    event <- [t \in Task |-> Event(t)],
    waiting <- [t \in Task |-> Waiting(t)],
    polled <- BeingPolled,
    halted <- panic # "none"

\* The delays follow the protocol of an event source: an interrupt wakes exactly the
\* expired waiters whose wakers it holds, only a poll ends a wait, and a poll that finds
\* its delay not expired leaves the waker as it ends.
EventsSpec == Events!Spec

\* Every delay that is armed expires, which Executor assumes of its events.
DelaysExpire == Events!ArmedExpires
=============================================================================
