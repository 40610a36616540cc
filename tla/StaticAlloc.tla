---------------------------- MODULE StaticAlloc -----------------------------
(***************************************************************************)
(* spawn() of the std build, memory access by memory access: the bump      *)
(* allocator StaticAlloc (src/src/alloc/static_alloc.rs) and the push into *)
(* Executor.tasks (Executor::schedule).  Neither is a critical section, so *)
(* the steps of two contexts that spawn may interleave.                    *)
(***************************************************************************)
EXTENDS Naturals, FiniteSets

CONSTANTS
    Task,       \* the tasks, one TCB each
    Caller,     \* the contexts that call spawn()
    None,       \* no task
    Base,       \* StaticAlloc.start
    Length,     \* StaticAlloc.len
    TaskCap,    \* capacity of Executor.tasks
    Layouts     \* size_of and align_of of the TCBs, [size, align]

ASSUME StaticAllocAssumption ==
    /\ None \notin Task
    /\ Base \in Nat /\ Length \in Nat /\ TaskCap \in Nat
    /\ Layouts \subseteq [size : Nat \ {0}, align : Nat \ {0}]

VARIABLES
    pos,        \* StaticAlloc.pos
    buffer,     \* the memory of Executor.tasks
    len,        \* its length
    tcb,        \* the block of a task: offset and layout
    outcome,    \* what spawn returned for the task
    pc,         \* where a caller is in spawn()
    task,       \* the task it spawns
    new_pos,    \* the local of alloc()
    at,         \* the length that push has read
    raced       \* TRUE: two callers were inside spawn() at the same time

list == <<buffer, len>>
locals == <<task, new_pos, at>>
vars == <<pos, list, tcb, outcome, pc, locals, raced>>

NoBlock == [offset |-> 0, size |-> 0, align |-> 1]

Init ==
    /\ pos = 0
    /\ buffer = [i \in 1 .. TaskCap |-> None]
    /\ len = 0
    /\ tcb = [t \in Task |-> NoBlock]
    /\ outcome = [t \in Task |-> "unspawned"]
    /\ pc = [c \in Caller |-> "idle"]
    /\ task = [c \in Caller |-> None]
    /\ new_pos = [c \in Caller |-> 0]
    /\ at = [c \in Caller |-> 0]
    /\ raced = FALSE

Goto(c, place) == pc' = [pc EXCEPT ![c] = place]

-----------------------------------------------------------------------------
\* Rounds up n to the nearest multiple of m.
round_up_Down(n, m) == n - (n % m)

round_up_None(n, m) == n

round_up(n, m) == IF n % m = 0 THEN n ELSE (n + m) - (n % m)

\* spawn() enters alloc(): pos is read and rounded up for the new TCB.
alloc(c, t, l) ==
    /\ pc[c] = "idle"
    /\ outcome[t] = "unspawned"
    /\ \A d \in Caller : task[d] # t
    /\ task' = [task EXCEPT ![c] = t]
    /\ new_pos' = [new_pos EXCEPT ![c] = round_up(pos, l.align)]
    /\ tcb' = [tcb EXCEPT ![t] = [offset |-> round_up(pos, l.align), size |-> l.size,
                                  align |-> l.align]]
    /\ Goto(c, "bump")
    /\ raced' = (raced \/ \E d \in Caller : pc[d] # "idle")
    /\ UNCHANGED <<pos, list, outcome, at>>

\* alloc() writes pos, unless memory is exhausted, which TCB::allocate unwraps.
Fits_Loose(c) == new_pos[c] <= Length

Fits(c) == new_pos[c] + tcb[task[c]].size < Length

Bump(c) ==
    /\ pc[c] = "bump"
    /\ IF Fits(c) THEN /\ pos' = new_pos[c] + tcb[task[c]].size
                       /\ Goto(c, "read")
                       /\ UNCHANGED tcb
                  ELSE /\ tcb' = [tcb EXCEPT ![task[c]] = NoBlock]
                       /\ Goto(c, "panic")
                       /\ UNCHANGED pos
    /\ UNCHANGED <<list, outcome, locals, raced>>

\* Vec::push reads the length, and answers Err if the list is full.
ReadLen(c) ==
    /\ pc[c] = "read"
    /\ at' = [at EXCEPT ![c] = len]
    /\ Goto(c, IF len < TaskCap THEN "store" ELSE "full")
    /\ UNCHANGED <<pos, list, tcb, outcome, task, new_pos, raced>>

\* It stores the task and then the new length.
StoreTask(c) ==
    /\ pc[c] = "store"
    /\ buffer' = [buffer EXCEPT ![at[c] + 1] = task[c]]
    /\ Goto(c, "grow")
    /\ UNCHANGED <<pos, len, tcb, outcome, locals, raced>>

Return(c, result) ==
    /\ outcome' = [outcome EXCEPT ![task[c]] = result]
    /\ task' = [task EXCEPT ![c] = None]
    /\ Goto(c, "idle")
    /\ UNCHANGED <<pos, buffer, tcb, new_pos, at, raced>>

Grow_Forgotten(c) ==
    /\ pc[c] = "grow"
    /\ len' = IF len = 0 THEN 1 ELSE len
    /\ Return(c, "ok")

Grow(c) ==
    /\ pc[c] = "grow"
    /\ len' = at[c] + 1
    /\ Return(c, "ok")

TaskListFull(c) ==
    /\ pc[c] = "full"
    /\ Return(c, "TaskListFull")
    /\ UNCHANGED len

Next ==
    /\ \A c \in Caller : pc[c] # "panic"
    /\ \E c \in Caller :
          \/ \E t \in Task, l \in Layouts : alloc(c, t, l)
          \/ Bump(c) \/ ReadLen(c) \/ StoreTask(c) \/ Grow(c) \/ TaskListFull(c)

Spec == Init /\ [][Next]_vars

-----------------------------------------------------------------------------
(***************************************************************************)
(* Properties.                                                             *)
(***************************************************************************)
Blocks == [offset : Nat, size : Nat, align : Nat \ {0}]

\* Every variable stays in its type, pos inside the memory and len in the list.
TypeOK ==
    /\ pos \in 0 .. Length
    /\ buffer \in [1 .. TaskCap -> Task \cup {None}] /\ len \in 0 .. TaskCap
    /\ tcb \in [Task -> Blocks]
    /\ outcome \in [Task -> {"unspawned", "ok", "TaskListFull"}]
    /\ pc \in [Caller -> {"idle", "bump", "read", "store", "grow", "full", "panic"}]
    /\ task \in [Caller -> Task \cup {None}]
    /\ new_pos \in [Caller -> Nat]
    /\ at \in [Caller -> 0 .. TaskCap]
    /\ raced \in BOOLEAN

Apart(a, b) ==
    a.size = 0 \/ b.size = 0 \/ a.offset + a.size <= b.offset \/ b.offset + b.size <= a.offset

\* As long as no two contexts spawn at the same time, the TCBs do not overlap, and lie
\* inside the memory once alloc() has returned.
BlocksDisjoint ==
    ~raced => \A t, u \in Task :
        /\ t # u => Apart(tcb[t], tcb[u])
        /\ outcome[t] # "unspawned" => tcb[t].offset + tcb[t].size <= Length

\* A TCB is aligned if the memory is: alloc() aligns the offset, not the address.
AlignedIfBaseIs ==
    \A t \in Task : Base % tcb[t].align = 0 => (Base + tcb[t].offset) % tcb[t].align = 0

\* As long as no two contexts spawn at the same time, exactly the tasks for which spawn
\* has returned Ok are in the list, each once.
SpawnedIsListed ==
    ~raced => \A t \in Task :
        outcome[t] = "ok" <=>
            Cardinality({i \in 1 .. len : buffer[i] = t}) = 1
=============================================================================
