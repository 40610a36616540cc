------------------------- MODULE StaticAllocProofs --------------------------
(***************************************************************************)
(* Proofs about spawn() of the std build, for any memory, any list and any *)
(* layouts of the TCBs, and any number of contexts that spawn.             *)
(***************************************************************************)
EXTENDS StaticAlloc, Arithmetic, FiniteSetTheorems

-----------------------------------------------------------------------------
(***************************************************************************)
(* The inductive invariant.  The first two parts hold whoever spawns; the  *)
(* others need that the contexts inside spawn() have taken turns.          *)
(***************************************************************************)

\* A caller inside spawn() has a task of its own that is not spawned yet, and the length
\* that it has read leaves room for one more task.
LocalsInv ==
    \A c \in Caller :
        /\ pc[c] = "idle" => task[c] = None
        /\ pc[c] # "idle" => task[c] \in Task /\ outcome[task[c]] = "unspawned"
        /\ pc[c] \in {"store", "grow"} => at[c] < TaskCap
        /\ \A d \in Caller : task[c] # None /\ task[c] = task[d] => c = d

\* Offsets are rounded up to the alignment of their blocks.
OffsetsAligned == \A t \in Task : tcb[t].offset % tcb[t].align = 0

TakingTurns == \A c, d \in Caller : pc[c] # "idle" /\ pc[d] # "idle" => c = d

\* Blocks end below pos but for the one that pos has not passed yet, and blocks that end
\* below pos when another one begins above it cannot overlap.
BlocksBelowPos ==
    /\ \A c \in Caller : pc[c] = "bump" =>
          new_pos[c] = tcb[task[c]].offset /\ pos <= new_pos[c]
    /\ \A t \in Task : \/ tcb[t].offset + tcb[t].size <= pos
                       \/ \E c \in Caller : pc[c] = "bump" /\ task[c] = t
    /\ \A t, u \in Task : t # u => Apart(tcb[t], tcb[u])

\* The list up to its length holds the spawned tasks, once each, and the task that is
\* being pushed waits in the place behind.
ListHoldsSpawned ==
    /\ \A c \in Caller : /\ pc[c] \in {"store", "grow"} => at[c] = len
                         /\ pc[c] = "grow" => buffer[len + 1] = task[c]
    /\ \A t \in Task : outcome[t] = "ok" <=> \E i \in 1 .. len : buffer[i] = t
    /\ \A i, j \in 1 .. len : buffer[i] = buffer[j] /\ buffer[i] \in Task => i = j

Inv ==
    /\ TypeOK
    /\ LocalsInv
    /\ OffsetsAligned
    /\ ~raced => TakingTurns /\ BlocksBelowPos /\ ListHoldsSpawned

-----------------------------------------------------------------------------
(***************************************************************************)
(* Every step keeps the invariant.                                         *)
(***************************************************************************)

\* round_up() returns a multiple that is not below its argument.
LEMMA RoundUp ==
    ASSUME NEW n \in Nat, NEW m \in Nat \ {0}
    PROVE  round_up(n, m) \in Nat /\ n <= round_up(n, m) /\ round_up(n, m) % m = 0
<1>1. n % m \in Nat /\ n % m < m
  BY DivMod
<1>2. ((n + m) - (n % m)) % m = 0
  OBVIOUS
<1> QED BY <1>1, <1>2 DEF round_up

\* alloc() places the new block behind pos, aligned.
LEMMA AllocKeeps ==
    ASSUME Inv, NEW c \in Caller, NEW t \in Task, NEW l \in Layouts, alloc(c, t, l)
    PROVE  Inv'
<1> DEFINE new == [offset |-> round_up(pos, l.align), size |-> l.size, align |-> l.align]
<1>1. l.size \in Nat /\ l.align \in Nat \ {0} /\ pos \in Nat
  BY StaticAllocAssumption DEF StaticAllocAssumption, Inv, TypeOK
<1>2. new.offset \in Nat /\ pos <= new.offset /\ new.offset % new.align = 0
  BY <1>1, RoundUp
<1>3. new \in Blocks /\ new.offset = round_up(pos, l.align)
  BY <1>1, <1>2 DEF Blocks
<1> HIDE DEF new
<1>4. /\ pc[c] = "idle" /\ outcome[t] = "unspawned"
      /\ \A d \in Caller : task[d] # t
      /\ UNCHANGED <<pos, buffer, len, outcome, at>>
  BY DEF alloc, list
<1>5. /\ task' = [task EXCEPT ![c] = t]
      /\ pc' = [pc EXCEPT ![c] = "bump"]
      /\ tcb' = [tcb EXCEPT ![t] = new]
      /\ new_pos' = [new_pos EXCEPT ![c] = new.offset]
  BY <1>3 DEF alloc, Goto, new
<1>6. raced' \in BOOLEAN /\ (~raced' => ~raced /\ \A d \in Caller : pc[d] = "idle")
  BY DEF alloc, Inv, TypeOK
<1>7. TypeOK'
  BY <1>2, <1>3, <1>4, <1>5, <1>6 DEF Inv, TypeOK
<1>8. /\ \A d \in Caller : /\ task'[d] = IF d = c THEN t ELSE task[d]
                           /\ pc'[d] = IF d = c THEN "bump" ELSE pc[d]
                           /\ new_pos'[d] = IF d = c THEN new.offset ELSE new_pos[d]
      /\ \A u \in Task : tcb'[u] = IF u = t THEN new ELSE tcb[u]
  BY <1>5 DEF Inv, TypeOK
<1>9. LocalsInv'
  BY <1>4, <1>8, StaticAllocAssumption DEF StaticAllocAssumption, Inv, LocalsInv
<1>10. OffsetsAligned'
  BY <1>2, <1>8 DEF Inv, OffsetsAligned
<1>11. ASSUME ~raced' PROVE TakingTurns' /\ BlocksBelowPos' /\ ListHoldsSpawned'
  <2>1. ~raced /\ \A d \in Caller : pc[d] = "idle"
    BY <1>6, <1>11
  <2>2. TakingTurns'
    BY <1>8, <2>1 DEF TakingTurns
  <2>3. \A u \in Task : tcb[u] \in Blocks /\ tcb[u].offset + tcb[u].size <= pos
    BY <2>1 DEF Inv, TypeOK, BlocksBelowPos
  <2>4. \A u \in Task : Apart(tcb[u], new) /\ Apart(new, tcb[u])
    BY <1>1, <1>2, <1>3, <2>3 DEF Apart, Blocks
  <2>5. \A u, v \in Task : u # v => Apart(tcb'[u], tcb'[v])
    BY <1>8, <2>1, <2>4 DEF Inv, BlocksBelowPos
  <2>6. \A d \in Caller : pc'[d] = "bump" => new_pos'[d] = tcb'[task'[d]].offset /\ pos <= new_pos'[d]
    BY <1>2, <1>8, <2>1
  <2>7. \A u \in Task : \/ tcb'[u].offset + tcb'[u].size <= pos
                        \/ \E d \in Caller : pc'[d] = "bump" /\ task'[d] = u
    BY <1>8, <2>3
  <2>8. BlocksBelowPos'
    BY <1>4, <2>5, <2>6, <2>7 DEF BlocksBelowPos
  <2>9. ListHoldsSpawned'
    BY <1>4, <1>8, <2>1 DEF Inv, ListHoldsSpawned
  <2> QED BY <2>2, <2>8, <2>9
<1> QED BY <1>7, <1>9, <1>10, <1>11 DEF Inv

\* alloc() moves pos behind the new block, or leaves no block when memory is exhausted.
LEMMA BumpKeeps ==
    ASSUME Inv, NEW c \in Caller, Bump(c)
    PROVE  Inv'
<1>1. PICK t \in Task : t = task[c]
  BY DEF Bump, Inv, LocalsInv
<1>2. /\ pc[c] = "bump" /\ new_pos[c] \in Nat /\ tcb[t] \in Blocks /\ tcb[t].size \in Nat
      /\ UNCHANGED <<buffer, len, outcome, task, new_pos, at, raced>>
  BY DEF Bump, Inv, TypeOK, Blocks, list, locals
<1>3. CASE /\ Fits(c)
           /\ pos' = new_pos[c] + tcb[task[c]].size
           /\ pc' = [pc EXCEPT ![c] = "read"]
           /\ UNCHANGED tcb
  <2>1. pos' = new_pos[c] + tcb[t].size /\ pos' \in 0 .. Length
    BY <1>1, <1>2, <1>3, StaticAllocAssumption DEF StaticAllocAssumption, Fits
  <2>2. TypeOK'
    BY <1>2, <1>3, <2>1 DEF Inv, TypeOK
  <2>3. \A d \in Caller : pc'[d] = IF d = c THEN "read" ELSE pc[d]
    BY <1>3 DEF Inv, TypeOK
  <2>4. LocalsInv' /\ OffsetsAligned'
    BY <1>2, <1>3, <2>3 DEF Inv, LocalsInv, OffsetsAligned
  <2>5. ASSUME ~raced PROVE TakingTurns' /\ BlocksBelowPos' /\ ListHoldsSpawned'
    <3>1. TakingTurns'
      BY <1>2, <2>3, <2>5 DEF Inv, TakingTurns
    <3>2. \A d \in Caller : d # c => pc[d] = "idle"
      BY <1>2, <2>5 DEF Inv, TakingTurns
    <3>3. new_pos[c] = tcb[t].offset /\ pos <= new_pos[c] /\ pos \in Nat
      BY <1>1, <1>2, <2>5 DEF Inv, BlocksBelowPos, TypeOK
    <3>4. ASSUME NEW u \in Task PROVE tcb[u].offset + tcb[u].size <= pos'
      <4>1. tcb[u].offset \in Nat /\ tcb[u].size \in Nat
        BY DEF Inv, TypeOK, Blocks
      <4>2. u = t \/ tcb[u].offset + tcb[u].size <= pos
        BY <1>1, <2>5, <3>2 DEF Inv, BlocksBelowPos
      <4> QED BY <1>2, <2>1, <3>3, <4>1, <4>2
    <3>5. BlocksBelowPos'
      BY <1>3, <2>3, <2>5, <3>2, <3>4 DEF Inv, BlocksBelowPos
    <3>6. ListHoldsSpawned'
      BY <1>2, <2>3, <2>5 DEF Inv, ListHoldsSpawned
    <3> QED BY <3>1, <3>5, <3>6
  <2> QED BY <1>2, <2>2, <2>4, <2>5 DEF Inv
<1>4. CASE /\ tcb' = [tcb EXCEPT ![task[c]] = NoBlock]
           /\ pc' = [pc EXCEPT ![c] = "panic"]
           /\ UNCHANGED pos
  <2>1. NoBlock \in Blocks /\ NoBlock.size = 0 /\ NoBlock.offset = 0 /\ NoBlock.align = 1
    BY DEF NoBlock, Blocks
  <2>2. TypeOK'
    BY <1>2, <1>4, <2>1 DEF Inv, TypeOK
  <2>3. /\ \A d \in Caller : pc'[d] = IF d = c THEN "panic" ELSE pc[d]
        /\ \A u \in Task : tcb'[u] = IF u = t THEN NoBlock ELSE tcb[u]
    BY <1>1, <1>4 DEF Inv, TypeOK
  <2>4. LocalsInv'
    BY <1>2, <2>3 DEF Inv, LocalsInv
  <2>5. OffsetsAligned'
    <3>1. 0 % 1 = 0
      OBVIOUS
    <3> QED BY <2>1, <2>3, <3>1 DEF Inv, OffsetsAligned
  <2>6. ASSUME ~raced PROVE TakingTurns' /\ BlocksBelowPos' /\ ListHoldsSpawned'
    <3>1. TakingTurns'
      BY <1>2, <2>3, <2>6 DEF Inv, TakingTurns
    <3>2. \A d \in Caller : d # c => pc[d] = "idle"
      BY <1>2, <2>6 DEF Inv, TakingTurns
    <3>3. \A u, v \in Task : u # v => Apart(tcb'[u], tcb'[v])
      BY <2>1, <2>3, <2>6 DEF Inv, BlocksBelowPos, Apart
    <3>4. ASSUME NEW u \in Task PROVE tcb'[u].offset + tcb'[u].size <= pos
      <4>1. 0 + 0 <= pos
        BY DEF Inv, TypeOK
      <4> QED BY <1>1, <2>1, <2>3, <2>6, <3>2, <4>1 DEF Inv, BlocksBelowPos
    <3>5. BlocksBelowPos'
      BY <1>4, <2>3, <3>2, <3>3, <3>4 DEF BlocksBelowPos
    <3>6. ListHoldsSpawned'
      BY <1>2, <2>3, <2>6 DEF Inv, ListHoldsSpawned
    <3> QED BY <3>1, <3>5, <3>6
  <2> QED BY <1>2, <2>2, <2>4, <2>5, <2>6 DEF Inv
<1> QED BY <1>3, <1>4 DEF Bump, Goto

\* Steps behind the allocation leave the blocks, and pos, alone.
LEMMA BlocksUntouched ==
    ASSUME Inv, ~raced, UNCHANGED <<pos, tcb, new_pos>>,
           \A d \in Caller : pc'[d] = "bump" <=> pc[d] = "bump",
           \A d \in Caller : pc[d] = "bump" => task'[d] = task[d]
    PROVE  BlocksBelowPos'
BY DEF Inv, BlocksBelowPos

\* Vec::push has room behind the length it has read.
LEMMA ReadLenKeeps ==
    ASSUME Inv, NEW c \in Caller, ReadLen(c)
    PROVE  Inv'
<1> DEFINE place == IF len < TaskCap THEN "store" ELSE "full"
<1>1. /\ pc[c] = "read" /\ len \in 0 .. TaskCap
      /\ UNCHANGED <<pos, buffer, len, tcb, outcome, task, new_pos, raced>>
      /\ at' = [at EXCEPT ![c] = len]
      /\ pc' = [pc EXCEPT ![c] = place]
  BY DEF ReadLen, Goto, list, Inv, TypeOK
<1>2. TypeOK'
  BY <1>1 DEF Inv, TypeOK
<1>3. \A d \in Caller : /\ pc'[d] = IF d = c THEN place ELSE pc[d]
                        /\ at'[d] = IF d = c THEN len ELSE at[d]
  BY <1>1 DEF Inv, TypeOK
<1>4. LocalsInv' /\ OffsetsAligned'
  BY <1>1, <1>3 DEF Inv, LocalsInv, OffsetsAligned
<1>5. ASSUME ~raced PROVE TakingTurns' /\ BlocksBelowPos' /\ ListHoldsSpawned'
  <2>1. TakingTurns'
    BY <1>1, <1>3, <1>5 DEF Inv, TakingTurns
  <2>2. BlocksBelowPos'
    <3>1. /\ \A d \in Caller : pc'[d] = "bump" <=> pc[d] = "bump"
          /\ \A d \in Caller : pc[d] = "bump" => task'[d] = task[d]
      BY <1>1, <1>3 DEF place
    <3>2. UNCHANGED <<pos, tcb, new_pos>>
      BY <1>1
    <3> QED BY <1>5, <3>1, <3>2, BlocksUntouched
  <2>3. ListHoldsSpawned'
    BY <1>1, <1>3, <1>5 DEF Inv, ListHoldsSpawned
  <2> QED BY <2>1, <2>2, <2>3
<1> QED BY <1>1, <1>2, <1>4, <1>5 DEF Inv

\* The store is behind the end of the list, unless another context has grown it.
LEMMA StoreTaskKeeps ==
    ASSUME Inv, NEW c \in Caller, StoreTask(c)
    PROVE  Inv'
<1>1. /\ pc[c] = "store" /\ task[c] \in Task /\ at[c] \in Nat /\ at[c] < TaskCap
      /\ UNCHANGED <<pos, len, tcb, outcome, task, new_pos, at, raced>>
      /\ buffer' = [buffer EXCEPT ![at[c] + 1] = task[c]]
      /\ pc' = [pc EXCEPT ![c] = "grow"]
  BY DEF StoreTask, Goto, locals, Inv, TypeOK, LocalsInv
<1>2. at[c] + 1 \in 1 .. TaskCap /\ len \in Nat
  BY <1>1, StaticAllocAssumption DEF StaticAllocAssumption, Inv, TypeOK
<1>3. TypeOK'
  BY <1>1, <1>2 DEF Inv, TypeOK
<1>4. /\ \A d \in Caller : pc'[d] = IF d = c THEN "grow" ELSE pc[d]
      /\ \A i \in 1 .. TaskCap : buffer'[i] = IF i = at[c] + 1 THEN task[c] ELSE buffer[i]
  BY <1>1 DEF Inv, TypeOK
<1>5. LocalsInv' /\ OffsetsAligned'
  BY <1>1, <1>4 DEF Inv, LocalsInv, OffsetsAligned
<1>6. ASSUME ~raced PROVE TakingTurns' /\ BlocksBelowPos' /\ ListHoldsSpawned'
  <2>1. TakingTurns'
    BY <1>1, <1>4, <1>6 DEF Inv, TakingTurns
  <2>2. BlocksBelowPos'
    <3>1. /\ \A d \in Caller : pc'[d] = "bump" <=> pc[d] = "bump"
          /\ \A d \in Caller : pc[d] = "bump" => task'[d] = task[d]
      BY <1>1, <1>4
    <3>2. UNCHANGED <<pos, tcb, new_pos>>
      BY <1>1
    <3> QED BY <1>6, <3>1, <3>2, BlocksUntouched
  <2>3. at[c] = len /\ \A d \in Caller : d # c => pc[d] = "idle"
    BY <1>1, <1>6 DEF Inv, ListHoldsSpawned, TakingTurns
  <2>4. /\ buffer'[len + 1] = task[c]
        /\ \A i \in 1 .. len : buffer'[i] = buffer[i]
    BY <1>1, <1>2, <1>4, <2>3
  <2>5. ListHoldsSpawned'
    BY <1>1, <1>4, <1>6, <2>3, <2>4 DEF Inv, ListHoldsSpawned
  <2> QED BY <2>1, <2>2, <2>5
<1> QED BY <1>1, <1>3, <1>5, <1>6 DEF Inv

\* The new length takes in the task that was stored behind the list.
LEMMA GrowKeeps ==
    ASSUME Inv, NEW c \in Caller, Grow(c)
    PROVE  Inv'
<1>1. PICK t \in Task : t = task[c]
  BY DEF Grow, Inv, LocalsInv
<1>2. /\ pc[c] = "grow" /\ at[c] \in Nat /\ at[c] < TaskCap /\ outcome[t] = "unspawned"
      /\ UNCHANGED <<pos, buffer, tcb, new_pos, at, raced>>
      /\ len' = at[c] + 1
      /\ outcome' = [outcome EXCEPT ![t] = "ok"]
      /\ task' = [task EXCEPT ![c] = None]
      /\ pc' = [pc EXCEPT ![c] = "idle"]
  BY <1>1 DEF Grow, Return, Goto, Inv, TypeOK, LocalsInv
<1>3. TypeOK'
  BY <1>2, StaticAllocAssumption DEF StaticAllocAssumption, Inv, TypeOK
<1>4. /\ \A d \in Caller : /\ pc'[d] = IF d = c THEN "idle" ELSE pc[d]
                           /\ task'[d] = IF d = c THEN None ELSE task[d]
      /\ \A u \in Task : outcome'[u] = IF u = t THEN "ok" ELSE outcome[u]
  BY <1>2 DEF Inv, TypeOK
<1>5. \A d \in Caller : d # c => task[d] # t
  BY <1>1, StaticAllocAssumption DEF StaticAllocAssumption, Inv, LocalsInv
<1>6. LocalsInv' /\ OffsetsAligned'
  BY <1>2, <1>4, <1>5 DEF Inv, LocalsInv, OffsetsAligned
<1>7. ASSUME ~raced PROVE TakingTurns' /\ BlocksBelowPos' /\ ListHoldsSpawned'
  <2>1. TakingTurns'
    BY <1>2, <1>4, <1>7 DEF Inv, TakingTurns
  <2>2. BlocksBelowPos'
    <3>1. /\ \A d \in Caller : pc'[d] = "bump" <=> pc[d] = "bump"
          /\ \A d \in Caller : pc[d] = "bump" => task'[d] = task[d]
      BY <1>2, <1>4
    <3>2. UNCHANGED <<pos, tcb, new_pos>>
      BY <1>2
    <3> QED BY <1>7, <3>1, <3>2, BlocksUntouched
  <2>3. /\ at[c] = len /\ len \in Nat /\ buffer[len + 1] = t
        /\ \A d \in Caller : d # c => pc[d] = "idle"
    BY <1>1, <1>2, <1>7 DEF Inv, ListHoldsSpawned, TakingTurns
  <2>4. 1 .. len' = (1 .. len) \cup {len + 1}
    BY <1>2, <2>3
  <2>5. \A i \in 1 .. len : buffer[i] # t
    BY <1>2, <1>7 DEF Inv, ListHoldsSpawned
  <2>6. ASSUME NEW u \in Task
        PROVE  outcome'[u] = "ok" <=> \E i \in 1 .. len' : buffer[i] = u
    <3>1. CASE u = t
      BY <1>4, <2>3, <2>4, <3>1
    <3>2. CASE u # t
      BY <1>4, <1>7, <2>3, <2>4, <3>2 DEF Inv, ListHoldsSpawned
    <3> QED BY <3>1, <3>2
  <2>7. ASSUME NEW i \in 1 .. len', NEW j \in 1 .. len', buffer[i] = buffer[j], buffer[i] \in Task
        PROVE  i = j
    <3>1. CASE i = len + 1 \/ j = len + 1
      BY <2>3, <2>4, <2>5, <2>7, <3>1
    <3>2. CASE i \in 1 .. len /\ j \in 1 .. len
      BY <1>7, <2>7, <3>2 DEF Inv, ListHoldsSpawned
    <3> QED BY <2>4, <3>1, <3>2
  <2>8. ListHoldsSpawned'
    BY <1>2, <1>4, <2>3, <2>6, <2>7 DEF ListHoldsSpawned
  <2> QED BY <2>1, <2>2, <2>8
<1> QED BY <1>2, <1>3, <1>6, <1>7 DEF Inv

\* A full list is left alone.
LEMMA TaskListFullKeeps ==
    ASSUME Inv, NEW c \in Caller, TaskListFull(c)
    PROVE  Inv'
<1>1. PICK t \in Task : t = task[c]
  BY DEF TaskListFull, Inv, LocalsInv
<1>2. /\ pc[c] = "full" /\ outcome[t] = "unspawned"
      /\ UNCHANGED <<pos, buffer, len, tcb, new_pos, at, raced>>
      /\ outcome' = [outcome EXCEPT ![t] = "TaskListFull"]
      /\ task' = [task EXCEPT ![c] = None]
      /\ pc' = [pc EXCEPT ![c] = "idle"]
  BY <1>1 DEF TaskListFull, Return, Goto, Inv, LocalsInv
<1>3. TypeOK'
  BY <1>2 DEF Inv, TypeOK
<1>4. /\ \A d \in Caller : /\ pc'[d] = IF d = c THEN "idle" ELSE pc[d]
                           /\ task'[d] = IF d = c THEN None ELSE task[d]
      /\ \A u \in Task : outcome'[u] = IF u = t THEN "TaskListFull" ELSE outcome[u]
  BY <1>2 DEF Inv, TypeOK
<1>5. \A d \in Caller : d # c => task[d] # t
  BY <1>1, StaticAllocAssumption DEF StaticAllocAssumption, Inv, LocalsInv
<1>6. LocalsInv' /\ OffsetsAligned'
  BY <1>2, <1>4, <1>5 DEF Inv, LocalsInv, OffsetsAligned
<1>7. ASSUME ~raced PROVE TakingTurns' /\ BlocksBelowPos' /\ ListHoldsSpawned'
  <2>1. TakingTurns'
    BY <1>2, <1>4, <1>7 DEF Inv, TakingTurns
  <2>2. BlocksBelowPos'
    <3>1. /\ \A d \in Caller : pc'[d] = "bump" <=> pc[d] = "bump"
          /\ \A d \in Caller : pc[d] = "bump" => task'[d] = task[d]
      BY <1>2, <1>4
    <3>2. UNCHANGED <<pos, tcb, new_pos>>
      BY <1>2
    <3> QED BY <1>7, <3>1, <3>2, BlocksUntouched
  <2>3. \A u \in Task : outcome'[u] = "ok" <=> outcome[u] = "ok"
    BY <1>2, <1>4
  <2>4. ListHoldsSpawned'
    BY <1>2, <1>4, <1>7, <2>3 DEF Inv, ListHoldsSpawned
  <2> QED BY <2>1, <2>2, <2>4
<1> QED BY <1>2, <1>3, <1>6, <1>7 DEF Inv

\* Every step keeps the invariant.
LEMMA NextKeeps ==
    ASSUME Inv, [Next]_vars
    PROVE  Inv'
<1>1. CASE UNCHANGED vars
  BY <1>1 DEF Inv, TypeOK, LocalsInv, OffsetsAligned, TakingTurns, BlocksBelowPos,
              ListHoldsSpawned, vars, list, locals
<1> QED BY <1>1, AllocKeeps, BumpKeeps, ReadLenKeeps, StoreTaskKeeps, GrowKeeps,
           TaskListFullKeeps DEF Next

-----------------------------------------------------------------------------
(***************************************************************************)
(* The theorems.                                                           *)
(***************************************************************************)

\* The inductive invariant holds.
THEOREM InvariantHolds == Spec => []Inv
<1>1. Init => Inv
  <2> SUFFICES ASSUME Init PROVE Inv
    OBVIOUS
  <2>1. NoBlock \in Blocks /\ NoBlock.size = 0 /\ NoBlock.offset = 0 /\ NoBlock.align = 1
    BY DEF NoBlock, Blocks
  <2>2. TypeOK
    <3>1. 0 \in 0 .. Length /\ 0 \in 0 .. TaskCap
      BY StaticAllocAssumption DEF StaticAllocAssumption
    <3>2. /\ tcb \in [Task -> Blocks] /\ at \in [Caller -> 0 .. TaskCap]
          /\ new_pos \in [Caller -> Nat]
          /\ buffer \in [1 .. TaskCap -> Task \cup {None}]
          /\ pos \in 0 .. Length /\ len \in 0 .. TaskCap
      BY <2>1, <3>1 DEF Init
    <3> QED BY <3>2 DEF Init, TypeOK
  <2>3. LocalsInv /\ TakingTurns
    BY DEF Init, LocalsInv, TakingTurns
  <2>4. 0 % 1 = 0
    OBVIOUS
  <2>5. OffsetsAligned
    BY <2>1, <2>4 DEF Init, OffsetsAligned
  <2>6. BlocksBelowPos
    BY <2>1 DEF Init, BlocksBelowPos, Apart
  <2>7. ListHoldsSpawned
    BY DEF Init, ListHoldsSpawned
  <2> QED BY <2>2, <2>3, <2>5, <2>6, <2>7 DEF Inv
<1>2. Inv /\ [Next]_vars => Inv'
  BY NextKeeps
<1> QED BY <1>1, <1>2, PTL DEF Spec

\* Every variable stays in its type, pos inside the memory and the length inside the
\* list, however the steps of several contexts interleave.
THEOREM TypeCorrect == Spec => []TypeOK
<1>1. Inv => TypeOK
  BY DEF Inv
<1> QED BY <1>1, InvariantHolds, PTL

\* Blocks do not overlap, and lie inside the memory, as long as the contexts that spawn
\* take turns: the pos that alloc() rounds up is behind every other block.
THEOREM NoOverlap == Spec => []BlocksDisjoint
<1>1. Inv => BlocksDisjoint
  <2> SUFFICES ASSUME Inv, ~raced, NEW t \in Task, outcome[t] # "unspawned"
               PROVE  tcb[t].offset + tcb[t].size <= Length
    BY DEF BlocksDisjoint, Inv, BlocksBelowPos
  <2>1. tcb[t].offset + tcb[t].size <= pos
    BY DEF Inv, BlocksBelowPos, LocalsInv
  <2>2. tcb[t].offset \in Nat /\ tcb[t].size \in Nat /\ pos \in Nat /\ pos <= Length
    BY DEF Inv, TypeOK, Blocks
  <2> QED BY <2>1, <2>2, StaticAllocAssumption DEF StaticAllocAssumption
<1> QED BY <1>1, InvariantHolds, PTL

\* Every TCB is aligned if the memory is, for its alignment, even when contexts race.
THEOREM BlocksAligned == Spec => []AlignedIfBaseIs
<1>1. Inv => AlignedIfBaseIs
  <2> SUFFICES ASSUME Inv, NEW t \in Task, Base % tcb[t].align = 0
               PROVE  (Base + tcb[t].offset) % tcb[t].align = 0
    BY DEF AlignedIfBaseIs
  <2>1. /\ tcb[t].offset \in Nat /\ tcb[t].align \in Nat \ {0}
        /\ tcb[t].offset % tcb[t].align = 0
    BY DEF Inv, TypeOK, Blocks, OffsetsAligned
  <2>2. Base \in Nat
    BY StaticAllocAssumption DEF StaticAllocAssumption
  <2> QED BY <2>1, <2>2, SumOfMultiples
<1> QED BY <1>1, InvariantHolds, PTL

\* Exactly the tasks that spawn() has accepted are in the list, each once, as long as the
\* contexts that spawn take turns.
THEOREM ListIsExact == Spec => []SpawnedIsListed
<1>1. Inv => SpawnedIsListed
  <2> SUFFICES ASSUME Inv, ~raced, NEW t \in Task
               PROVE  outcome[t] = "ok" <=> Cardinality({i \in 1 .. len : buffer[i] = t}) = 1
    BY DEF SpawnedIsListed
  <2> DEFINE places == {i \in 1 .. len : buffer[i] = t}
  <2>1. CASE outcome[t] = "ok"
    <3>1. PICK i \in 1 .. len : buffer[i] = t
      BY <2>1 DEF Inv, ListHoldsSpawned
    <3>2. places = {i}
      BY <3>1 DEF Inv, ListHoldsSpawned
    <3>3. Cardinality({i}) = 1
      BY FS_Singleton
    <3> QED BY <2>1, <3>2, <3>3
  <2>2. CASE outcome[t] # "ok"
    <3>1. places = {}
      BY <2>2 DEF Inv, ListHoldsSpawned
    <3>2. Cardinality({}) = 0
      BY FS_EmptySet
    <3> QED BY <2>2, <3>1, <3>2
  <2> QED BY <2>1, <2>2
<1> QED BY <1>1, InvariantHolds, PTL
=============================================================================
