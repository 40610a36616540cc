----------------------------- MODULE HeapProofs -----------------------------
(***************************************************************************)
(* Proofs about Heap, for memory of any length at any address, any word    *)
(* and any set of layouts.                                                 *)
(***************************************************************************)
EXTENDS Heap, Arithmetic, FiniteSetTheorems

-----------------------------------------------------------------------------
(***************************************************************************)
(* The inductive invariant.                                                *)
(***************************************************************************)

\* Two blocks share no byte.
Apart(b, c) ==
    \/ b.size = 0 \/ c.size = 0
    \/ b.addr + b.size <= c.addr \/ c.addr + c.size <= b.addr

\* A block lies in the first hole, where a hole may begin.
Placed(b) ==
    /\ b.addr % Word = 0
    /\ NewHole.addr <= b.addr /\ b.addr + b.size <= NewHole.addr + NewHole.size

\* A block that deallocate can turn into a hole, or nothing.
Freeable(b) == b.size # 0 => b.size >= MinSize /\ Placed(b)

\* The dummy node is empty, and every hole is where one may be.
HolesPlaced == size[0] = 0 /\ \A n \in Holes : Placed(HoleInfo(n))

\* An allocation is as long as align_layout makes it, and aligned as the caller asked.
LivePlaced ==
    \A a \in live : /\ a.size = align_layout(a.asked).size
                    /\ a.addr % a.asked.align = 0
                    /\ Placed(a)

\* What the call in progress has in its hands, by where it is.
CallInv ==
    /\ pc \in {"idle", "search", "return"} => block.size = 0 /\ back.size = 0 /\ ~misused
    /\ pc \in {"idle", "search"} => given = NoBlock
    /\ pc = "search" => /\ asked \in Layouts /\ layout = align_layout(asked)
                        /\ \A n \in Holes : n <= hole => ~split_hole(HoleInfo(n))
    /\ pc \in {"search", "free"} => hole \in Holes \cup {0}
    /\ pc = "free" => block.size >= MinSize
    /\ pc = "free" /\ ~misused => End <= block.addr
    /\ pc = "panic" => misused
    /\ given = NoBlock => back.size = 0
    /\ given # NoBlock => /\ asked \in Layouts /\ layout = align_layout(asked)
                          /\ given.size = layout.size /\ given.addr % asked.align = 0
                          /\ Placed(given)

\* A double free walks along the list to the hole that the block lies in.
MisuseInv ==
    misused =>
        /\ pc \in {"free", "panic"} /\ given = NoBlock
        /\ pc = "free" => \E h \in Holes : /\ hole <= h /\ h <= block.addr
                                           /\ BlockEnd <= h + size[h]

\* No two of the holes, the allocations and the blocks of the call share a byte.
AllApart ==
    /\ \A a, b \in live : a # b => Apart(a, b)
    /\ \A a \in live, n \in Holes : Apart(a, HoleInfo(n))
    /\ \A b \in {block, back, given} : /\ \A n \in Holes : Apart(b, HoleInfo(n))
                                       /\ \A a \in live : Apart(b, a)
    /\ Apart(block, back) /\ Apart(block, given) /\ Apart(back, given)

\* Every byte that the heap started with is in one of them.
AllCovered ==
    \A cell \in {c \in Node : Covers(NewHole, c)} :
        \/ \E n \in Holes : Covers(HoleInfo(n), cell)
        \/ \E a \in live : Covers(a, cell)
        \/ \E b \in {block, back, given} : Covers(b, cell)

\* used is the number of bytes in allocations; the block that a caller is giving back is
\* no allocation any more and is subtracted at the end of the call.
Cells(S) == {cell \in Node : \E a \in S : Covers(a, cell)}

GivingBack == pc \in {"free", "return"} /\ given = NoBlock /\ ~misused

Counted == used = Cardinality(Cells(live)) + (IF GivingBack THEN layout.size ELSE 0)

Inv ==
    /\ TypeOK
    /\ ListSorted
    /\ HolesPlaced
    /\ LivePlaced
    /\ CallInv
    /\ MisuseInv
    /\ ~misused => Freeable(block) /\ Freeable(back) /\ AllApart /\ AllCovered
    /\ Counted

-----------------------------------------------------------------------------
(***************************************************************************)
(* The constants: the first hole and the layouts.                          *)
(***************************************************************************)

\* What the assumption says of the constants.
LEMMA Constants ==
    /\ Word \in Nat \ {0} /\ Bottom \in Nat \ {0} /\ Length \in Nat
    /\ Top \in Nat /\ Top = Bottom + Length
    /\ MinSize \in Nat \ {0} /\ MinSize = 2 * Word
BY HeapAssumption DEF HeapAssumption, Top, MinSize

\* align_up gives the next multiple.
LEMMA AlignUpIs ==
    ASSUME NEW addr \in Nat, NEW align \in Nat \ {0}
    PROVE  /\ align_up(addr, align) \in Nat
           /\ addr <= align_up(addr, align) /\ align_up(addr, align) <= addr + align - 1
           /\ align_up(addr, align) % align = 0
           /\ addr % align = 0 => align_up(addr, align) = addr
BY RoundingUp DEF align_up, align_down

\* The heap starts with no hole at all or with one that ends where the memory ends.
LEMMA NewHoleIs ==
    \E lo, hi \in Nat :
        /\ NewHole = [addr |-> lo, size |-> hi - lo]
        /\ lo <= hi /\ hi <= Top /\ hi - lo <= Length /\ lo % Word = 0
        /\ (lo = 0 /\ hi = 0) \/ (Bottom <= lo /\ lo < hi /\ hi = Top)
<1>1. CASE Length < MinSize
  <2>1. NewHole = [addr |-> 0, size |-> 0 - 0]
    BY <1>1 DEF NewHole, NoBlock
  <2>2. 0 \in Nat /\ 0 <= Top /\ 0 - 0 <= Length /\ 0 % Word = 0
    BY Constants
  <2> WITNESS 0 \in Nat, 0 \in Nat
  <2> QED BY <2>1, <2>2
<1>2. CASE ~(Length < MinSize)
  <2>1. /\ FirstHole \in Nat /\ Bottom <= FirstHole /\ FirstHole <= Bottom + Word - 1
        /\ FirstHole % Word = 0
    BY Constants, AlignUpIs DEF FirstHole
  <2>2. Length >= FirstHole - Bottom /\ Length - (FirstHole - Bottom) = Top - FirstHole
        /\ FirstHole < Top /\ Top - FirstHole <= Length
    BY <1>2, <2>1, Constants
  <2>3. NewHole = [addr |-> FirstHole, size |-> Top - FirstHole]
    BY <1>2, <2>2 DEF NewHole, SaturatingSub
  <2> FirstHole \in Nat /\ Top \in Nat
    BY <2>1, Constants
  <2> WITNESS FirstHole \in Nat, Top \in Nat
  <2> QED BY <2>1, <2>2, <2>3
<1> QED BY <1>1, <1>2

\* A block in the first hole that is not empty.
LEMMA PlacedIs ==
    ASSUME NEW b, b.addr \in Nat, b.size \in Nat \ {0}, Placed(b)
    PROVE  /\ Bottom <= b.addr /\ b.addr + b.size <= Top /\ b.addr # 0
           /\ b.addr \in Node /\ b.addr + b.size \in Node
           /\ b.size \in 0 .. Length /\ b.addr % Word = 0
<1>1. PICK lo \in Nat, hi \in Nat :
        /\ NewHole = [addr |-> lo, size |-> hi - lo]
        /\ lo <= hi /\ hi <= Top /\ hi - lo <= Length /\ lo % Word = 0
        /\ (lo = 0 /\ hi = 0) \/ (Bottom <= lo /\ lo < hi /\ hi = Top)
  BY NewHoleIs
<1>2. lo <= b.addr /\ b.addr + b.size <= lo + (hi - lo) /\ b.addr % Word = 0
  BY <1>1 DEF Placed
<1> QED BY <1>1, <1>2, Constants DEF Node

\* align_layout makes room for a hole, and for what was asked.
LEMMA AlignLayoutIs ==
    ASSUME NEW l \in Layouts
    PROVE  /\ align_layout(l) \in [size : Nat, align : Nat \ {0}]
           /\ align_layout(l).align = l.align /\ l.align \in Nat \ {0} /\ l.size \in Nat
           /\ align_layout(l).size >= MinSize /\ align_layout(l).size >= l.size
           /\ align_layout(l).size % Word = 0
<1>1. l = [size |-> l.size, align |-> l.align] /\ l.size \in Nat /\ l.align \in Nat \ {0}
  BY HeapAssumption DEF HeapAssumption
<1>2. PICK least \in Nat : /\ least = IF l.size < MinSize THEN MinSize ELSE l.size
                           /\ least >= MinSize /\ least >= l.size
  BY <1>1, Constants
<1>3. PICK s \in Nat : s = align_up(least, Word) /\ s >= least /\ s % Word = 0
  BY Constants, AlignUpIs
<1>4. align_layout(l) = [size |-> s, align |-> l.align]
  BY <1>1, <1>2, <1>3 DEF align_layout
<1> QED BY <1>1, <1>2, <1>3, <1>4, Constants

-----------------------------------------------------------------------------
(***************************************************************************)
(* The list.                                                               *)
(***************************************************************************)

\* Where a hole is, and what next and size are.
LEMMA HoleIs ==
    ASSUME TypeOK, HolesPlaced, NEW n \in Holes
    PROVE  /\ n \in Nat \ {0} /\ n \in Node /\ size[n] \in Nat \ {0} /\ n % Word = 0
           /\ Bottom <= n /\ n + size[n] <= Top /\ n + size[n] \in Nat
           /\ NewHole.addr <= n /\ n + size[n] <= NewHole.addr + NewHole.size
<1>1. n \in Node \ {0} /\ size[n] # 0
  BY DEF Holes
<1>2. n \in Nat /\ size[n] \in Nat
  BY <1>1, Constants DEF Node, TypeOK
<1>3. Placed(HoleInfo(n)) /\ HoleInfo(n).addr = n /\ HoleInfo(n).size = size[n]
  BY DEF HolesPlaced, HoleInfo
<1>4. /\ Bottom <= n /\ n + size[n] <= Top
      /\ NewHole.addr <= n /\ n + size[n] <= NewHole.addr + NewHole.size /\ n % Word = 0
  BY <1>1, <1>2, <1>3, PlacedIs DEF Placed
<1> QED BY <1>1, <1>2, <1>4

\* The node that a loop has come to is the dummy or a hole.
LEMMA NodeIs ==
    ASSUME TypeOK, HolesPlaced, NEW n \in Holes \cup {0}
    PROVE  /\ n \in Nat /\ n \in Node /\ size[n] \in Nat /\ n + size[n] \in Nat
           /\ size[n] = 0 => n = 0
           /\ next[n] \in Nat /\ next[n] \in Node
<1>1. CASE n = 0
  <2>1. 0 \in Node /\ next[0] \in Node
    BY Constants DEF Node, TypeOK
  <2>2. next[0] \in Nat
    BY <2>1, Constants DEF Node
  <2> QED BY <1>1, <2>1, <2>2 DEF HolesPlaced
<1>2. CASE n \in Holes
  <2>1. next[n] \in Node
    BY <1>2 DEF Holes, TypeOK
  <2>2. next[n] \in Nat
    BY <2>1, Constants DEF Node
  <2> QED BY <1>2, <2>1, <2>2, HoleIs
<1> QED BY <1>1, <1>2

\* A hole behind a node ends the gap behind that node, and is at or behind the next one.
LEMMA Behind ==
    ASSUME TypeOK, HolesPlaced, ListSorted, NEW n \in Holes \cup {0}, NEW m \in Holes, n < m
    PROVE  next[n] \in Holes /\ next[n] <= m /\ n + size[n] < m
<1>1. n \in Nat /\ size[n] \in Nat /\ next[n] \in Nat /\ m \in Nat
  BY NodeIs, HoleIs
<1>2. next[n] # 0
  BY <1>1 DEF ListSorted
<1>3. next[n] \in Holes /\ n + size[n] < next[n] /\ (m <= n \/ next[n] <= m)
  BY <1>2 DEF ListSorted
<1> QED BY <1>1, <1>3

\* What is known of the next hole.
LEMMA NextIs ==
    ASSUME TypeOK, HolesPlaced, ListSorted, NEW n \in Holes \cup {0}, next[n] # 0
    PROVE  /\ next[n] \in Holes /\ n < next[n] /\ n + size[n] < next[n]
           /\ \A m \in Holes : m <= n \/ m = next[n] \/ next[n] < m
           /\ \A m \in Holes \cup {0} : next[m] = next[n] => m = n
<1>1. n \in Nat /\ size[n] \in Nat /\ next[n] \in Nat
  BY NodeIs
<1>2. /\ next[n] \in Holes /\ n + size[n] < next[n]
      /\ \A m \in Holes : m <= n \/ next[n] <= m
  BY DEF ListSorted
<1>3. ASSUME NEW m \in Holes PROVE m <= n \/ m = next[n] \/ next[n] < m
  BY <1>1, <1>2, HoleIs
<1>4. ASSUME NEW m \in Holes \cup {0}, next[m] = next[n] PROVE m = n
  <2>1. m \in Nat /\ size[m] \in Nat
    BY NodeIs
  <2>2. m + size[m] < next[n] /\ \A k \in Holes : k <= m \/ next[n] <= k
    BY <1>4 DEF ListSorted
  <2>3. m <= n
    <3> SUFFICES ASSUME n < m PROVE FALSE
      BY <1>1, <2>1
    <3>1. m \in Holes
      BY <1>1, <2>1
    <3> QED BY <1>1, <1>2, <2>1, <2>2, <3>1
  <2>4. n <= m
    <3> SUFFICES ASSUME m < n PROVE FALSE
      BY <1>1, <2>1
    <3>1. n \in Holes
      BY <1>1, <2>1
    <3> QED BY <1>1, <1>2, <2>1, <2>2, <3>1
  <2> QED BY <1>1, <2>1, <2>3, <2>4
<1> QED BY <1>1, <1>2, <1>3, <1>4

\* Taking the next hole out of the list leaves it sorted, also when the node before it
\* grows to the end of that hole.
LEMMA UnlinkKeepsSorted ==
    ASSUME TypeOK, HolesPlaced, ListSorted, NEW b \in Holes \cup {0}, next[b] # 0,
           Unlink(b, next[b]), size' \in [Node -> Nat],
           size'[next[b]] = 0,
           \A n \in Node : n # b /\ n # next[b] => size'[n] = size[n],
           size'[b] = 0 <=> size[b] = 0,
           b + size'[b] <= next[b] + size[next[b]]
    PROVE  Holes' = Holes \ {next[b]} /\ ListSorted'
<1>1. PICK h \in Holes : h = next[b] /\ b < h /\ b + size[b] < h
  BY NextIs
<1>2. /\ \A m \in Holes : m <= b \/ m = h \/ h < m
      /\ \A m \in Holes \cup {0} : next[m] = h => m = b
  BY <1>1, NextIs
<1>3. b \in Nat /\ b \in Node /\ h \in Nat /\ h \in Node /\ h # 0 /\ size[h] \in Nat \ {0}
      /\ size[b] \in Nat
  BY NodeIs, HoleIs
<1>4. Holes' = Holes \ {h}
  BY <1>1, <1>3 DEF Holes
<1>5. /\ next'[b] = next[h]
      /\ \A n \in Node : n # b /\ n # h => next'[n] = next[n]
  BY <1>1, <1>3 DEF Unlink, TypeOK
<1>6. ASSUME NEW n \in Holes' \cup {0}
      PROVE  /\ next'[n] = 0 => \A m \in Holes' : m <= n
             /\ next'[n] # 0 => /\ next'[n] \in Holes'
                                /\ n + size'[n] < next'[n]
                                /\ \A m \in Holes' : m <= n \/ next'[n] <= m
  <2>1. n \in Holes \cup {0} /\ n # h /\ n \in Node /\ n \in Nat /\ next[n] \in Nat
    BY <1>3, <1>4, NodeIs
  <2>2. CASE n = b
    <3>1. next'[n] = next[h] /\ next[h] \in Nat
      BY <1>5, <2>2, NodeIs
    <3>2. CASE next[h] = 0
      <4>1. \A m \in Holes : m <= h
        BY <3>2 DEF ListSorted
      <4>2. ASSUME NEW m \in Holes' PROVE m <= n
        <5>1. m \in Holes /\ m # h /\ m \in Nat
          BY <1>4, HoleIs
        <5> QED BY <1>2, <1>3, <2>2, <4>1, <5>1
      <4> QED BY <3>1, <3>2, <4>2
    <3>3. CASE next[h] # 0
      <4>1. /\ next[h] \in Holes /\ h + size[h] < next[h]
            /\ \A m \in Holes : m <= h \/ next[h] <= m
        BY <3>3 DEF ListSorted
      <4>2. next[h] # h /\ n + size'[n] < next[h]
        <5>1. size'[b] \in Nat
          BY <1>3
        <5> QED BY <1>1, <1>3, <2>2, <3>1, <4>1, <5>1
      <4>3. ASSUME NEW m \in Holes' PROVE m <= n \/ next[h] <= m
        <5>1. m \in Holes /\ m # h /\ m \in Nat
          BY <1>4, HoleIs
        <5> QED BY <1>2, <1>3, <2>2, <4>1, <5>1
      <4> QED BY <1>4, <3>1, <3>3, <4>1, <4>2, <4>3
    <3> QED BY <3>2, <3>3
  <2>3. CASE n # b
    <3>1. next'[n] = next[n] /\ size'[n] = size[n] /\ next[n] # h
      BY <1>1, <1>2, <1>5, <2>1, <2>3
    <3>2. next[n] = 0 => \A m \in Holes : m <= n
      BY <2>1 DEF ListSorted
    <3>3. next[n] # 0 => /\ next[n] \in Holes
                         /\ n + size[n] < next[n]
                         /\ \A m \in Holes : m <= n \/ next[n] <= m
      BY <2>1 DEF ListSorted
    <3> QED BY <1>4, <3>1, <3>2, <3>3
  <2> QED BY <2>2, <2>3
<1> QED BY <1>1, <1>4, <1>6 DEF ListSorted

\* A hole may grow as long as it does not reach the next one.
LEMMA GrowKeepsSorted ==
    ASSUME TypeOK, HolesPlaced, ListSorted, NEW b \in Holes, NEW more \in Nat,
           next[b] # 0 => b + size[b] + more < next[b],
           size' = [size EXCEPT ![b] = @ + more], UNCHANGED next
    PROVE  Holes' = Holes /\ ListSorted'
<1>1. b \in Node /\ size[b] \in Nat \ {0}
  BY HoleIs
<1>2. /\ size'[b] = size[b] + more /\ size'[b] # 0
      /\ \A n \in Node : n # b => size'[n] = size[n]
  BY <1>1 DEF TypeOK
<1>3. Holes' = Holes
  BY <1>1, <1>2 DEF Holes
<1>4. ASSUME NEW n \in Holes' \cup {0}
      PROVE  /\ next'[n] = 0 => \A m \in Holes' : m <= n
             /\ next'[n] # 0 => /\ next'[n] \in Holes'
                                /\ n + size'[n] < next'[n]
                                /\ \A m \in Holes' : m <= n \/ next'[n] <= m
  <2>1. n \in Holes \cup {0} /\ n \in Node
    BY <1>3, NodeIs
  <2>2. next[n] = 0 => \A m \in Holes : m <= n
    BY <2>1 DEF ListSorted
  <2>3. next[n] # 0 => /\ next[n] \in Holes
                       /\ n + size[n] < next[n]
                       /\ \A m \in Holes : m <= n \/ next[n] <= m
    BY <2>1 DEF ListSorted
  <2>4. next[n] # 0 => n + size'[n] < next[n]
    <3>1. CASE n = b
      <4>1. b \in Nat
        BY HoleIs
      <4> QED BY <1>1, <1>2, <3>1, <4>1
    <3>2. CASE n # b
      BY <1>2, <2>1, <2>3, <3>2
    <3> QED BY <3>1, <3>2
  <2> QED BY <1>3, <2>2, <2>3, <2>4
<1> QED BY <1>3, <1>4 DEF ListSorted

\* A new hole strictly between a node and the next hole is linked in between.
LEMMA InsertKeepsSorted ==
    ASSUME TypeOK, HolesPlaced, ListSorted, NEW b \in Holes \cup {0},
           NEW x \in Node \ {0}, NEW s \in Nat \ {0}, b + size[b] < x,
           next[b] # 0 => x + s < next[b],
           size'[x] = s, \A n \in Node : n # x => size'[n] = size[n],
           next'[x] = next[b], next'[b] = x,
           \A n \in Node : n # x /\ n # b => next'[n] = next[n]
    PROVE  Holes' = Holes \cup {x} /\ x \notin Holes /\ ListSorted'
<1>1. b \in Nat /\ b \in Node /\ size[b] \in Nat /\ next[b] \in Nat /\ x \in Nat
  BY NodeIs, Constants DEF Node
<1>2. b < x /\ b # x
  BY <1>1
<1>3. /\ size'[x] = s /\ \A n \in Node : n # x => size'[n] = size[n]
      /\ next'[x] = next[b] /\ next'[b] = x
      /\ \A n \in Node : n # x /\ n # b => next'[n] = next[n]
  OBVIOUS
<1>4. Holes' = Holes \cup {x}
  BY <1>3 DEF Holes
<1>5. ASSUME NEW m \in Holes PROVE m <= b \/ (next[b] # 0 /\ next[b] <= m /\ x < m)
  <2>1. m \in Nat
    BY HoleIs
  <2>2. CASE next[b] = 0
    BY <2>2 DEF ListSorted
  <2>3. CASE next[b] # 0
    <3>1. m <= b \/ next[b] <= m
      BY <2>3 DEF ListSorted
    <3>2. x < next[b]
      BY <1>1, <2>3
    <3> QED BY <1>1, <2>1, <2>3, <3>1, <3>2
  <2> QED BY <2>2, <2>3
<1>6. x \notin Holes
  BY <1>1, <1>2, <1>5
<1>7. ASSUME NEW n \in Holes' \cup {0}
      PROVE  /\ next'[n] = 0 => \A m \in Holes' : m <= n
             /\ next'[n] # 0 => /\ next'[n] \in Holes'
                                /\ n + size'[n] < next'[n]
                                /\ \A m \in Holes' : m <= n \/ next'[n] <= m
  <2>1. CASE n = b
    <3>1. next'[n] = x /\ size'[n] = size[b] /\ x # 0
      BY <1>1, <1>2, <1>3, <2>1
    <3>2. ASSUME NEW m \in Holes' PROVE m <= n \/ x <= m
      <4>1. CASE m = x
        BY <1>1, <4>1
      <4>2. CASE m \in Holes
        <5>1. m \in Nat
          BY <4>2, HoleIs
        <5> QED BY <1>1, <1>5, <2>1, <4>2, <5>1
      <4> QED BY <1>4, <4>1, <4>2
    <3> QED BY <1>4, <2>1, <3>1, <3>2
  <2>2. CASE n = x
    <3>1. next'[n] = next[b] /\ size'[n] = s
      BY <1>3, <2>2
    <3>2. ASSUME NEW m \in Holes' PROVE m <= n \/ (next[b] # 0 /\ next[b] <= m)
      <4>1. CASE m = x
        BY <1>1, <2>2, <4>1
      <4>2. CASE m \in Holes
        <5>1. m \in Nat
          BY <4>2, HoleIs
        <5> QED BY <1>1, <1>2, <1>5, <2>2, <4>2, <5>1
      <4> QED BY <1>4, <4>1, <4>2
    <3>3. next[b] # 0 => next[b] \in Holes
      BY DEF ListSorted
    <3> QED BY <1>4, <2>2, <3>1, <3>2, <3>3
  <2>3. CASE n # b /\ n # x
    <3>1. n \in Holes \cup {0} /\ n \in Node /\ n \in Nat
      BY <1>4, <2>3, NodeIs
    <3>2. next'[n] = next[n] /\ size'[n] = size[n] /\ next[n] \in Nat
      BY <1>3, <2>3, <3>1, NodeIs
    <3>3. next[n] = 0 => \A m \in Holes : m <= n
      BY <3>1 DEF ListSorted
    <3>4. next[n] # 0 => /\ next[n] \in Holes
                         /\ n + size[n] < next[n]
                         /\ \A m \in Holes : m <= n \/ next[n] <= m
      BY <3>1 DEF ListSorted
    <3>5. CASE n < b
      <4>1. b \in Holes
        BY <1>1, <3>1, <3>5
      <4>2. next[n] # 0 /\ next[n] <= b
        BY <1>1, <3>1, <3>2, <3>3, <3>4, <3>5, <4>1
      <4> QED BY <1>1, <1>2, <1>4, <3>1, <3>2, <3>4, <4>2
    <3>6. CASE b < n
      <4>1. n \in Holes
        BY <1>1, <3>1, <3>6
      <4>2. x < n
        BY <1>1, <1>5, <3>1, <3>6, <4>1
      <4>3. x <= n
        BY <1>1, <3>1, <4>2
      <4> QED BY <1>4, <3>2, <3>3, <3>4, <4>3
    <3> QED BY <1>1, <2>3, <3>1, <3>5, <3>6
  <2> QED BY <1>4, <2>1, <2>2, <2>3
<1> QED BY <1>4, <1>6, <1>7 DEF ListSorted

-----------------------------------------------------------------------------
(***************************************************************************)
(* The bytes.                                                              *)
(***************************************************************************)

\* Part of a block shares no byte with what the block shares none with.
LEMMA PartIsApart ==
    ASSUME NEW b, NEW part, NEW c, b.addr \in Nat, b.size \in Nat, part.addr \in Nat,
           part.size \in Nat, c.addr \in Nat, c.size \in Nat, Apart(b, c),
           b.addr <= part.addr, part.addr + part.size <= b.addr + b.size
    PROVE  Apart(part, c) /\ Apart(c, part)
BY DEF Apart

\* Nor does a block that two neighbours make.
LEMMA JoinIsApart ==
    ASSUME NEW b, NEW d, NEW e, NEW c, b.addr \in Nat, b.size \in Nat \ {0}, d.addr \in Nat,
           d.size \in Nat \ {0}, e.addr \in Nat, e.size \in Nat, c.addr \in Nat, c.size \in Nat,
           Apart(b, c), Apart(d, c), d.addr = b.addr + b.size, e.addr = b.addr,
           e.size = b.size + d.size
    PROVE  Apart(e, c) /\ Apart(c, e)
BY DEF Apart

\* Apart is symmetric.
LEMMA ApartSym ==
    ASSUME NEW b, NEW c, Apart(b, c)
    PROVE  Apart(c, b)
BY DEF Apart

\* Addresses and sizes are numbers.
LEMMA Numbers ==
    ASSUME TypeOK
    PROVE  /\ block.addr \in Nat /\ block.size \in Nat
           /\ back.addr \in Nat /\ back.size \in Nat
           /\ given.addr \in Nat /\ given.size \in Nat
           /\ \A a \in live : a.addr \in Nat /\ a.size \in Nat /\ a.asked \in Layouts
           /\ hole \in Nat /\ used \in Nat /\ layout.size \in Nat
<1>1. /\ block \in [addr : Node, size : Nat] /\ back \in Blocks /\ given \in Blocks
      /\ live \subseteq [addr : Node, size : 0 .. Length, asked : Layouts]
      /\ hole \in Node /\ used \in 0 .. Length /\ layout \in [size : Nat, align : Nat \ {0}]
  BY DEF TypeOK
<1>2. (\A n \in Node : n \in Nat) /\ (\A s \in 0 .. Length : s \in Nat)
  BY Constants DEF Node
<1>3. /\ back.addr \in Node /\ back.size \in 0 .. Length
      /\ given.addr \in Node /\ given.size \in 0 .. Length
  BY <1>1 DEF Blocks
<1>4. \A a \in live : a.addr \in Node /\ a.size \in 0 .. Length /\ a.asked \in Layouts
  BY <1>1
<1>5. block.addr \in Node /\ block.size \in Nat /\ layout.size \in Nat
  BY <1>1
<1> QED BY <1>1, <1>2, <1>3, <1>4, <1>5

\* The empty block.
LEMMA NoBlockIs ==
    NoBlock.addr = 0 /\ NoBlock.size = 0 /\ NoBlock \in Blocks /\ Freeable(NoBlock)
<1>1. 0 \in Node /\ 0 \in 0 .. Length
  BY Constants DEF Node
<1> QED BY <1>1 DEF NoBlock, Blocks, Freeable

\* deallocate is done with a block: the list has taken it in.
LEMMA InsertedKeepsInv ==
    ASSUME Inv, pc = "free", ~misused, Inserted,
           size' \in [Node -> Nat], next' \in [Node -> Node], size'[0] = 0, ListSorted',
           \A n \in Holes' : /\ n % Word = 0 /\ NewHole.addr <= n
                             /\ n + size'[n] <= NewHole.addr + NewHole.size,
           \A n \in Holes', x \in Nat, s \in Nat \ {0} :
                /\ Apart(block, [addr |-> x, size |-> s])
                /\ \A m \in Holes : Apart([addr |-> x, size |-> s], HoleInfo(m))
                => x + s <= n \/ n + size'[n] <= x,
           \A cell \in Nat :
                \/ Covers(block, cell)
                \/ \E m \in Holes : Covers(HoleInfo(m), cell)
                => \E n \in Holes' : n <= cell /\ cell < n + size'[n]
    PROVE  Inv'
<1>1. TypeOK /\ HolesPlaced /\ LivePlaced /\ CallInv /\ AllApart /\ AllCovered /\ Counted
      /\ Freeable(block) /\ Freeable(back)
  BY DEF Inv
<1>2. /\ hole' = 0 /\ block' = back /\ back' = NoBlock
      /\ pc' = IF back.size # 0 THEN "free" ELSE "return"
      /\ used' = used /\ live' = live /\ layout' = layout /\ asked' = asked
      /\ misused' = misused /\ given' = given
  BY DEF Inserted, call
<1>3. ASSUME NEW n \in Holes'
      PROVE  /\ n \in Node /\ n \in Nat /\ size'[n] \in Nat \ {0} /\ size'[n] \in 0 .. Length
             /\ HoleInfo(n)' = [addr |-> n, size |-> size'[n]] /\ Placed(HoleInfo(n)')
  <2>1. n \in Node /\ n \in Nat /\ size'[n] \in Nat \ {0}
    BY Constants DEF Holes, Node
  <2> DEFINE b == [addr |-> n, size |-> size'[n]]
  <2>2. b.addr = n /\ b.size = size'[n] /\ HoleInfo(n)' = b
    BY DEF HoleInfo
  <2>3. Placed(b)
    BY <2>2 DEF Placed
  <2> HIDE DEF b
  <2>4. b.size \in 0 .. Length
    BY <2>1, <2>2, <2>3, PlacedIs
  <2> QED BY <2>1, <2>2, <2>3, <2>4 DEF b
<1>4. TypeOK'
  <2>1. size' \in [Node -> 0 .. Length]
    <3>1. ASSUME NEW n \in Node PROVE size'[n] \in 0 .. Length
      <4>1. CASE n \in Holes'
        BY <1>3, <4>1
      <4>2. CASE n \notin Holes'
        <5>1. size'[n] = 0
          BY <4>2 DEF Holes
        <5> QED BY <5>1, Constants
      <4> QED BY <4>1, <4>2
    <3> QED BY <3>1
  <2>2. 0 \in Node /\ block' \in [addr : Node, size : Nat] /\ back' \in Blocks
    <3>1. back \in [addr : Node, size : 0 .. Length] /\ \A s \in 0 .. Length : s \in Nat
      BY <1>1, Constants DEF TypeOK, Blocks
    <3> QED BY <1>2, <3>1, NoBlockIs, Constants DEF Node
  <2> QED BY <1>1, <1>2, <2>1, <2>2 DEF TypeOK
<1>5. HolesPlaced'
  BY <1>3 DEF HolesPlaced
<1>6. LivePlaced'
  BY <1>1, <1>2 DEF LivePlaced
<1>7. CallInv'
  <2>1. back.size # 0 => back.size >= MinSize
    BY <1>1 DEF Freeable
  <2>2. End' <= block'.addr
    BY <1>1, <1>2, Numbers DEF End
  <2>3. /\ pc' \in {"free", "return"} /\ ~misused' /\ back'.size = 0 /\ hole' = 0
        /\ pc' = "free" => block'.size >= MinSize
        /\ pc' = "return" => block'.size = 0
    BY <1>2, <2>1, NoBlockIs
  <2>4. given' # NoBlock => /\ asked' \in Layouts /\ layout' = align_layout(asked')
                            /\ given'.size = layout'.size /\ given'.addr % asked'.align = 0
                            /\ Placed(given')
    BY <1>1, <1>2 DEF CallInv
  <2> QED BY <2>2, <2>3, <2>4 DEF CallInv
<1>8. MisuseInv'
  BY <1>2 DEF MisuseInv
<1>9. Freeable(block') /\ Freeable(back')
  BY <1>1, <1>2, NoBlockIs
<1>10. ASSUME NEW c, c.addr \in Nat, c.size \in Nat, Apart(block, c),
              \A m \in Holes : Apart(c, HoleInfo(m)), NEW n \in Holes'
       PROVE  Apart(c, HoleInfo(n)')
  <2>1. CASE c.size = 0
    BY <2>1 DEF Apart
  <2>2. CASE c.size # 0
    <3> DEFINE d == [addr |-> c.addr, size |-> c.size]
    <3>1. Apart(block, d) /\ \A m \in Holes : Apart(d, HoleInfo(m))
      BY <1>10 DEF Apart
    <3>2. c.addr + c.size <= n \/ n + size'[n] <= c.addr
      BY <1>10, <2>2, <3>1
    <3> QED BY <1>3, <3>2 DEF Apart
  <2> QED BY <2>1, <2>2
<1>11. AllApart'
  <2>1. \A a, b \in live' : a # b => Apart(a, b)
    BY <1>1, <1>2 DEF AllApart
  <2>2. ASSUME NEW a \in live', NEW n \in Holes' PROVE Apart(a, HoleInfo(n)')
    <3>1. a \in live /\ a.addr \in Nat /\ a.size \in Nat
      BY <1>1, <1>2, Numbers
    <3>2. Apart(block, a) /\ \A m \in Holes : Apart(a, HoleInfo(m))
      BY <1>1, <3>1 DEF AllApart
    <3> QED BY <1>10, <3>1, <3>2
  <2>3. ASSUME NEW b \in {block', back', given'}
        PROVE  (\A n \in Holes' : Apart(b, HoleInfo(n)')) /\ (\A a \in live' : Apart(b, a))
    <3>1. CASE b = NoBlock
      BY <3>1, NoBlockIs DEF Apart
    <3>2. CASE b \in {back, given}
      <4>1. b.addr \in Nat /\ b.size \in Nat
        BY <1>1, <3>2, Numbers
      <4>2. Apart(block, b) /\ (\A m \in Holes : Apart(b, HoleInfo(m)))
            /\ \A a \in live : Apart(b, a)
        BY <1>1, <3>2 DEF AllApart
      <4> QED BY <1>2, <1>10, <4>1, <4>2
    <3> QED BY <1>2, <3>1, <3>2
  <2>4. Apart(block', back') /\ Apart(block', given') /\ Apart(back', given')
    BY <1>1, <1>2, NoBlockIs DEF AllApart, Apart
  <2> QED BY <2>1, <2>2, <2>3, <2>4 DEF AllApart
<1>12. AllCovered'
  <2> SUFFICES ASSUME NEW cell \in {c \in Node : Covers(NewHole, c)}
               PROVE  \/ \E n \in Holes' : Covers(HoleInfo(n)', cell)
                      \/ \E a \in live' : Covers(a, cell)
                      \/ \E b \in {block', back', given'} : Covers(b, cell)
    BY DEF AllCovered
  <2>1. cell \in Nat
    BY Constants DEF Node
  <2>2. ASSUME \E n \in Holes' : n <= cell /\ cell < n + size'[n]
        PROVE  \E n \in Holes' : Covers(HoleInfo(n)', cell)
    BY <1>3, <2>2 DEF Covers
  <2>3. CASE Covers(block, cell) \/ \E m \in Holes : Covers(HoleInfo(m), cell)
    BY <2>1, <2>2, <2>3
  <2>4. CASE \E a \in live : Covers(a, cell)
    BY <1>2, <2>4
  <2>5. CASE Covers(back, cell) \/ Covers(given, cell)
    BY <1>2, <2>5
  <2> QED BY <1>1, <2>3, <2>4, <2>5 DEF AllCovered
<1>13. Counted'
  BY <1>1, <1>2 DEF Counted, GivingBack
<1> QED BY <1>4, <1>5, <1>6, <1>7, <1>8, <1>9, <1>11, <1>12, <1>13 DEF Inv

-----------------------------------------------------------------------------
(***************************************************************************)
(* deallocate.                                                             *)
(***************************************************************************)

\* The block of a proper deallocation lies behind the hole of the loop, and apart from
\* all the holes; both assertions hold.
LEMMA ProperFree ==
    ASSUME Inv, pc = "free", ~misused
    PROVE  /\ hole \in Holes \cup {0} /\ block.size \in Nat \ {0} /\ block.size >= MinSize
           /\ block.addr \in Nat \ {0} /\ block.addr \in Node /\ block.addr % Word = 0
           /\ NewHole.addr <= block.addr /\ BlockEnd <= NewHole.addr + NewHole.size
           /\ End <= block.addr /\ Asserted
           /\ \A m \in Holes : m + size[m] <= block.addr \/ BlockEnd <= m
<1>1. TypeOK /\ HolesPlaced /\ CallInv /\ AllApart /\ Freeable(block)
  BY DEF Inv
<1>2. hole \in Holes \cup {0} /\ block.size >= MinSize /\ End <= block.addr
  BY <1>1 DEF CallInv
<1>3. block.addr \in Nat /\ block.size \in Nat \ {0}
  BY <1>1, <1>2, Numbers, Constants
<1>4. Placed(block)
  BY <1>1, <1>3 DEF Freeable
<1>5. block.addr # 0 /\ block.addr \in Node
  BY <1>3, <1>4, PlacedIs
<1>6. ASSUME NEW m \in Holes PROVE m + size[m] <= block.addr \/ BlockEnd <= m
  <2>1. Apart(block, HoleInfo(m)) /\ size[m] # 0
    BY <1>1 DEF AllApart, Holes
  <2> QED BY <1>3, <2>1 DEF Apart, HoleInfo, BlockEnd
<1> QED BY <1>2, <1>3, <1>4, <1>5, <1>6 DEF Placed, Asserted, BlockEnd

\* A block that is freed twice is passed along the list until the assertion fails.
LEMMA DoubleFree ==
    ASSUME Inv, pc = "free", misused
    PROVE  /\ given = NoBlock
           /\ Asserted => /\ next[hole] # 0 /\ End # block.addr /\ BlockEnd # next[hole]
                          /\ next[hole] <= block.addr
                          /\ \E h \in Holes : /\ next[hole] <= h /\ h <= block.addr
                                              /\ BlockEnd <= h + size[h]
<1>1. TypeOK /\ HolesPlaced /\ ListSorted /\ CallInv /\ MisuseInv
  BY DEF Inv
<1>2. PICK h \in Holes : hole <= h /\ h <= block.addr /\ BlockEnd <= h + size[h]
  BY <1>1 DEF MisuseInv
<1>3. hole \in Holes \cup {0} /\ block.size >= MinSize
  BY <1>1 DEF CallInv
<1>4. /\ block.addr \in Nat /\ block.size \in Nat \ {0} /\ h \in Nat /\ size[h] \in Nat
      /\ hole \in Nat /\ size[hole] \in Nat /\ next[hole] \in Nat
  BY <1>1, <1>3, Numbers, Constants, HoleIs, NodeIs
<1>5. ASSUME Asserted PROVE hole < h
  BY <1>2, <1>4, <1>5 DEF Asserted, End, BlockEnd
<1>6. ASSUME Asserted PROVE next[hole] \in Holes /\ next[hole] <= h /\ hole + size[hole] < h
  BY <1>1, <1>3, <1>5, <1>6, Behind
<1>7. ASSUME Asserted
      PROVE  next[hole] # 0 /\ End # block.addr /\ BlockEnd # next[hole] /\ next[hole] <= block.addr
  BY <1>1, <1>2, <1>4, <1>6, <1>7, HoleIs DEF End, BlockEnd
<1> QED BY <1>1, <1>2, <1>6, <1>7 DEF MisuseInv

\* The block becomes a part of the hole before it.
LEMMA GrowHoleKeepsInv ==
    ASSUME Inv, GrowHole
    PROVE  Inv'
<1>1. pc = "free" /\ Asserted /\ End = block.addr /\ Inserted
      /\ ~(next[hole] # 0 /\ BlockEnd = next[hole])
      /\ size' = [size EXCEPT ![hole] = @ + block.size] /\ next' = next
  BY DEF GrowHole
<1>2. ~misused
  BY <1>1, DoubleFree
<1>3. TypeOK /\ HolesPlaced /\ ListSorted
  BY DEF Inv
<1>4. /\ hole \in Holes \cup {0} /\ block.size \in Nat \ {0}
      /\ block.addr \in Nat \ {0}
      /\ NewHole.addr <= block.addr /\ BlockEnd <= NewHole.addr + NewHole.size
      /\ \A m \in Holes : m + size[m] <= block.addr \/ BlockEnd <= m
  BY <1>1, <1>2, ProperFree
<1>5. hole \in Holes
  <2>1. hole # 0
    BY <1>1, <1>3, <1>4 DEF End, HolesPlaced
  <2> QED BY <1>4, <2>1
<1>6. hole \in Nat \ {0} /\ hole \in Node /\ size[hole] \in Nat \ {0} /\ next[hole] \in Nat
  BY <1>3, <1>5, HoleIs, NodeIs
<1>7. /\ size'[hole] = size[hole] + block.size /\ \A n \in Node : n # hole => size'[n] = size[n]
      /\ size' \in [Node -> Nat]
  <2>1. size \in [Node -> Nat]
    BY <1>3, Constants DEF TypeOK
  <2>2. size[hole] + block.size \in Nat
    BY <1>4, <1>6
  <2> QED BY <1>1, <1>6, <2>1, <2>2
<1>8. hole + size'[hole] = BlockEnd
  BY <1>1, <1>4, <1>6, <1>7 DEF End, BlockEnd
<1>9. Holes' = Holes /\ ListSorted'
  <2>1. ASSUME next[hole] # 0 PROVE hole + size[hole] + block.size < next[hole]
    <3>1. next[hole] \in Holes /\ hole + size[hole] < next[hole]
      BY <1>3, <1>4, <2>1, NextIs
    <3>2. next[hole] + size[next[hole]] <= block.addr \/ BlockEnd <= next[hole]
      BY <1>4, <3>1
    <3>3. size[next[hole]] \in Nat
      BY <1>3, <3>1, HoleIs
    <3> QED BY <1>1, <1>4, <1>6, <2>1, <3>1, <3>2, <3>3 DEF End, BlockEnd
  <2> QED BY <1>1, <1>3, <1>4, <1>5, <2>1, GrowKeepsSorted
<1>10. next' \in [Node -> Node] /\ size'[0] = 0
  <2>1. 0 \in Node
    BY Constants DEF Node
  <2> QED BY <1>1, <1>3, <1>6, <1>7, <2>1 DEF TypeOK, HolesPlaced
<1>11. ASSUME NEW n \in Holes'
       PROVE  /\ n % Word = 0 /\ NewHole.addr <= n
              /\ n + size'[n] <= NewHole.addr + NewHole.size
  <2>1. n \in Holes
    BY <1>9
  <2>2. /\ n % Word = 0 /\ NewHole.addr <= n /\ n \in Node
        /\ n + size[n] <= NewHole.addr + NewHole.size
    BY <1>3, <2>1, HoleIs
  <2> QED BY <1>4, <1>7, <1>8, <2>2
<1>12. ASSUME NEW n \in Holes', NEW x \in Nat, NEW s \in Nat \ {0},
              Apart(block, [addr |-> x, size |-> s]),
              \A m \in Holes : Apart([addr |-> x, size |-> s], HoleInfo(m))
       PROVE  x + s <= n \/ n + size'[n] <= x
  <2>1. n \in Holes /\ n \in Node /\ n \in Nat /\ size[n] \in Nat \ {0}
    BY <1>3, <1>9, HoleIs
  <2>2. x + s <= n \/ n + size[n] <= x
    BY <1>12, <2>1 DEF Apart, HoleInfo
  <2>3. x + s <= block.addr \/ BlockEnd <= x
    BY <1>4, <1>12 DEF Apart, BlockEnd
  <2>4. CASE n # hole
    BY <1>7, <2>1, <2>2, <2>4
  <2>5. CASE n = hole
    BY <1>1, <1>4, <1>6, <1>8, <2>2, <2>3, <2>5 DEF End, BlockEnd
  <2> QED BY <2>4, <2>5
<1>13. ASSUME NEW cell \in Nat,
              Covers(block, cell) \/ \E m \in Holes : Covers(HoleInfo(m), cell)
       PROVE  \E n \in Holes' : n <= cell /\ cell < n + size'[n]
  <2>1. CASE Covers(block, cell)
    <3>1. hole <= cell /\ cell < hole + size'[hole]
      BY <1>1, <1>4, <1>6, <1>8, <2>1 DEF Covers, End, BlockEnd
    <3> QED BY <1>5, <1>9, <3>1
  <2>2. ASSUME NEW m \in Holes, Covers(HoleInfo(m), cell)
        PROVE  \E n \in Holes' : n <= cell /\ cell < n + size'[n]
    <3>1. m <= cell /\ cell < m + size[m] /\ m \in Node /\ m \in Nat /\ size[m] \in Nat
      BY <1>3, <2>2, HoleIs DEF Covers, HoleInfo
    <3>2. m + size[m] <= m + size'[m] /\ size'[m] \in Nat
      BY <1>4, <1>6, <1>7, <3>1
    <3> QED BY <1>9, <3>1, <3>2
  <2> QED BY <1>13, <2>1, <2>2
<1> QED BY <1>1, <1>2, <1>7, <1>9, <1>10, <1>11, <1>12, <1>13, InsertedKeepsInv

\* The block closes the gap between two holes.
LEMMA FillGapKeepsInv ==
    ASSUME Inv, FillGap
    PROVE  Inv'
<1>1. /\ pc = "free" /\ Asserted /\ End = block.addr /\ Inserted
      /\ next[hole] # 0 /\ BlockEnd = next[hole] /\ Unlink(hole, next[hole])
      /\ size' = [size EXCEPT ![hole] = @ + block.size + size[next[hole]],
                              ![next[hole]] = 0]
  BY DEF FillGap
<1>2. ~misused
  BY <1>1, DoubleFree
<1>3. TypeOK /\ HolesPlaced /\ ListSorted
  BY DEF Inv
<1>4. /\ hole \in Holes \cup {0} /\ block.size \in Nat \ {0}
      /\ block.addr \in Nat \ {0}
  BY <1>1, <1>2, ProperFree
<1>5. hole \in Holes
  <2>1. hole # 0
    BY <1>1, <1>3, <1>4 DEF End, HolesPlaced
  <2> QED BY <1>4, <2>1
<1>6. hole \in Nat \ {0} /\ hole \in Node /\ size[hole] \in Nat \ {0}
  BY <1>3, <1>5, HoleIs
<1>7. PICK h \in Holes : h = next[hole] /\ hole < h
  BY <1>1, <1>3, <1>4, NextIs
<1>8. /\ h \in Nat \ {0} /\ h \in Node /\ size[h] \in Nat \ {0} /\ h # hole
      /\ h + size[h] <= NewHole.addr + NewHole.size
  BY <1>3, <1>6, <1>7, HoleIs
<1>9. /\ size'[hole] = size[hole] + block.size + size[h] /\ size'[h] = 0
      /\ \A n \in Node : n # hole /\ n # h => size'[n] = size[n]
      /\ size' \in [Node -> Nat]
  <2>1. size \in [Node -> Nat]
    BY <1>3, Constants DEF TypeOK
  <2>2. size[hole] + block.size + size[h] \in Nat
    BY <1>4, <1>6, <1>8
  <2> QED BY <1>1, <1>6, <1>7, <1>8, <2>1, <2>2
<1>10. /\ hole + size'[hole] = h + size[h] /\ BlockEnd = h
       /\ block.addr = hole + size[hole]
  BY <1>1, <1>4, <1>6, <1>7, <1>8, <1>9 DEF End, BlockEnd
<1>11. Holes' = Holes \ {h} /\ ListSorted'
  <2>1. /\ size'[next[hole]] = 0
        /\ \A n \in Node : n # hole /\ n # next[hole] => size'[n] = size[n]
        /\ size'[hole] = 0 <=> size[hole] = 0
        /\ hole + size'[hole] <= next[hole] + size[next[hole]]
    BY <1>4, <1>6, <1>7, <1>8, <1>9, <1>10
  <2> QED BY <1>1, <1>3, <1>4, <1>7, <1>9, <2>1, UnlinkKeepsSorted
<1>12. next' \in [Node -> Node] /\ size'[0] = 0
  <2>1. 0 \in Node /\ next[h] \in Node
    BY <1>3, <1>8, Constants DEF Node, TypeOK
  <2>2. next' = [next EXCEPT ![hole] = next[h], ![h] = 0]
    BY <1>1, <1>7 DEF Unlink
  <2> QED BY <1>3, <1>6, <1>8, <1>9, <2>1, <2>2 DEF TypeOK, HolesPlaced
<1>13. ASSUME NEW n \in Holes'
       PROVE  /\ n % Word = 0 /\ NewHole.addr <= n
              /\ n + size'[n] <= NewHole.addr + NewHole.size
  <2>1. n \in Holes /\ n # h
    BY <1>11
  <2>2. /\ n % Word = 0 /\ NewHole.addr <= n /\ n \in Node
        /\ n + size[n] <= NewHole.addr + NewHole.size
    BY <1>3, <2>1, HoleIs
  <2> QED BY <1>8, <1>9, <1>10, <2>1, <2>2
<1>14. ASSUME NEW n \in Holes', NEW x \in Nat, NEW s \in Nat \ {0},
              Apart(block, [addr |-> x, size |-> s]),
              \A m \in Holes : Apart([addr |-> x, size |-> s], HoleInfo(m))
       PROVE  x + s <= n \/ n + size'[n] <= x
  <2>1. n \in Holes /\ n # h /\ n \in Node /\ n \in Nat /\ size[n] \in Nat \ {0}
    BY <1>3, <1>11, HoleIs
  <2>2. (x + s <= n \/ n + size[n] <= x) /\ (x + s <= h \/ h + size[h] <= x)
    BY <1>8, <1>14, <2>1 DEF Apart, HoleInfo
  <2>3. x + s <= block.addr \/ BlockEnd <= x
    BY <1>4, <1>14 DEF Apart, BlockEnd
  <2>4. CASE n # hole
    BY <1>9, <2>1, <2>2, <2>4
  <2>5. CASE n = hole
    BY <1>4, <1>6, <1>8, <1>10, <2>2, <2>3, <2>5
  <2> QED BY <2>4, <2>5
<1>15. ASSUME NEW cell \in Nat,
              Covers(block, cell) \/ \E m \in Holes : Covers(HoleInfo(m), cell)
       PROVE  \E n \in Holes' : n <= cell /\ cell < n + size'[n]
  <2>1. hole \in Holes'
    BY <1>5, <1>8, <1>11
  <2>2. CASE Covers(block, cell)
    <3>1. hole <= cell /\ cell < hole + size'[hole]
      BY <1>4, <1>6, <1>8, <1>10, <2>2 DEF Covers, BlockEnd
    <3> QED BY <2>1, <3>1
  <2>3. ASSUME NEW m \in Holes, Covers(HoleInfo(m), cell)
        PROVE  \E n \in Holes' : n <= cell /\ cell < n + size'[n]
    <3>1. m <= cell /\ cell < m + size[m] /\ m \in Node /\ m \in Nat /\ size[m] \in Nat
      BY <1>3, <2>3, HoleIs DEF Covers, HoleInfo
    <3>2. CASE m = h \/ m = hole
      <4>1. hole <= cell /\ cell < hole + size'[hole]
        BY <1>4, <1>6, <1>7, <1>8, <1>9, <1>10, <3>1, <3>2
      <4> QED BY <2>1, <4>1
    <3>3. CASE m # h /\ m # hole
      BY <1>9, <1>11, <3>1, <3>3
    <3> QED BY <3>2, <3>3
  <2> QED BY <1>15, <2>2, <2>3
<1> QED BY <1>1, <1>2, <1>9, <1>11, <1>12, <1>13, <1>14, <1>15, InsertedKeepsInv

\* The block becomes a hole of its own.
LEMMA InsertHoleKeepsInv ==
    ASSUME Inv, InsertHole
    PROVE  Inv'
<1>1. /\ pc = "free" /\ Asserted /\ Between /\ Inserted
      /\ size' = [size EXCEPT ![block.addr] = block.size]
      /\ next' = [next EXCEPT ![block.addr] = next[hole], ![hole] = block.addr]
  BY DEF InsertHole
<1>2. ~misused
  <2> SUFFICES ASSUME misused PROVE FALSE
    OBVIOUS
  <2>1. TypeOK /\ HolesPlaced /\ CallInv
    BY DEF Inv
  <2>2. next[hole] # 0 /\ next[hole] <= block.addr
    BY <1>1, DoubleFree
  <2>3. next[hole] > block.addr
    BY <1>1, <2>2 DEF Between
  <2>4. next[hole] \in Nat /\ block.addr \in Nat
    BY <1>1, <2>1, NodeIs, Numbers DEF CallInv
  <2> QED BY <2>2, <2>3, <2>4
<1>3. TypeOK /\ HolesPlaced /\ ListSorted
  BY DEF Inv
<1>4. /\ hole \in Holes \cup {0} /\ block.size \in Nat \ {0} /\ block.addr % Word = 0
      /\ block.addr \in Nat \ {0} /\ block.addr \in Node
      /\ NewHole.addr <= block.addr /\ BlockEnd <= NewHole.addr + NewHole.size
      /\ End <= block.addr
      /\ \A m \in Holes : m + size[m] <= block.addr \/ BlockEnd <= m
  BY <1>1, <1>2, ProperFree
<1>5. /\ hole \in Nat /\ hole \in Node /\ size[hole] \in Nat
      /\ next[hole] \in Nat /\ next[hole] \in Node
  BY <1>3, <1>4, NodeIs
<1>6. hole + size[hole] < block.addr /\ hole # block.addr
  BY <1>1, <1>4, <1>5 DEF Between, End
<1>7. /\ size'[block.addr] = block.size
      /\ \A n \in Node : n # block.addr => size'[n] = size[n]
      /\ next'[block.addr] = next[hole] /\ next'[hole] = block.addr
      /\ \A n \in Node : n # block.addr /\ n # hole => next'[n] = next[n]
      /\ size' \in [Node -> Nat] /\ next' \in [Node -> Node]
  <2>1. size \in [Node -> Nat] /\ next \in [Node -> Node]
    BY <1>3, Constants DEF TypeOK
  <2> QED BY <1>1, <1>4, <1>5, <1>6, <2>1
<1>8. Holes' = Holes \cup {block.addr} /\ block.addr \notin Holes /\ ListSorted'
  <2>1. ASSUME next[hole] # 0 PROVE block.addr + block.size < next[hole]
    <3>1. next[hole] \in Holes /\ BlockEnd # next[hole] /\ next[hole] > block.addr
      BY <1>1, <1>3, <1>4, <2>1, NextIs DEF Between
    <3>2. next[hole] + size[next[hole]] <= block.addr \/ BlockEnd <= next[hole]
      BY <1>4, <3>1
    <3>3. size[next[hole]] \in Nat
      BY <1>3, <3>1, HoleIs
    <3> QED BY <1>4, <1>5, <3>1, <3>2, <3>3 DEF BlockEnd
  <2> QED BY <1>3, <1>4, <1>6, <1>7, <2>1, InsertKeepsSorted
<1>9. size'[0] = 0
  <2>1. 0 \in Node
    BY Constants DEF Node
  <2> QED BY <1>3, <1>4, <1>7, <2>1 DEF HolesPlaced
<1>10. ASSUME NEW n \in Holes'
       PROVE  /\ n % Word = 0 /\ NewHole.addr <= n
              /\ n + size'[n] <= NewHole.addr + NewHole.size
  <2>1. CASE n = block.addr
    BY <1>4, <1>7, <2>1 DEF BlockEnd
  <2>2. CASE n \in Holes
    <3>1. /\ n % Word = 0 /\ NewHole.addr <= n /\ n \in Node
          /\ n + size[n] <= NewHole.addr + NewHole.size
      BY <1>3, <2>2, HoleIs
    <3> QED BY <1>7, <1>8, <2>2, <3>1
  <2> QED BY <1>8, <2>1, <2>2
<1>11. ASSUME NEW n \in Holes', NEW x \in Nat, NEW s \in Nat \ {0},
              Apart(block, [addr |-> x, size |-> s]),
              \A m \in Holes : Apart([addr |-> x, size |-> s], HoleInfo(m))
       PROVE  x + s <= n \/ n + size'[n] <= x
  <2>1. CASE n = block.addr
    BY <1>4, <1>7, <1>11, <2>1 DEF Apart
  <2>2. CASE n \in Holes
    <3>1. n \in Node /\ size[n] \in Nat \ {0} /\ size'[n] = size[n]
      BY <1>3, <1>7, <1>8, <2>2, HoleIs
    <3> QED BY <1>11, <2>2, <3>1 DEF Apart, HoleInfo
  <2> QED BY <1>8, <2>1, <2>2
<1>12. ASSUME NEW cell \in Nat,
              Covers(block, cell) \/ \E m \in Holes : Covers(HoleInfo(m), cell)
       PROVE  \E n \in Holes' : n <= cell /\ cell < n + size'[n]
  <2>1. CASE Covers(block, cell)
    BY <1>7, <1>8, <2>1 DEF Covers
  <2>2. ASSUME NEW m \in Holes, Covers(HoleInfo(m), cell)
        PROVE  \E n \in Holes' : n <= cell /\ cell < n + size'[n]
    <3>1. m \in Node /\ size'[m] = size[m]
      BY <1>3, <1>7, <1>8, HoleIs
    <3> QED BY <1>8, <2>2, <3>1 DEF Covers, HoleInfo
  <2> QED BY <1>12, <2>1, <2>2
<1> QED BY <1>1, <1>2, <1>7, <1>8, <1>9, <1>10, <1>11, <1>12, InsertedKeepsInv

\* The block takes the next hole in, and the loop looks again.
LEMMA MergeNextKeepsInv ==
    ASSUME Inv, MergeNext
    PROVE  Inv'
<1>1. /\ pc = "free" /\ Asserted /\ next[hole] # 0 /\ BlockEnd = next[hole]
      /\ block' = [block EXCEPT !.size = @ + size[next[hole]]]
      /\ size' = [size EXCEPT ![next[hole]] = 0]
      /\ Unlink(hole, next[hole])
      /\ used' = used /\ live' = live /\ pc' = pc /\ layout' = layout /\ asked' = asked
      /\ misused' = misused /\ hole' = hole /\ back' = back /\ given' = given
  BY DEF MergeNext, call
<1>2. ~misused
  BY <1>1, DoubleFree
<1>3. TypeOK /\ HolesPlaced /\ ListSorted /\ LivePlaced /\ CallInv /\ AllApart /\ AllCovered
      /\ Counted /\ Freeable(back)
  BY <1>2 DEF Inv
<1>4. /\ hole \in Holes \cup {0} /\ block.size \in Nat \ {0} /\ block.size >= MinSize
      /\ block.addr \in Nat \ {0} /\ block.addr \in Node /\ block.addr % Word = 0
      /\ NewHole.addr <= block.addr /\ End <= block.addr
  BY <1>1, <1>2, ProperFree
<1>5. PICK h \in Holes : h = next[hole] /\ hole < h
  BY <1>1, <1>3, <1>4, NextIs
<1>6. /\ hole \in Nat /\ hole \in Node /\ size[hole] \in Nat
      /\ h \in Nat \ {0} /\ h \in Node /\ size[h] \in Nat \ {0} /\ h # hole
      /\ h + size[h] <= NewHole.addr + NewHole.size
  BY <1>3, <1>4, <1>5, HoleIs, NodeIs
<1>7. /\ size'[h] = 0 /\ \A n \in Node : n # h => size'[n] = size[n]
      /\ size' \in [Node -> 0 .. Length] /\ size' \in [Node -> Nat]
  <2>1. size \in [Node -> 0 .. Length] /\ 0 \in 0 .. Length /\ \A s \in 0 .. Length : s \in Nat
    BY <1>3, Constants DEF TypeOK
  <2>2. size' = [size EXCEPT ![h] = 0]
    BY <1>1, <1>5
  <2>3. size' \in [Node -> 0 .. Length]
    BY <1>6, <2>1, <2>2
  <2> QED BY <1>6, <2>1, <2>2, <2>3
<1>8. /\ block'.addr = block.addr /\ block'.size = block.size + size[h]
      /\ block' \in [addr : Node, size : Nat]
  <2>1. block \in [addr : Node, size : Nat]
    BY <1>3 DEF TypeOK
  <2>2. block.size + size[h] \in Nat
    BY <1>4, <1>6
  <2> QED BY <1>1, <1>5, <2>1, <2>2
<1>9. block'.addr + block'.size = h + size[h] /\ block.addr + block.size = h
  BY <1>1, <1>4, <1>5, <1>6, <1>8 DEF BlockEnd
<1>10. Holes' = Holes \ {h} /\ ListSorted'
  <2>1. /\ size'[next[hole]] = 0
        /\ \A n \in Node : n # hole /\ n # next[hole] => size'[n] = size[n]
        /\ size'[hole] = 0 <=> size[hole] = 0
        /\ hole + size'[hole] <= next[hole] + size[next[hole]]
    <3>1. size'[hole] = size[hole] /\ hole + size[hole] < h
      BY <1>1, <1>3, <1>4, <1>5, <1>6, <1>7, NextIs
    <3>2. hole + size'[hole] <= h + size[h]
      BY <1>6, <3>1
    <3> QED BY <1>5, <1>7, <3>1, <3>2
  <2> QED BY <1>1, <1>3, <1>4, <1>5, <1>7, <2>1, UnlinkKeepsSorted
<1>11. ASSUME NEW n \in Holes'
       PROVE  n \in Holes /\ n # h /\ n \in Node /\ HoleInfo(n)' = HoleInfo(n)
  BY <1>3, <1>7, <1>10, HoleIs DEF HoleInfo
<1>12. TypeOK'
  <2>1. next' \in [Node -> Node]
    <3>1. 0 \in Node /\ next[h] \in Node
      BY <1>3, <1>6, Constants DEF Node, TypeOK
    <3>2. next' = [next EXCEPT ![hole] = next[h], ![h] = 0]
      BY <1>1, <1>5 DEF Unlink
    <3> QED BY <1>3, <1>6, <3>1, <3>2 DEF TypeOK
  <2> QED BY <1>1, <1>3, <1>7, <1>8, <2>1 DEF TypeOK
<1>13. HolesPlaced'
  <2>1. size'[0] = 0
    <3>1. 0 \in Node
      BY Constants DEF Node
    <3> QED BY <1>3, <1>6, <1>7, <3>1 DEF HolesPlaced
  <2> QED BY <1>3, <1>11, <2>1 DEF HolesPlaced
<1>14. LivePlaced'
  BY <1>1, <1>3 DEF LivePlaced
<1>15. CallInv'
  <2>1. hole' \in Holes' \cup {0}
    BY <1>1, <1>4, <1>6, <1>10
  <2>2. block'.size >= MinSize
    BY <1>4, <1>6, <1>8, Constants
  <2>3. End' <= block'.addr
    BY <1>1, <1>4, <1>6, <1>7, <1>8 DEF End
  <2>4. pc' = "free" /\ ~misused'
    BY <1>1, <1>2
  <2>5. (given' = NoBlock => back'.size = 0)
        /\ (given' # NoBlock => /\ asked' \in Layouts /\ layout' = align_layout(asked')
                                /\ given'.size = layout'.size
                                /\ given'.addr % asked'.align = 0 /\ Placed(given'))
    BY <1>1, <1>3 DEF CallInv
  <2> QED BY <2>1, <2>2, <2>3, <2>4, <2>5 DEF CallInv
<1>16. MisuseInv'
  BY <1>1, <1>2 DEF MisuseInv
<1>17. Freeable(block') /\ Freeable(back')
  <2>1. Placed(block')
    BY <1>4, <1>6, <1>8, <1>9 DEF Placed
  <2>2. block'.size >= MinSize
    BY <1>4, <1>6, <1>8, Constants
  <2> QED BY <1>1, <1>3, <2>1, <2>2 DEF Freeable
<1>18. ASSUME NEW c, c.addr \in Nat, c.size \in Nat, Apart(block, c), Apart(c, HoleInfo(h))
       PROVE  Apart(block', c)
  <2>1. HoleInfo(h).addr = block.addr + block.size /\ HoleInfo(h).size = size[h]
    BY <1>9 DEF HoleInfo
  <2>2. Apart(HoleInfo(h), c)
    BY <1>18, ApartSym
  <2>3. block'.size \in Nat /\ HoleInfo(h).addr \in Nat
    BY <1>4, <1>6, <1>8, <2>1
  <2> QED BY <1>4, <1>6, <1>8, <1>18, <2>1, <2>2, <2>3, JoinIsApart
<1>19. AllApart'
  <2>1. \A a, b \in live' : a # b => Apart(a, b)
    BY <1>1, <1>3 DEF AllApart
  <2>2. \A a \in live', n \in Holes' : Apart(a, HoleInfo(n)')
    BY <1>1, <1>3, <1>11 DEF AllApart
  <2>3. ASSUME NEW b \in {back', given'}
        PROVE  /\ \A n \in Holes' : Apart(b, HoleInfo(n)')
               /\ \A a \in live' : Apart(b, a)
               /\ Apart(block', b)
    <3>1. b \in {back, given} /\ b.addr \in Nat /\ b.size \in Nat
      BY <1>1, <1>3, Numbers
    <3>2. /\ \A n \in Holes : Apart(b, HoleInfo(n))
          /\ \A a \in live : Apart(b, a)
          /\ Apart(block, b)
      BY <1>3, <3>1 DEF AllApart
    <3> QED BY <1>1, <1>11, <1>18, <3>1, <3>2
  <2>4. \A a \in live' : Apart(block', a)
    <3>1. ASSUME NEW a \in live PROVE Apart(block', a)
      <4>1. a.addr \in Nat /\ a.size \in Nat /\ Apart(block, a) /\ Apart(a, HoleInfo(h))
        BY <1>3, Numbers DEF AllApart
      <4> QED BY <1>18, <4>1
    <3> QED BY <1>1, <3>1
  <2>5. ASSUME NEW n \in Holes' PROVE Apart(block', HoleInfo(n)')
    <3>1. n \in Holes /\ n # h /\ HoleInfo(n)' = HoleInfo(n) /\ n \in Nat /\ size[n] \in Nat
      BY <1>3, <1>11, HoleIs
    <3>2. HoleInfo(n).addr = n /\ HoleInfo(n).size = size[n] /\ Apart(block, HoleInfo(n))
      BY <1>3, <3>1 DEF AllApart, HoleInfo
    <3>3. Apart(HoleInfo(n), HoleInfo(h))
      <4>1. n < h => n + size[n] < h
        BY <1>3, <3>1, Behind
      <4>2. h < n => h + size[h] < n
        BY <1>3, <3>1, Behind
      <4> QED BY <1>6, <3>1, <4>1, <4>2 DEF Apart, HoleInfo
    <3> QED BY <1>18, <3>1, <3>2, <3>3
  <2>6. Apart(back', given')
    BY <1>1, <1>3 DEF AllApart
  <2> QED BY <2>1, <2>2, <2>3, <2>4, <2>5, <2>6 DEF AllApart
<1>20. AllCovered'
  <2> SUFFICES ASSUME NEW cell \in {c \in Node : Covers(NewHole, c)}
               PROVE  \/ \E n \in Holes' : Covers(HoleInfo(n)', cell)
                      \/ \E a \in live' : Covers(a, cell)
                      \/ \E b \in {block', back', given'} : Covers(b, cell)
    BY DEF AllCovered
  <2>1. cell \in Nat
    BY Constants DEF Node
  <2>2. CASE Covers(block, cell) \/ Covers(HoleInfo(h), cell)
    <3>1. Covers(block', cell)
      BY <1>4, <1>6, <1>8, <1>9, <2>1, <2>2 DEF Covers, HoleInfo
    <3> QED BY <3>1
  <2>3. ASSUME NEW n \in Holes, n # h, Covers(HoleInfo(n), cell)
        PROVE  \E m \in Holes' : Covers(HoleInfo(m)', cell)
    BY <1>10, <1>11, <2>3
  <2>4. CASE \E a \in live : Covers(a, cell)
    BY <1>1, <2>4
  <2>5. CASE Covers(back, cell) \/ Covers(given, cell)
    BY <1>1, <2>5
  <2> QED BY <1>3, <2>2, <2>3, <2>4, <2>5 DEF AllCovered
<1>21. Counted'
  BY <1>1, <1>3 DEF Counted, GivingBack
<1> QED BY <1>10, <1>12, <1>13, <1>14, <1>15, <1>16, <1>17, <1>19, <1>20, <1>21 DEF Inv

\* A step that leaves the list alone leaves what is said of the holes alone.
LEMMA SameList ==
    ASSUME Inv, UNCHANGED list
    PROVE  /\ size' = size /\ next' = next
           /\ Holes' = Holes /\ \A n \in Holes : HoleInfo(n)' = HoleInfo(n)
           /\ ListSorted' /\ HolesPlaced'
<1>1. size' = size /\ next' = next /\ ListSorted /\ HolesPlaced
  BY DEF list, Inv
<1>2. Holes' = Holes
  BY <1>1 DEF Holes
<1>3. \A n \in Holes : HoleInfo(n)' = HoleInfo(n)
  BY <1>1 DEF HoleInfo
<1>4. ListSorted'
  BY <1>1, <1>2 DEF ListSorted
<1>5. HolesPlaced'
  BY <1>1, <1>2, <1>3 DEF HolesPlaced
<1> QED BY <1>1, <1>2, <1>3, <1>4, <1>5

\* So does one that moves no block, for everything but the place of the loop.
LEMMA SamePlaces ==
    ASSUME Inv, UNCHANGED <<list, used, live, call, block, back, given>>
    PROVE  /\ ListSorted' /\ HolesPlaced' /\ LivePlaced'
           /\ Holes' = Holes /\ \A n \in Holes : HoleInfo(n)' = HoleInfo(n)
           /\ ~misused' => Freeable(block') /\ Freeable(back') /\ AllApart' /\ AllCovered'
<1>1. /\ live' = live /\ block' = block /\ back' = back /\ given' = given
      /\ misused' = misused
  BY DEF call
<1>2. /\ Holes' = Holes /\ \A n \in Holes : HoleInfo(n)' = HoleInfo(n)
      /\ ListSorted' /\ HolesPlaced'
  BY SameList
<1>3. LivePlaced'
  BY <1>1 DEF LivePlaced, Inv
<1>4. ASSUME ~misused PROVE AllApart'
  BY <1>1, <1>2, <1>4 DEF AllApart, Inv
<1>5. ASSUME ~misused PROVE AllCovered'
  BY <1>1, <1>2, <1>5 DEF AllCovered, Inv
<1> QED BY <1>1, <1>2, <1>3, <1>4, <1>5 DEF Inv

\* deallocate goes on to the next hole, which lies before the block as well.
LEMMA GoOnKeepsInv ==
    ASSUME Inv, GoOn
    PROVE  Inv'
<1>1. /\ pc = "free" /\ Asserted /\ next[hole] # 0 /\ next[hole] <= block.addr
      /\ hole' = next[hole] /\ pc' = pc
      /\ UNCHANGED <<list, used, live, call, block, back, given>>
      /\ used' = used /\ live' = live /\ layout' = layout /\ asked' = asked
      /\ misused' = misused /\ block' = block /\ back' = back /\ given' = given
      /\ size' = size /\ next' = next
  BY DEF GoOn, call, list
<1>2. TypeOK /\ HolesPlaced /\ ListSorted /\ CallInv /\ MisuseInv /\ Counted
  BY DEF Inv
<1>3. hole \in Holes \cup {0}
  BY <1>1, <1>2 DEF CallInv
<1>4. next[hole] \in Holes /\ next[hole] \in Node
  BY <1>1, <1>2, <1>3, NextIs, HoleIs
<1>5. /\ Holes' = Holes /\ ListSorted' /\ HolesPlaced' /\ LivePlaced'
      /\ ~misused' => Freeable(block') /\ Freeable(back') /\ AllApart' /\ AllCovered'
  BY <1>1, SamePlaces
<1>6. TypeOK'
  BY <1>1, <1>2, <1>4 DEF TypeOK
<1>7. ASSUME ~misused PROVE End' <= block'.addr
  <2>1. block.addr \in Nat /\ block.size \in Nat \ {0}
        /\ (next[hole] + size[next[hole]] <= block.addr \/ BlockEnd <= next[hole])
    BY <1>1, <1>4, <1>7, ProperFree
  <2>2. next[hole] \in Nat /\ size[next[hole]] \in Nat
    BY <1>2, <1>4, HoleIs
  <2> QED BY <1>1, <2>1, <2>2 DEF End, BlockEnd
<1>8. CallInv'
  <2>1. hole' \in Holes' /\ pc' = "free" /\ block'.size >= MinSize
        /\ (~misused' => End' <= block'.addr)
    BY <1>1, <1>2, <1>4, <1>5, <1>7 DEF CallInv
  <2>2. (given' = NoBlock => back'.size = 0)
        /\ (given' # NoBlock => /\ asked' \in Layouts /\ layout' = align_layout(asked')
                                /\ given'.size = layout'.size
                                /\ given'.addr % asked'.align = 0 /\ Placed(given'))
    BY <1>1, <1>2 DEF CallInv
  <2> QED BY <2>1, <2>2 DEF CallInv
<1>9. MisuseInv'
  <2> SUFFICES ASSUME misused PROVE MisuseInv'
    BY <1>1 DEF MisuseInv
  <2>1. given = NoBlock
        /\ \E h \in Holes : next[hole] <= h /\ h <= block.addr /\ BlockEnd <= h + size[h]
    BY <1>1, DoubleFree
  <2> QED BY <1>1, <1>5, <2>1 DEF MisuseInv, BlockEnd
<1>10. Counted'
  BY <1>1, <1>2 DEF Counted, GivingBack
<1> QED BY <1>5, <1>6, <1>8, <1>9, <1>10 DEF Inv

\* Only the block of a double free fails an assertion.
LEMMA FailAssertKeepsInv ==
    ASSUME Inv, FailAssert
    PROVE  Inv'
<1>1. /\ pc = "free" /\ pc' = "panic"
      /\ UNCHANGED <<list, used, live, call, block, back, given>>
      /\ used' = used /\ live' = live /\ layout' = layout /\ asked' = asked
      /\ misused' = misused /\ block' = block /\ back' = back /\ given' = given
      /\ size' = size /\ next' = next /\ hole' = hole
  BY DEF FailAssert, call, list
<1>2. TypeOK /\ CallInv /\ MisuseInv /\ Counted
  BY DEF Inv
<1>3. misused
  <2> SUFFICES ASSUME ~misused PROVE FALSE
    OBVIOUS
  <2>1. Asserted /\ block.addr % Word = 0
    BY <1>1, ProperFree
  <2> QED BY <2>1 DEF FailAssert
<1>4. /\ ListSorted' /\ HolesPlaced' /\ LivePlaced'
      /\ ~misused' => Freeable(block') /\ Freeable(back') /\ AllApart' /\ AllCovered'
  BY <1>1, SamePlaces
<1>5. TypeOK'
  BY <1>1, <1>2 DEF TypeOK
<1>6. MisuseInv'
  BY <1>1, <1>2 DEF MisuseInv
<1>7. CallInv'
  BY <1>1, <1>2, <1>3 DEF CallInv, MisuseInv
<1>8. Counted'
  BY <1>1, <1>2, <1>3 DEF Counted, GivingBack
<1> QED BY <1>4, <1>5, <1>6, <1>7, <1>8 DEF Inv

-----------------------------------------------------------------------------
(***************************************************************************)
(* allocate_first_fit, up to the hole that fits.                           *)
(***************************************************************************)

\* split_hole depends on the size of the hole and on the layout only.
LEMMA SameSplit ==
    ASSUME size' = size, layout' = layout, NEW n
    PROVE  split_hole(HoleInfo(n))' = split_hole(HoleInfo(n))
BY DEF split_hole, BackPadding, AlignedAddr, HoleInfo

\* The search goes on behind a hole that is too small.
LEMMA TryNextKeepsInv ==
    ASSUME Inv, TryNext
    PROVE  Inv'
<1>1. /\ pc = "search" /\ next[hole] # 0 /\ ~split_hole(HoleInfo(next[hole]))
      /\ hole' = next[hole] /\ pc' = pc
      /\ UNCHANGED <<list, used, live, call, block, back, given>>
      /\ used' = used /\ live' = live /\ layout' = layout /\ asked' = asked
      /\ misused' = misused /\ block' = block /\ back' = back /\ given' = given
      /\ size' = size /\ next' = next
  BY DEF TryNext, call, list
<1>2. TypeOK /\ HolesPlaced /\ ListSorted /\ CallInv /\ MisuseInv /\ Counted
  BY DEF Inv
<1>3. hole \in Holes \cup {0}
  BY <1>1, <1>2 DEF CallInv
<1>4. next[hole] \in Holes /\ next[hole] \in Node
      /\ \A m \in Holes : m <= hole \/ m = next[hole] \/ next[hole] < m
  BY <1>1, <1>2, <1>3, NextIs, HoleIs
<1>5. /\ Holes' = Holes /\ ListSorted' /\ HolesPlaced' /\ LivePlaced'
      /\ ~misused' => Freeable(block') /\ Freeable(back') /\ AllApart' /\ AllCovered'
  BY <1>1, SamePlaces
<1>6. TypeOK'
  BY <1>1, <1>2, <1>4 DEF TypeOK
<1>7. ASSUME NEW n \in Holes', n <= hole' PROVE ~split_hole(HoleInfo(n))'
  <2>1. n \in Holes /\ n \in Nat /\ next[hole] \in Nat
    BY <1>2, <1>4, <1>5, HoleIs
  <2>2. n <= hole \/ n = next[hole]
    BY <1>1, <1>4, <1>7, <2>1
  <2>3. ~split_hole(HoleInfo(n))
    BY <1>1, <1>2, <2>1, <2>2 DEF CallInv
  <2> QED BY <1>1, <2>3, SameSplit
<1>8. CallInv'
  <2>1. /\ pc' = "search" /\ block'.size = 0 /\ back'.size = 0 /\ ~misused'
        /\ given' = NoBlock /\ asked' \in Layouts /\ layout' = align_layout(asked')
        /\ hole' \in Holes' \cup {0}
    BY <1>1, <1>2, <1>4, <1>5 DEF CallInv
  <2> QED BY <1>7, <2>1 DEF CallInv
<1>9. MisuseInv' /\ Counted'
  BY <1>1, <1>2 DEF MisuseInv, Counted, GivingBack
<1> QED BY <1>5, <1>6, <1>8, <1>9 DEF Inv

\* The request is refused.
LEMMA RefuseKeepsInv ==
    ASSUME Inv, Refuse
    PROVE  Inv'
<1>1. /\ pc = "search" /\ pc' = "idle"
      /\ UNCHANGED <<list, used, live, call, block, back, given>>
      /\ used' = used /\ live' = live /\ layout' = layout /\ asked' = asked
      /\ misused' = misused /\ block' = block /\ back' = back /\ given' = given
      /\ size' = size /\ next' = next /\ hole' = hole
  BY DEF Refuse, call, list
<1>2. TypeOK /\ CallInv /\ MisuseInv /\ Counted
  BY DEF Inv
<1>3. /\ ListSorted' /\ HolesPlaced' /\ LivePlaced'
      /\ ~misused' => Freeable(block') /\ Freeable(back') /\ AllApart' /\ AllCovered'
  BY <1>1, SamePlaces
<1>4. TypeOK'
  BY <1>1, <1>2 DEF TypeOK
<1>5. CallInv' /\ MisuseInv' /\ Counted'
  BY <1>1, <1>2 DEF CallInv, MisuseInv, Counted, GivingBack
<1> QED BY <1>3, <1>4, <1>5 DEF Inv

\* What split_hole and the paddings are for a hole that fits: the block in the middle is
\* aligned both as the caller asked and for a hole, and a padding is empty or a hole.
LEMMA SplitIs ==
    ASSUME TypeOK, HolesPlaced, NEW h \in Holes, asked \in Layouts,
           layout = align_layout(asked), split_hole(HoleInfo(h))
    PROVE  \E al \in Nat, len \in Nat, rest \in Nat :
             /\ len = layout.size /\ len >= MinSize
             /\ al = AlignedAddr(HoleInfo(h)) /\ al % asked.align = 0 /\ al % Word = 0
             /\ al = h \/ al >= h + MinSize
             /\ FrontPadding(HoleInfo(h)) = [addr |-> h, size |-> al - h]
             /\ BackPadding(HoleInfo(h)) = [addr |-> al + len, size |-> rest]
             /\ h + size[h] = al + len + rest
             /\ rest = 0 \/ rest >= MinSize
             /\ (al + len) % Word = 0
<1>1. h \in Nat /\ size[h] \in Nat \ {0} /\ h % Word = 0
  BY HoleIs
<1>2. HoleInfo(h).addr = h /\ HoleInfo(h).size = size[h]
  BY DEF HoleInfo
<1>3. /\ layout.align = asked.align /\ asked.align \in Nat \ {0}
      /\ layout.size \in Nat /\ layout.size >= MinSize /\ layout.size % Word = 0
  BY AlignLayoutIs
<1>4. Word \in Nat \ {0} /\ MinSize \in Nat /\ (asked.align % Word = 0 \/ Word % asked.align = 0)
  BY Constants, HeapAssumption DEF HeapAssumption
<1>5. PICK up \in Nat : /\ up = align_up(h, asked.align) /\ h <= up
                        /\ up % asked.align = 0 /\ (h % asked.align = 0 => up = h)
  BY <1>1, <1>3, AlignUpIs
<1>6. PICK far \in Nat : /\ far = align_up(h + MinSize, asked.align) /\ h + MinSize <= far
                         /\ far % asked.align = 0
  <2>1. h + MinSize \in Nat
    BY <1>1, <1>4
  <2> QED BY <1>3, <2>1, AlignUpIs
<1>7. PICK al \in Nat : /\ al = AlignedAddr(HoleInfo(h)) /\ al = IF h = up THEN h ELSE far
  BY <1>1, <1>2, <1>3, <1>5, <1>6 DEF AlignedAddr
<1>8. al % asked.align = 0 /\ (al = h \/ al >= h + MinSize) /\ al >= h
  BY <1>1, <1>4, <1>5, <1>6, <1>7
<1>9. al % Word = 0
  <2>1. CASE asked.align % Word = 0
    BY <1>3, <1>4, <1>8, <2>1, MultipleOfMultiple
  <2>2. CASE Word % asked.align = 0
    <3>1. h % asked.align = 0
      BY <1>1, <1>3, <1>4, <2>2, MultipleOfMultiple
    <3>2. al = h
      BY <1>5, <1>7, <3>1
    <3> QED BY <1>1, <3>2
  <2> QED BY <1>4, <2>1, <2>2
<1>10. PICK len \in Nat : len = layout.size
  BY <1>3
<1>11. (al + len) % Word = 0
  BY <1>3, <1>4, <1>9, <1>10, SumOfMultiples
<1>12. al + len <= h + size[h]
  BY <1>2, <1>7, <1>10 DEF split_hole
<1>13. PICK rest \in Nat : rest = size[h] - (al - h) - len /\ h + size[h] = al + len + rest
  BY <1>1, <1>12
<1>14. /\ FrontPadding(HoleInfo(h)) = [addr |-> h, size |-> al - h]
       /\ BackPadding(HoleInfo(h)) = [addr |-> al + len, size |-> rest]
  BY <1>2, <1>7, <1>10, <1>13 DEF FrontPadding, BackPadding
<1>15. rest = 0 \/ rest >= MinSize
  BY <1>14 DEF split_hole
<1> QED BY <1>3, <1>7, <1>8, <1>9, <1>10, <1>11, <1>13, <1>14, <1>15

\* The hole that fits is taken out of the list and cut into the block for the caller and
\* two paddings.
LEMMA TakeHoleKeepsInv ==
    ASSUME Inv, TakeHole
    PROVE  Inv'
<1>1. pc = "search" /\ next[hole] # 0
  BY DEF TakeHole
<1>2. TypeOK /\ HolesPlaced /\ ListSorted /\ LivePlaced /\ CallInv /\ AllApart /\ AllCovered
      /\ Counted /\ ~misused
  BY <1>1 DEF Inv, CallInv
<1>3. /\ hole \in Holes \cup {0} /\ asked \in Layouts /\ layout = align_layout(asked)
      /\ block.size = 0 /\ back.size = 0 /\ given = NoBlock
  BY <1>1, <1>2 DEF CallInv
<1>4. PICK h \in Holes : h = next[hole] /\ hole < h
  BY <1>1, <1>2, <1>3, NextIs
<1>5. /\ h \in Nat \ {0} /\ h \in Node /\ size[h] \in Nat \ {0} /\ h % Word = 0
      /\ NewHole.addr <= h /\ h + size[h] <= NewHole.addr + NewHole.size
      /\ h + size[h] <= Top
      /\ hole \in Nat /\ hole \in Node /\ size[hole] \in Nat /\ h # hole
  BY <1>2, <1>3, <1>4, HoleIs, NodeIs
<1>6. /\ split_hole(HoleInfo(h)) /\ Unlink(hole, h) /\ size' = [size EXCEPT ![h] = 0]
      /\ given' = [addr |-> AlignedAddr(HoleInfo(h)), size |-> layout.size]
      /\ block' = IF FrontPadding(HoleInfo(h)).size # 0 THEN FrontPadding(HoleInfo(h))
                  ELSE BackPadding(HoleInfo(h))
      /\ back' = IF FrontPadding(HoleInfo(h)).size # 0 THEN BackPadding(HoleInfo(h))
                 ELSE NoBlock
      /\ pc' = IF \/ FrontPadding(HoleInfo(h)).size # 0
                  \/ BackPadding(HoleInfo(h)).size # 0 THEN "free" ELSE "return"
      /\ hole' = 0 /\ used' = used /\ live' = live /\ layout' = layout /\ asked' = asked
      /\ misused' = misused
  <2>1. HoleInfo(h).addr = h
    BY DEF HoleInfo
  <2> QED BY <1>4, <2>1 DEF TakeHole, call
<1>7. PICK al \in Nat, len \in Nat, rest \in Nat :
        /\ len = layout.size /\ len >= MinSize
        /\ al = AlignedAddr(HoleInfo(h)) /\ al % asked.align = 0 /\ al % Word = 0
        /\ al = h \/ al >= h + MinSize
        /\ FrontPadding(HoleInfo(h)) = [addr |-> h, size |-> al - h]
        /\ BackPadding(HoleInfo(h)) = [addr |-> al + len, size |-> rest]
        /\ h + size[h] = al + len + rest
        /\ rest = 0 \/ rest >= MinSize
        /\ (al + len) % Word = 0
  BY <1>2, <1>3, <1>6, SplitIs
<1> DEFINE front == [addr |-> h, size |-> al - h]
<1> DEFINE tail == [addr |-> al + len, size |-> rest]
<1> DEFINE mid == [addr |-> al, size |-> len]
<1>8. MinSize \in Nat \ {0} /\ Top \in Nat /\ Length \in Nat /\ Top = Bottom + Length
      /\ Bottom \in Nat
  BY Constants
<1>9. /\ front.addr = h /\ front.size = al - h /\ tail.addr = al + len /\ tail.size = rest
      /\ mid.addr = al /\ mid.size = len
      /\ al >= h /\ al - h \in Nat /\ al + len \in Nat
      /\ al - h = 0 \/ al - h >= MinSize
  BY <1>5, <1>7, <1>8
<1>10. /\ given' = mid
       /\ \/ block' = front /\ back' = tail /\ front.size # 0
          \/ block' = tail /\ back' = NoBlock /\ front.size = 0
       /\ pc' = IF front.size # 0 \/ rest # 0 THEN "free" ELSE "return"
  BY <1>6, <1>7, <1>9
<1> HIDE DEF front, tail, mid
<1>11. /\ size'[h] = 0 /\ \A n \in Node : n # h => size'[n] = size[n]
       /\ size' \in [Node -> 0 .. Length] /\ size' \in [Node -> Nat]
  <2>1. size \in [Node -> 0 .. Length] /\ 0 \in 0 .. Length /\ \A s \in 0 .. Length : s \in Nat
    BY <1>2, Constants DEF TypeOK
  <2>2. size' \in [Node -> 0 .. Length]
    BY <1>5, <1>6, <2>1
  <2> QED BY <1>5, <1>6, <2>1, <2>2
<1>12. Holes' = Holes \ {h} /\ ListSorted'
  <2>1. size'[hole] = size[hole] /\ hole + size[hole] < h
    BY <1>1, <1>2, <1>3, <1>4, <1>5, <1>11, NextIs
  <2>2. hole + size'[hole] <= h + size[h]
    BY <1>5, <2>1
  <2>3. /\ size'[next[hole]] = 0
        /\ \A n \in Node : n # hole /\ n # next[hole] => size'[n] = size[n]
        /\ size'[hole] = 0 <=> size[hole] = 0
        /\ hole + size'[hole] <= next[hole] + size[next[hole]]
        /\ Unlink(hole, next[hole])
    BY <1>4, <1>6, <1>11, <2>1, <2>2
  <2> QED BY <1>1, <1>2, <1>3, <1>4, <1>11, <2>3, UnlinkKeepsSorted
<1>13. ASSUME NEW n \in Holes'
       PROVE  n \in Holes /\ n # h /\ n \in Node /\ HoleInfo(n)' = HoleInfo(n)
  BY <1>2, <1>11, <1>12, HoleIs DEF HoleInfo
<1>14. Placed(mid) /\ Freeable(front) /\ Freeable(tail)
  BY <1>5, <1>7, <1>8, <1>9, NewHoleIs DEF Placed, Freeable
<1>15. TypeOK'
  <2>1. next' \in [Node -> Node]
    <3>1. 0 \in Node /\ next[h] \in Node
      BY <1>2, <1>5, Constants DEF Node, TypeOK
    <3>2. next' = [next EXCEPT ![hole] = next[h], ![h] = 0]
      BY <1>6 DEF Unlink
    <3> QED BY <1>2, <1>5, <3>1, <3>2 DEF TypeOK
  <2>2. /\ al \in Node /\ al + len \in Node /\ 0 \in Node
        /\ len \in 0 .. Length /\ rest \in 0 .. Length
    <3>1. Bottom <= h
      BY <1>2, HoleIs
    <3> QED BY <1>5, <1>7, <1>8, <1>9, <3>1 DEF Node
  <2>3. given' \in Blocks /\ back' \in Blocks
    BY <1>10, <2>2, NoBlockIs DEF mid, tail, Blocks
  <2>4. block' \in [addr : Node, size : Nat]
    BY <1>5, <1>9, <1>10, <2>2 DEF front, tail
  <2>5. pc' \in {"free", "return"}
    BY <1>10
  <2> QED BY <1>2, <1>6, <1>11, <2>1, <2>2, <2>3, <2>4, <2>5 DEF TypeOK
<1>16. HolesPlaced'
  <2>1. size'[0] = 0
    <3>1. 0 \in Node
      BY Constants DEF Node
    <3> QED BY <1>2, <1>5, <1>11, <3>1 DEF HolesPlaced
  <2> QED BY <1>2, <1>13, <2>1 DEF HolesPlaced
<1>17. LivePlaced'
  BY <1>2, <1>6 DEF LivePlaced
<1>18. CallInv'
  <2>1. given' # NoBlock
    BY <1>7, <1>8, <1>9, <1>10, NoBlockIs
  <2>2. /\ given'.size = layout'.size /\ given'.addr % asked'.align = 0 /\ Placed(given')
        /\ asked' \in Layouts /\ layout' = align_layout(asked')
    BY <1>3, <1>6, <1>7, <1>9, <1>10, <1>14
  <2>3. pc' = "free" => block'.size >= MinSize
    BY <1>7, <1>9, <1>10
  <2>4. pc' = "return" => block'.size = 0 /\ back'.size = 0
    BY <1>9, <1>10, NoBlockIs
  <2>5. End' <= block'.addr
    <3>1. block'.addr \in Nat
      BY <1>5, <1>9, <1>10
    <3> QED BY <1>6, <1>16, <3>1 DEF End, HolesPlaced
  <2>6. pc' \in {"free", "return"} /\ ~misused' /\ hole' = 0
    BY <1>2, <1>6, <1>10
  <2> QED BY <2>1, <2>2, <2>3, <2>4, <2>5, <2>6 DEF CallInv
<1>19. MisuseInv'
  BY <1>2, <1>6 DEF MisuseInv
<1>20. Freeable(block') /\ Freeable(back')
  BY <1>10, <1>14, NoBlockIs
<1>21. ASSUME NEW p \in {front, mid, tail}, NEW c, c.addr \in Nat, c.size \in Nat,
              Apart(HoleInfo(h), c)
       PROVE  Apart(p, c)
  <2>1. HoleInfo(h).addr = h /\ HoleInfo(h).size = size[h]
    BY DEF HoleInfo
  <2>2. /\ p.addr \in Nat /\ p.size \in Nat /\ h <= p.addr
        /\ p.addr + p.size <= h + size[h]
    BY <1>5, <1>7, <1>9
  <2> QED BY <1>5, <1>21, <2>1, <2>2, PartIsApart
<1>22. AllApart'
  <2>1. \A a, b \in live' : a # b => Apart(a, b)
    BY <1>2, <1>6 DEF AllApart
  <2>2. \A a \in live', n \in Holes' : Apart(a, HoleInfo(n)')
    BY <1>2, <1>6, <1>13 DEF AllApart
  <2>3. ASSUME NEW p \in {front, mid, tail, NoBlock}
        PROVE  /\ \A n \in Holes' : Apart(p, HoleInfo(n)')
               /\ \A a \in live' : Apart(p, a)
    <3>1. CASE p = NoBlock
      BY <3>1, NoBlockIs DEF Apart
    <3>2. CASE p # NoBlock
      <4>1. ASSUME NEW n \in Holes' PROVE Apart(p, HoleInfo(n)')
        <5>1. n \in Holes /\ n # h /\ HoleInfo(n)' = HoleInfo(n) /\ n \in Nat /\ size[n] \in Nat
          BY <1>2, <1>13, HoleIs
        <5>2. HoleInfo(n).addr = n /\ HoleInfo(n).size = size[n]
          BY DEF HoleInfo
        <5>3. Apart(HoleInfo(h), HoleInfo(n))
          <6>1. n < h => n + size[n] < h
            BY <1>2, <5>1, Behind
          <6>2. h < n => h + size[h] < n
            BY <1>2, <5>1, Behind
          <6> QED BY <1>5, <5>1, <6>1, <6>2 DEF Apart, HoleInfo
        <5> QED BY <1>21, <3>2, <5>1, <5>2, <5>3
      <4>2. ASSUME NEW a \in live' PROVE Apart(p, a)
        <5>1. a \in live /\ a.addr \in Nat /\ a.size \in Nat
          BY <1>2, <1>6, Numbers
        <5>2. Apart(HoleInfo(h), a)
          BY <1>2, <5>1, ApartSym DEF AllApart
        <5> QED BY <1>21, <3>2, <5>1, <5>2
      <4> QED BY <4>1, <4>2
    <3> QED BY <3>1, <3>2
  <2>4. Apart(front, mid) /\ Apart(tail, mid) /\ Apart(front, tail)
    BY <1>5, <1>7, <1>9 DEF Apart
  <2>5. Apart(block', back') /\ Apart(block', given') /\ Apart(back', given')
    <3>1. Apart(tail, NoBlock) /\ Apart(NoBlock, mid)
      BY NoBlockIs DEF Apart
    <3> QED BY <1>10, <2>4, <3>1
  <2>6. {block', back', given'} \subseteq {front, mid, tail, NoBlock}
    BY <1>10
  <2> QED BY <2>1, <2>2, <2>3, <2>5, <2>6 DEF AllApart
<1>23. AllCovered'
  <2> SUFFICES ASSUME NEW cell \in {c \in Node : Covers(NewHole, c)}
               PROVE  \/ \E n \in Holes' : Covers(HoleInfo(n)', cell)
                      \/ \E a \in live' : Covers(a, cell)
                      \/ \E b \in {block', back', given'} : Covers(b, cell)
    BY DEF AllCovered
  <2>1. cell \in Nat
    BY Constants DEF Node
  <2>2. CASE Covers(HoleInfo(h), cell)
    <3>1. h <= cell /\ cell < al + len + rest
      BY <1>7, <2>2 DEF Covers, HoleInfo
    <3>2. Covers(front, cell) \/ Covers(mid, cell) \/ Covers(tail, cell)
      BY <1>5, <1>9, <2>1, <3>1 DEF Covers
    <3>3. ~Covers(front, cell) \/ front.size # 0
      BY <1>5, <1>9, <2>1 DEF Covers
    <3> QED BY <1>10, <3>2, <3>3
  <2>3. ASSUME NEW n \in Holes, n # h, Covers(HoleInfo(n), cell)
        PROVE  \E m \in Holes' : Covers(HoleInfo(m)', cell)
    BY <1>12, <1>13, <2>3
  <2>4. CASE \E a \in live : Covers(a, cell)
    BY <1>6, <2>4
  <2>5. ~Covers(block, cell) /\ ~Covers(back, cell) /\ ~Covers(given, cell)
    BY <1>2, <1>3, <2>1, Numbers, NoBlockIs DEF Covers
  <2> QED BY <1>2, <2>2, <2>3, <2>4, <2>5 DEF AllCovered
<1>24. Counted'
  <2>1. given' # NoBlock
    BY <1>7, <1>8, <1>9, <1>10, NoBlockIs
  <2> QED BY <1>1, <1>2, <1>6, <2>1 DEF Counted, GivingBack
<1> QED BY <1>12, <1>15, <1>16, <1>17, <1>18, <1>19, <1>20, <1>22, <1>23, <1>24 DEF Inv

-----------------------------------------------------------------------------
(***************************************************************************)
(* The beginning and the end of a call.                                    *)
(***************************************************************************)

\* Another allocation adds its size to the number of bytes in allocations.
LEMMA CellsAdd ==
    ASSUME NEW S, \A b \in S : b.addr \in Nat /\ b.size \in Nat, NEW a,
           a.addr \in Nat, a.size \in Nat, a.addr + a.size <= Top, \A b \in S : Apart(a, b)
    PROVE  /\ Cardinality(Cells(S)) \in Nat
           /\ Cardinality(Cells(S \cup {a})) = Cardinality(Cells(S)) + a.size
<1> DEFINE own == a.addr .. (a.addr + a.size - 1)
<1>1. Top \in Nat /\ IsFiniteSet(Node)
  <2>1. Top \in Nat
    BY Constants
  <2> QED BY <2>1, FS_Interval DEF Node
<1>2. IsFiniteSet(Cells(S)) /\ Cardinality(Cells(S)) \in Nat
  <2>1. Cells(S) \subseteq Node
    BY DEF Cells
  <2>2. IsFiniteSet(Cells(S))
    BY <1>1, <2>1, FS_Subset
  <2> QED BY <2>2, FS_CardinalityType
<1>3. IsFiniteSet(own) /\ Cardinality(own) = a.size
  <2>1. a.addr \in Int /\ a.addr + a.size - 1 \in Int
    OBVIOUS
  <2>2. /\ IsFiniteSet(own)
        /\ Cardinality(own) = IF a.addr > a.addr + a.size - 1 THEN 0
                              ELSE (a.addr + a.size - 1) - a.addr + 1
    BY <2>1, FS_Interval
  <2> QED BY <2>2
<1>4. Cells(S \cup {a}) = Cells(S) \cup own
  <2>1. ASSUME NEW cell \in own PROVE cell \in Node /\ Covers(a, cell)
    BY <1>1 DEF Node, Covers
  <2>2. ASSUME NEW cell \in Node, Covers(a, cell) PROVE cell \in own
    BY <1>1, <2>2 DEF Node, Covers
  <2> HIDE DEF own
  <2> QED BY <2>1, <2>2 DEF Cells
<1>5. Cells(S) \cap own = {}
  <2> SUFFICES ASSUME NEW cell \in Cells(S), cell \in own PROVE FALSE
    OBVIOUS
  <2>1. PICK b \in S : Covers(b, cell)
    BY DEF Cells
  <2>2. cell \in Nat /\ a.addr <= cell /\ cell < a.addr + a.size
    BY <1>1 DEF Cells, Node
  <2> QED BY <2>1, <2>2 DEF Apart, Covers
<1> HIDE DEF own
<1>6. Cardinality(Cells(S) \cup own)
        = Cardinality(Cells(S)) + Cardinality(own) - Cardinality(Cells(S) \cap own)
  BY <1>2, <1>3, FS_Union
<1>7. Cardinality(Cells(S) \cap own) = 0
  BY <1>5, FS_EmptySet
<1>8. Cardinality(Cells(S) \cup own) = Cardinality(Cells(S)) + a.size
  BY <1>2, <1>3, <1>6, <1>7
<1> QED BY <1>2, <1>4, <1>8

\* Allocations that lie in the memory have no more bytes than the memory.
LEMMA CellsFit ==
    ASSUME NEW S, \A b \in S : b.addr \in Nat /\ b.size \in Nat \ {0} /\ Placed(b)
    PROVE  Cardinality(Cells(S)) \in 0 .. Length
<1>1. Bottom \in Nat /\ Length \in Nat /\ Top = Bottom + Length
  BY Constants
<1>2. /\ IsFiniteSet(Bottom .. (Top - 1))
      /\ Cardinality(Bottom .. (Top - 1)) = Length
  BY <1>1, FS_Interval
<1>3. Cells(S) \subseteq Bottom .. (Top - 1)
  <2> SUFFICES ASSUME NEW cell \in Cells(S) PROVE cell \in Bottom .. (Top - 1)
    OBVIOUS
  <2>1. PICK b \in S : Covers(b, cell)
    BY DEF Cells
  <2>2. Bottom <= b.addr /\ b.addr + b.size <= Top
    BY PlacedIs
  <2>3. cell \in Nat
    BY Constants DEF Cells, Node
  <2> QED BY <1>1, <2>1, <2>2, <2>3 DEF Covers
<1>4. IsFiniteSet(Cells(S)) /\ Cardinality(Cells(S)) <= Length
  BY <1>2, <1>3, FS_Subset
<1>5. Cardinality(Cells(S)) \in Nat
  BY <1>4, FS_CardinalityType
<1> QED BY <1>1, <1>4, <1>5

\* allocate_first_fit starts to search.
LEMMA AllocateKeepsInv ==
    ASSUME Inv, NEW l \in Layouts, Allocate(l)
    PROVE  Inv'
<1>1. /\ pc = "idle" /\ pc' = "search" /\ asked' = l /\ layout' = align_layout(l)
      /\ hole' = 0 /\ UNCHANGED list
      /\ used' = used /\ live' = live /\ misused' = misused /\ block' = block
      /\ back' = back /\ given' = given /\ size' = size /\ next' = next
  BY DEF Allocate, list
<1>2. TypeOK /\ HolesPlaced /\ LivePlaced /\ CallInv /\ MisuseInv /\ Counted
      /\ Freeable(block) /\ Freeable(back) /\ AllApart /\ AllCovered
  BY <1>1 DEF Inv, CallInv
<1>3. /\ Holes' = Holes /\ \A n \in Holes : HoleInfo(n)' = HoleInfo(n)
      /\ ListSorted' /\ HolesPlaced'
  BY <1>1, SameList
<1>4. TypeOK'
  <2>1. align_layout(l) \in [size : Nat, align : Nat \ {0}] /\ 0 \in Node
    BY AlignLayoutIs, Constants DEF Node
  <2> QED BY <1>1, <1>2, <2>1 DEF TypeOK
<1>5. LivePlaced' /\ MisuseInv' /\ Counted'
  BY <1>1, <1>2 DEF LivePlaced, MisuseInv, Counted, GivingBack, CallInv
<1>6. CallInv'
  <2>1. \A n \in Holes' : ~(n <= 0)
    BY <1>2, <1>3, HoleIs
  <2> QED BY <1>1, <1>2, <2>1 DEF CallInv
<1>7. AllApart' /\ AllCovered'
  BY <1>1, <1>2, <1>3 DEF AllApart, AllCovered
<1> QED BY <1>1, <1>2, <1>3, <1>4, <1>5, <1>6, <1>7 DEF Inv

\* A caller gives an allocation back.
LEMMA DeallocateKeepsInv ==
    ASSUME Inv, NEW a \in live, Deallocate(a)
    PROVE  Inv'
<1>1. /\ pc = "idle" /\ pc' = "free" /\ asked' = a.asked /\ layout' = align_layout(a.asked)
      /\ hole' = 0 /\ block' = [addr |-> a.addr, size |-> align_layout(a.asked).size]
      /\ UNCHANGED list /\ live' = live \ {a}
      /\ used' = used /\ misused' = misused
      /\ back' = back /\ given' = given /\ size' = size /\ next' = next
  BY DEF Deallocate, StartFree, list
<1>2. TypeOK /\ HolesPlaced /\ LivePlaced /\ CallInv /\ MisuseInv /\ Counted /\ ~misused
      /\ Freeable(back) /\ AllApart /\ AllCovered
      /\ block.size = 0 /\ back.size = 0 /\ given = NoBlock
  BY <1>1 DEF Inv, CallInv
<1>3. /\ Holes' = Holes /\ \A n \in Holes : HoleInfo(n)' = HoleInfo(n)
      /\ ListSorted' /\ HolesPlaced'
  BY <1>1, SameList
<1>4. /\ a.addr \in Nat /\ a.size \in Nat \ {0} /\ a.size >= MinSize /\ a.asked \in Layouts
      /\ a.size = align_layout(a.asked).size /\ Placed(a)
  <2>1. a.addr \in Nat /\ a.size \in Nat /\ a.asked \in Layouts
    BY <1>2, Numbers
  <2>2. a.size = align_layout(a.asked).size /\ Placed(a)
    BY <1>2 DEF LivePlaced
  <2> QED BY <2>1, <2>2, AlignLayoutIs, Constants
<1>5. block'.addr = a.addr /\ block'.size = a.size /\ layout'.size = a.size
  BY <1>1, <1>4
<1>6. TypeOK'
  <2>1. align_layout(a.asked) \in [size : Nat, align : Nat \ {0}] /\ 0 \in Node
    BY <1>4, AlignLayoutIs, Constants DEF Node
  <2>2. block' \in [addr : Node, size : Nat]
    <3>1. a.addr \in Node
      BY <1>2 DEF TypeOK
    <3> QED BY <1>1, <1>4, <3>1
  <2> QED BY <1>1, <1>2, <1>4, <2>1, <2>2 DEF TypeOK
<1>7. LivePlaced' /\ MisuseInv'
  BY <1>1, <1>2 DEF LivePlaced, MisuseInv
<1>8. CallInv'
  <2>1. End' <= block'.addr
    BY <1>1, <1>3, <1>4, <1>5 DEF End, HolesPlaced
  <2> QED BY <1>1, <1>2, <1>4, <1>5, <2>1 DEF CallInv
<1>9. Freeable(block') /\ Freeable(back')
  BY <1>1, <1>2, <1>4, <1>5 DEF Freeable, Placed
<1>10. AllApart'
  <2>1. \A b, c \in live' : b # c => Apart(b, c)
    BY <1>1, <1>2 DEF AllApart
  <2>2. \A b \in live', n \in Holes' : Apart(b, HoleInfo(n)')
    BY <1>1, <1>2, <1>3 DEF AllApart
  <2>3. (\A n \in Holes' : Apart(block', HoleInfo(n)')) /\ \A b \in live' : Apart(block', b)
    <3>1. (\A n \in Holes : Apart(a, HoleInfo(n))) /\ \A b \in live \ {a} : Apart(a, b)
      BY <1>2 DEF AllApart
    <3> QED BY <1>1, <1>3, <1>5, <3>1 DEF Apart
  <2>4. back'.size = 0 /\ given'.size = 0
    BY <1>1, <1>2, NoBlockIs
  <2>5. \A c : Apart(back', c) /\ Apart(given', c) /\ Apart(c, back') /\ Apart(c, given')
    BY <2>4 DEF Apart
  <2> QED BY <2>1, <2>2, <2>3, <2>5 DEF AllApart
<1>11. AllCovered'
  <2> SUFFICES ASSUME NEW cell \in {c \in Node : Covers(NewHole, c)}
               PROVE  \/ \E n \in Holes' : Covers(HoleInfo(n)', cell)
                      \/ \E b \in live' : Covers(b, cell)
                      \/ \E b \in {block', back', given'} : Covers(b, cell)
    BY DEF AllCovered
  <2>1. cell \in Nat
    BY Constants DEF Node
  <2>2. CASE \E n \in Holes : Covers(HoleInfo(n), cell)
    BY <1>3, <2>2
  <2>3. CASE Covers(a, cell)
    BY <1>5, <2>3 DEF Covers
  <2>4. CASE \E b \in live \ {a} : Covers(b, cell)
    BY <1>1, <2>4
  <2>5. ~Covers(block, cell) /\ ~Covers(back, cell) /\ ~Covers(given, cell)
    BY <1>2, <2>1, Numbers, NoBlockIs DEF Covers
  <2> QED BY <1>2, <2>2, <2>3, <2>4, <2>5 DEF AllCovered
<1>12. Counted'
  <2>1. live = live' \cup {a}
    BY <1>1
  <2>2. /\ \A b \in live' : b.addr \in Nat /\ b.size \in Nat
        /\ \A b \in live' : Apart(a, b)
    BY <1>1, <1>2, Numbers DEF AllApart
  <2>3. a.addr + a.size <= Top
    BY <1>4, PlacedIs
  <2>4. Cardinality(Cells(live)) = Cardinality(Cells(live')) + a.size
    BY <1>4, <2>1, <2>2, <2>3, CellsAdd
  <2>5. used = Cardinality(Cells(live))
    <3>1. Cardinality(Cells(live)) \in Nat
      BY <1>4, <2>1, <2>2, <2>3, <2>4, CellsAdd
    <3> QED BY <1>1, <1>2, <3>1 DEF Counted, GivingBack
  <2>6. GivingBack'
    BY <1>1, <1>2 DEF GivingBack
  <2>7. Cells(live)' = Cells(live')
    BY DEF Cells
  <2> QED BY <1>1, <1>5, <2>4, <2>5, <2>6, <2>7 DEF Counted
<1> QED BY <1>3, <1>6, <1>7, <1>8, <1>9, <1>10, <1>11, <1>12 DEF Inv

\* A caller gives back what is free.
LEMMA DeallocateAgainKeepsInv ==
    ASSUME Inv, NEW addr \in Node, NEW l \in Layouts, DeallocateAgain(addr, l)
    PROVE  Inv'
<1>1. /\ pc = "idle" /\ pc' = "free" /\ asked' = l /\ layout' = align_layout(l)
      /\ hole' = 0 /\ block' = [addr |-> addr, size |-> align_layout(l).size]
      /\ UNCHANGED list /\ live' = live
      /\ used' = used /\ misused' = TRUE
      /\ back' = back /\ given' = given /\ size' = size /\ next' = next
      /\ \E n \in Holes : n <= addr /\ addr + align_layout(l).size <= n + size[n]
  BY DEF DeallocateAgain, StartFree, list
<1>2. TypeOK /\ HolesPlaced /\ LivePlaced /\ CallInv /\ Counted
      /\ back.size = 0 /\ given = NoBlock
  BY <1>1 DEF Inv, CallInv
<1>3. Holes' = Holes /\ ListSorted' /\ HolesPlaced'
  BY <1>1, SameList
<1>4. /\ align_layout(l) \in [size : Nat, align : Nat \ {0}] /\ 0 \in Node
      /\ align_layout(l).size \in Nat /\ align_layout(l).size >= MinSize
  BY AlignLayoutIs, Constants DEF Node
<1>5. block'.addr = addr /\ block'.size = align_layout(l).size
      /\ block' \in [addr : Node, size : Nat]
  BY <1>1, <1>4
<1>6. TypeOK'
  BY <1>1, <1>2, <1>4, <1>5 DEF TypeOK
<1>7. LivePlaced' /\ Counted'
  BY <1>1, <1>2 DEF LivePlaced, Counted, GivingBack
<1>8. CallInv'
  BY <1>1, <1>2, <1>4, <1>5 DEF CallInv
<1>9. MisuseInv'
  <2>1. PICK n \in Holes : n <= addr /\ addr + align_layout(l).size <= n + size[n]
    BY <1>1
  <2>2. n \in Nat
    BY <1>2, HoleIs
  <2>3. hole' <= n /\ n <= block'.addr /\ BlockEnd' <= n + size'[n]
    BY <1>1, <1>5, <2>1, <2>2 DEF BlockEnd
  <2> QED BY <1>1, <1>2, <1>3, <2>3 DEF MisuseInv
<1> QED BY <1>1, <1>3, <1>6, <1>7, <1>8, <1>9 DEF Inv

\* The end of a call: what was given back is subtracted, what was found is handed out.
LEMMA ReturnKeepsInv ==
    ASSUME Inv, Return
    PROVE  Inv'
<1>1. /\ pc = "return" /\ pc' = "idle" /\ given' = NoBlock
      /\ UNCHANGED list /\ layout' = layout /\ asked' = asked /\ misused' = misused
      /\ hole' = hole /\ block' = block /\ back' = back /\ size' = size /\ next' = next
  BY DEF Return, list, call
<1>2. TypeOK /\ HolesPlaced /\ LivePlaced /\ CallInv /\ Counted /\ ~misused
      /\ Freeable(block) /\ Freeable(back) /\ AllApart /\ AllCovered
      /\ block.size = 0 /\ back.size = 0
  BY <1>1 DEF Inv, CallInv
<1>3. /\ Holes' = Holes /\ \A n \in Holes : HoleInfo(n)' = HoleInfo(n)
      /\ ListSorted' /\ HolesPlaced'
  BY <1>1, SameList
<1>4. CallInv' /\ MisuseInv'
  BY <1>1, <1>2 DEF CallInv, MisuseInv
<1>5. ~GivingBack'
  BY <1>1 DEF GivingBack
<1>6. Cells(live)' = Cells(live')
  BY DEF Cells
<1>7. \A b \in {block', back', given'} : b.size = 0
  BY <1>1, <1>2, NoBlockIs
<1>8. \A a \in live : /\ a.addr \in Nat /\ a.size \in Nat \ {0} /\ a.asked \in Layouts
                      /\ Placed(a)
  <2> SUFFICES ASSUME NEW a \in live
               PROVE  /\ a.addr \in Nat /\ a.size \in Nat \ {0} /\ a.asked \in Layouts
                      /\ Placed(a)
    OBVIOUS
  <2>1. a.addr \in Nat /\ a.size \in Nat /\ a.asked \in Layouts
    BY <1>2, Numbers
  <2>2. a.size = align_layout(a.asked).size /\ Placed(a)
    BY <1>2 DEF LivePlaced
  <2> QED BY <2>1, <2>2, AlignLayoutIs, Constants
<1>9. CASE given = NoBlock
  <2>1. used' = used - layout.size /\ live' = live
    BY <1>9 DEF Return
  <2>2. Cardinality(Cells(live)) \in 0 .. Length
    BY <1>8, CellsFit
  <2>3. used = Cardinality(Cells(live)) + layout.size /\ layout.size \in Nat
    BY <1>1, <1>2, <1>9, Numbers DEF Counted, GivingBack
  <2>4. used' = Cardinality(Cells(live)) /\ used' \in 0 .. Length
    BY <2>1, <2>2, <2>3, Constants
  <2>5. Counted'
    <3>1. used' = Cardinality(Cells(live')) /\ used' = used' + 0
      BY <2>1, <2>2, <2>4, Constants
    <3> QED BY <1>5, <1>6, <3>1 DEF Counted
  <2>6. TypeOK'
    BY <1>1, <1>2, <2>1, <2>4, NoBlockIs DEF TypeOK
  <2>7. LivePlaced'
    BY <1>2, <2>1 DEF LivePlaced
  <2>8. AllApart' /\ AllCovered'
    BY <1>1, <1>2, <1>3, <1>9, <2>1 DEF AllApart, AllCovered
  <2> QED BY <1>1, <1>2, <1>3, <1>4, <2>5, <2>6, <2>7, <2>8 DEF Inv
<1>10. CASE given # NoBlock
  <2> DEFINE r == [addr |-> given.addr, size |-> given.size, asked |-> asked]
  <2>1. used' = used + layout.size /\ live' = live \cup {r}
    BY <1>10 DEF Return
  <2>2. /\ asked \in Layouts /\ layout = align_layout(asked) /\ given.size = layout.size
        /\ given.addr % asked.align = 0 /\ Placed(given)
    BY <1>2, <1>10 DEF CallInv
  <2>3. /\ r.addr = given.addr /\ r.size = given.size /\ r.asked = asked
        /\ r \in [addr : Node, size : 0 .. Length, asked : Layouts]
    BY <1>2, <2>2 DEF TypeOK, Blocks
  <2> HIDE DEF r
  <2>4. /\ r.addr \in Nat /\ r.size \in Nat \ {0} /\ Placed(r)
        /\ r.size = layout.size /\ r.addr + r.size <= Top
    <3>1. given.addr \in Nat /\ given.size \in Nat \ {0}
      BY <1>2, <2>2, Numbers, AlignLayoutIs, Constants
    <3>2. Placed(r)
      BY <2>2, <2>3 DEF Placed
    <3> QED BY <2>2, <2>3, <3>1, <3>2, PlacedIs
  <2>5. (\A a \in live : Apart(r, a)) /\ \A n \in Holes : Apart(r, HoleInfo(n))
    BY <1>2, <2>3 DEF AllApart, Apart
  <2>6. Cardinality(Cells(live)) \in Nat
        /\ Cardinality(Cells(live')) = Cardinality(Cells(live)) + layout.size
    BY <1>8, <2>1, <2>4, <2>5, CellsAdd
  <2>7. used' = Cardinality(Cells(live'))
    <3>1. used = Cardinality(Cells(live))
      BY <1>2, <1>10, <2>6 DEF Counted, GivingBack
    <3> QED BY <2>1, <2>6, <3>1
  <2>8. used' \in 0 .. Length
    <3>1. \A b \in live' : b.addr \in Nat /\ b.size \in Nat \ {0} /\ Placed(b)
      BY <1>8, <2>1, <2>4
    <3>2. Cardinality(Cells(live')) \in 0 .. Length
      BY <3>1, CellsFit
    <3> QED BY <2>7, <3>2
  <2>9. Counted'
    <3>1. used' \in Nat
      BY <2>8, Constants
    <3> QED BY <1>5, <1>6, <2>7, <3>1 DEF Counted
  <2>10. TypeOK'
    BY <1>1, <1>2, <2>1, <2>3, <2>8, NoBlockIs DEF TypeOK
  <2>11. LivePlaced'
    BY <1>2, <2>1, <2>2, <2>3, <2>4 DEF LivePlaced
  <2>12. AllApart'
    <3>1. ASSUME NEW a \in live', NEW b \in live', a # b PROVE Apart(a, b)
      <4>1. CASE a \in live /\ b \in live
        BY <1>2, <3>1, <4>1 DEF AllApart
      <4>2. CASE a = r /\ b \in live
        BY <2>5, <4>2
      <4>3. CASE a \in live /\ b = r
        <5>1. Apart(r, a)
          BY <2>5, <4>3
        <5> QED BY <4>3, <5>1, ApartSym
      <4> QED BY <2>1, <3>1, <4>1, <4>2, <4>3
    <3>2. \A a \in live', n \in Holes' : Apart(a, HoleInfo(n)')
      BY <1>2, <1>3, <2>1, <2>5 DEF AllApart
    <3>3. \A b \in {block', back', given'} : \A c : Apart(b, c)
      BY <1>7 DEF Apart
    <3> QED BY <3>1, <3>2, <3>3 DEF AllApart
  <2>13. AllCovered'
    <3> SUFFICES ASSUME NEW cell \in {c \in Node : Covers(NewHole, c)}
                 PROVE  \/ \E n \in Holes' : Covers(HoleInfo(n)', cell)
                        \/ \E a \in live' : Covers(a, cell)
      BY DEF AllCovered
    <3>1. cell \in Nat
      BY Constants DEF Node
    <3>2. CASE \E n \in Holes : Covers(HoleInfo(n), cell)
      BY <1>3, <3>2
    <3>3. CASE \E a \in live : Covers(a, cell)
      BY <2>1, <3>3
    <3>4. CASE Covers(given, cell)
      <4>1. Covers(r, cell)
        BY <2>3, <3>4 DEF Covers
      <4> QED BY <2>1, <4>1
    <3>5. ~Covers(block, cell) /\ ~Covers(back, cell)
      BY <1>2, <3>1, Numbers DEF Covers
    <3> QED BY <1>2, <3>2, <3>3, <3>4, <3>5 DEF AllCovered
  <2> QED BY <1>1, <1>2, <1>3, <1>4, <2>9, <2>10, <2>11, <2>12, <2>13 DEF Inv
<1> QED BY <1>9, <1>10

-----------------------------------------------------------------------------
(***************************************************************************)
(* All steps.                                                              *)
(***************************************************************************)

\* The heap starts with its first hole, if it is long enough for one.
LEMMA InitInv == Init => Inv
<1> SUFFICES ASSUME Init PROVE Inv
  OBVIOUS
<1>1. PICK lo \in Nat, hi \in Nat :
        /\ NewHole = [addr |-> lo, size |-> hi - lo]
        /\ lo <= hi /\ hi <= Top /\ hi - lo <= Length /\ lo % Word = 0
        /\ (lo = 0 /\ hi = 0) \/ (Bottom <= lo /\ lo < hi /\ hi = Top)
  BY NewHoleIs
<1>2. NewHole.addr = lo /\ NewHole.size = hi - lo /\ hi - lo \in 0 .. Length
      /\ lo \in Node /\ 0 \in Node /\ 0 \in 0 .. Length
  BY <1>1, Constants DEF Node
<1>3. /\ used = 0 /\ live = {} /\ pc = "idle" /\ layout = NoLayout /\ asked = NoLayout
      /\ hole = 0 /\ block = NoBlock /\ back = NoBlock /\ given = NoBlock /\ misused = FALSE
      /\ size = [n \in Node |-> IF n = lo THEN hi - lo ELSE 0]
      /\ next = [n \in Node |-> IF n = 0 THEN lo ELSE 0]
  BY <1>2 DEF Init
<1>4. NoLayout \in [size : Nat, align : Nat \ {0}]
      /\ NoBlock \in [addr : Node, size : Nat] /\ NoBlock \in Blocks /\ NoBlock.size = 0
  BY <1>2, NoBlockIs DEF NoLayout, NoBlock
<1>5. TypeOK
  <2>1. size \in [Node -> 0 .. Length] /\ next \in [Node -> Node]
    BY <1>2, <1>3
  <2> QED BY <1>2, <1>3, <1>4, <2>1 DEF TypeOK
<1>6. /\ \A n \in Holes : n = lo /\ size[n] = hi - lo /\ lo # 0
      /\ lo # 0 => lo \in Holes /\ size[lo] = hi - lo
      /\ size[0] = 0 /\ next[0] = lo /\ (lo # 0 => next[lo] = 0)
  BY <1>1, <1>2, <1>3, Constants DEF Holes
<1>7. ListSorted
  BY <1>1, <1>6 DEF ListSorted
<1>8. HolesPlaced
  <2>1. ASSUME NEW n \in Holes PROVE Placed(HoleInfo(n))
    BY <1>1, <1>2, <1>6 DEF Placed, HoleInfo
  <2> QED BY <1>6, <2>1 DEF HolesPlaced
<1>9. LivePlaced /\ CallInv /\ MisuseInv
  BY <1>3, <1>4 DEF LivePlaced, CallInv, MisuseInv
<1>10. Freeable(block) /\ Freeable(back)
  BY <1>3, NoBlockIs
<1>11. AllApart
  BY <1>3, <1>4 DEF AllApart, Apart
<1>12. AllCovered
  <2> SUFFICES ASSUME NEW cell \in {c \in Node : Covers(NewHole, c)}
               PROVE  \E n \in Holes : Covers(HoleInfo(n), cell)
    BY DEF AllCovered
  <2>1. lo <= cell /\ cell < lo + (hi - lo) /\ cell \in Nat
    BY <1>2, Constants DEF Covers, Node
  <2>2. lo \in Holes /\ size[lo] = hi - lo
    BY <1>1, <1>6, <2>1, Constants
  <2>3. Covers(HoleInfo(lo), cell)
    BY <2>1, <2>2 DEF Covers, HoleInfo
  <2> QED BY <2>2, <2>3
<1>13. Counted
  <2>1. Cells(live) = {}
    BY <1>3 DEF Cells
  <2>2. Cardinality(Cells(live)) = 0
    BY <2>1, FS_EmptySet
  <2> QED BY <1>3, <2>2 DEF Counted, GivingBack
<1> QED BY <1>5, <1>7, <1>8, <1>9, <1>10, <1>11, <1>12, <1>13 DEF Inv

\* Nothing changes.
LEMMA StutterKeepsInv == ASSUME Inv, UNCHANGED vars PROVE Inv'
<1>1. /\ UNCHANGED <<list, used, live, call, block, back, given>>
      /\ used' = used /\ live' = live /\ layout' = layout /\ asked' = asked
      /\ misused' = misused /\ block' = block /\ back' = back /\ given' = given
      /\ size' = size /\ next' = next /\ hole' = hole /\ pc' = pc
  BY DEF vars, call, list
<1>2. TypeOK /\ CallInv /\ MisuseInv /\ Counted
  BY DEF Inv
<1>3. /\ Holes' = Holes /\ ListSorted' /\ HolesPlaced' /\ LivePlaced'
      /\ ~misused' => Freeable(block') /\ Freeable(back') /\ AllApart' /\ AllCovered'
  BY <1>1, SamePlaces
<1>4. TypeOK' /\ Counted' /\ MisuseInv'
  BY <1>1, <1>2, <1>3 DEF TypeOK, Counted, GivingBack, MisuseInv, BlockEnd, Cells, Covers
<1>5. CallInv'
  <2>1. \A n : split_hole(HoleInfo(n))' = split_hole(HoleInfo(n))
    BY <1>1, SameSplit
  <2>2. pc' = "search" => \A n \in Holes' : n <= hole' => ~split_hole(HoleInfo(n))'
    BY <1>1, <1>2, <1>3, <2>1 DEF CallInv
  <2> QED BY <1>1, <1>2, <1>3, <2>2 DEF CallInv, End
<1> QED BY <1>3, <1>4, <1>5 DEF Inv

\* Every step keeps the invariant.
LEMMA NextKeepsInv == Inv /\ [Next]_vars => Inv'
<1> SUFFICES ASSUME Inv, [Next]_vars PROVE Inv'
  OBVIOUS
<1>1. CASE UNCHANGED vars
  BY <1>1, StutterKeepsInv
<1>2. ASSUME NEW l \in Layouts, Allocate(l) PROVE Inv'
  BY <1>2, AllocateKeepsInv
<1>3. ASSUME NEW a \in live, Deallocate(a) PROVE Inv'
  BY <1>3, DeallocateKeepsInv
<1>4. ASSUME NEW addr \in Node, NEW l \in Layouts, DeallocateAgain(addr, l) PROVE Inv'
  BY <1>4, DeallocateAgainKeepsInv
<1>5. CASE TryNext
  BY <1>5, TryNextKeepsInv
<1>6. CASE Refuse
  BY <1>6, RefuseKeepsInv
<1>7. CASE TakeHole
  BY <1>7, TakeHoleKeepsInv
<1>8. CASE FailAssert
  BY <1>8, FailAssertKeepsInv
<1>9. CASE FillGap
  BY <1>9, FillGapKeepsInv
<1>10. CASE GrowHole
  BY <1>10, GrowHoleKeepsInv
<1>11. CASE MergeNext
  BY <1>11, MergeNextKeepsInv
<1>12. CASE GoOn
  BY <1>12, GoOnKeepsInv
<1>13. CASE InsertHole
  BY <1>13, InsertHoleKeepsInv
<1>14. CASE Return
  BY <1>14, ReturnKeepsInv
<1> QED BY <1>1, <1>2, <1>3, <1>4, <1>5, <1>6, <1>7, <1>8, <1>9, <1>10, <1>11, <1>12,
           <1>13, <1>14 DEF Next, Step

-----------------------------------------------------------------------------
(***************************************************************************)
(* Theorems.                                                               *)
(***************************************************************************)

\* The inductive invariant holds in every state.
THEOREM InvariantHolds == Spec => []Inv
<1>1. Init => Inv
  BY InitInv
<1>2. Inv /\ [Next]_vars => Inv'
  BY NextKeepsInv
<1> QED BY <1>1, <1>2, PTL DEF Spec

\* No hole, padding or allocation reaches beyond the memory, and Heap.used neither
\* wraps below zero nor exceeds the length of the heap.
THEOREM TypeCorrect == Spec => []TypeOK
<1>1. Inv => TypeOK
  BY DEF Inv
<1> QED BY <1>1, InvariantHolds, PTL

\* At every turn of both loops the list is sorted, complete and without two holes that
\* touch, a double free in progress included.
THEOREM ListStaysSorted == Spec => []ListSorted
<1>1. Inv => ListSorted
  BY DEF Inv
<1> QED BY <1>1, InvariantHolds, PTL

\* The assertions of deallocate hold for whatever callers hold and for every padding.
THEOREM AssertionsHold == Spec => []NoAssertFails
<1>1. Inv => NoAssertFails
  BY DEF Inv, CallInv, NoAssertFails
<1> QED BY <1>1, InvariantHolds, PTL

\* Freeing what lies inside a hole never returns, and until the assertion ends it no step
\* of it changes the list, the byte count or the allocations: the walk towards that hole
\* can neither merge with a hole on its way nor insert before it.
THEOREM DoubleFreeEndsInAssertion == Spec => DoubleFreeCaught
<1>1. Inv /\ [Next]_vars =>
        [misused' => pc' \in {"free", "panic"} /\ UNCHANGED <<list, used, live>>]_vars
  <2> SUFFICES ASSUME Inv, Next, misused'
               PROVE  pc' \in {"free", "panic"} /\ UNCHANGED <<list, used, live>>
    OBVIOUS
  <2>1. Inv'
    BY NextKeepsInv
  <2>2. pc' \in {"free", "panic"}
    BY <2>1 DEF Inv, MisuseInv
  <2>3. ASSUME NEW addr \in Node, NEW l \in Layouts, DeallocateAgain(addr, l)
        PROVE  UNCHANGED <<list, used, live>>
    BY <2>3 DEF DeallocateAgain, StartFree
  <2>4. CASE TryNext \/ FailAssert \/ GoOn
    BY <2>2, <2>4 DEF TryNext, FailAssert, GoOn
  <2>5. ASSUME FillGap \/ GrowHole \/ MergeNext \/ InsertHole PROVE FALSE
    <3>1. pc = "free" /\ Asserted /\ misused
      BY <2>5 DEF FillGap, GrowHole, MergeNext, InsertHole, Inserted, call
    <3>2. /\ next[hole] # 0 /\ End # block.addr /\ BlockEnd # next[hole]
          /\ next[hole] <= block.addr
      BY <3>1, DoubleFree
    <3>3. ~Between
      <4>1. next[hole] \in Nat /\ block.addr \in Nat
        BY <3>1, Numbers, NodeIs DEF Inv, CallInv
      <4> QED BY <3>2, <4>1 DEF Between
    <3> QED BY <2>5, <3>2, <3>3 DEF FillGap, GrowHole, MergeNext, InsertHole
  <2>6. ASSUME Refuse \/ TakeHole \/ Return PROVE FALSE
    <3>1. misused /\ pc \in {"search", "return"}
      BY <2>6 DEF Refuse, TakeHole, Return, call
    <3> QED BY <3>1 DEF Inv, MisuseInv
  <2>7. ASSUME NEW l \in Layouts, Allocate(l) PROVE FALSE
    BY <2>2, <2>7 DEF Allocate
  <2>8. ASSUME NEW a \in live, Deallocate(a) PROVE FALSE
    <3>1. misused /\ pc = "idle"
      BY <2>8 DEF Deallocate, StartFree
    <3> QED BY <3>1 DEF Inv, MisuseInv
  <2> QED BY <2>2, <2>3, <2>4, <2>5, <2>6, <2>7, <2>8 DEF Next, Step
<1> QED BY <1>1, InvariantHolds, PTL DEF Spec, DoubleFreeCaught

\* Two blocks that share no byte do not cover the same one.
LEMMA ApartCovers ==
    ASSUME NEW b, NEW c, b.addr \in Nat, b.size \in Nat, c.addr \in Nat, c.size \in Nat,
           Apart(b, c), NEW cell \in Nat, Covers(b, cell), Covers(c, cell)
    PROVE  FALSE
BY DEF Apart, Covers

\* Every byte is in exactly one hole, allocation or padding: no split or merge loses one
\* or hands one out twice.
THEOREM BytesAreTiled == Spec => []Tiled
<1>1. Inv => Tiled
  <2> SUFFICES ASSUME Inv, ~misused, NEW cell \in {c \in Node : Covers(NewHole, c)}
               PROVE  \E b \in Occupants : /\ Covers(b, cell)
                                           /\ \A c \in Occupants : Covers(c, cell) => c = b
    BY DEF Tiled
  <2> DEFINE Of(a) == [addr |-> a.addr, size |-> a.size]
  <2>1. TypeOK /\ HolesPlaced /\ ListSorted /\ AllApart /\ AllCovered
    BY DEF Inv
  <2>2. cell \in Nat
    BY Constants DEF Node
  <2>3. \A n \in Holes : /\ HoleInfo(n).addr = n /\ HoleInfo(n).size = size[n]
                         /\ n \in Nat /\ size[n] \in Nat
    BY <2>1, HoleIs DEF HoleInfo
  <2>4. /\ \A a \in live : a.addr \in Nat /\ a.size \in Nat
        /\ \A b \in {block, back, given} : b.addr \in Nat /\ b.size \in Nat
    BY <2>1, Numbers
  <2>5. \A a \in live : Of(a).addr = a.addr /\ Of(a).size = a.size
                        /\ (Covers(Of(a), cell) <=> Covers(a, cell))
    BY DEF Covers
  <2>6. ASSUME NEW n \in Holes, NEW m \in Holes, Covers(HoleInfo(n), cell),
               Covers(HoleInfo(m), cell)
        PROVE  n = m
    <3>1. n < m => n + size[n] < m
      BY <2>1, Behind
    <3>2. m < n => m + size[m] < n
      BY <2>1, Behind
    <3> QED BY <2>2, <2>3, <2>6, <3>1, <3>2 DEF Covers
  <2>7. ASSUME NEW a \in live, NEW b \in live, Covers(a, cell), Covers(b, cell) PROVE a = b
    <3> SUFFICES ASSUME a # b PROVE FALSE
      OBVIOUS
    <3>1. Apart(a, b)
      BY <2>1 DEF AllApart
    <3> QED BY <2>2, <2>4, <2>7, <3>1, ApartCovers
  <2>8. ASSUME NEW a \in live, NEW n \in Holes, Covers(a, cell), Covers(HoleInfo(n), cell)
        PROVE  FALSE
    <3>1. Apart(a, HoleInfo(n))
      BY <2>1 DEF AllApart
    <3> QED BY <2>2, <2>3, <2>4, <2>8, <3>1, ApartCovers
  <2>9. ASSUME NEW b \in {block, back, given}, Covers(b, cell)
        PROVE  /\ \A n \in Holes : ~Covers(HoleInfo(n), cell)
               /\ \A a \in live : ~Covers(a, cell)
    <3>1. (\A n \in Holes : Apart(b, HoleInfo(n))) /\ \A a \in live : Apart(b, a)
      BY <2>1 DEF AllApart
    <3> QED BY <2>2, <2>3, <2>4, <2>9, <3>1, ApartCovers
  <2>10. ASSUME NEW b \in {block, back, given}, NEW c \in {block, back, given},
                Covers(b, cell), Covers(c, cell)
         PROVE  b = c
    <3> SUFFICES ASSUME b # c PROVE FALSE
      OBVIOUS
    <3>1. Apart(b, c)
      BY <2>1, ApartSym DEF AllApart
    <3> QED BY <2>2, <2>4, <2>10, <3>1, ApartCovers
  <2>11. ASSUME NEW b \in {block, back, given}, Covers(b, cell) PROVE b # NoBlock
    BY <2>2, <2>4, <2>11, NoBlockIs DEF Covers
  <2> HIDE DEF Of
  <2>12. Occupants = {HoleInfo(n) : n \in Holes} \cup {Of(a) : a \in live}
                        \cup ({block, back, given} \ {NoBlock})
    BY DEF Occupants, Of
  <2>13. CASE \E n \in Holes : Covers(HoleInfo(n), cell)
    <3>1. PICK n \in Holes : Covers(HoleInfo(n), cell)
      BY <2>13
    <3>2. ASSUME NEW c \in Occupants, Covers(c, cell) PROVE c = HoleInfo(n)
      BY <2>5, <2>6, <2>8, <2>9, <2>12, <3>1, <3>2
    <3> QED BY <2>12, <3>1, <3>2
  <2>14. CASE \E a \in live : Covers(a, cell)
    <3>1. PICK a \in live : Covers(a, cell)
      BY <2>14
    <3>2. ASSUME NEW c \in Occupants, Covers(c, cell) PROVE c = Of(a)
      BY <2>5, <2>7, <2>8, <2>9, <2>12, <3>1, <3>2
    <3>3. Of(a) \in Occupants /\ Covers(Of(a), cell)
      BY <2>5, <2>12, <3>1
    <3> QED BY <3>2, <3>3
  <2>15. CASE \E b \in {block, back, given} : Covers(b, cell)
    <3>1. PICK b \in {block, back, given} : Covers(b, cell)
      BY <2>15
    <3>2. ASSUME NEW c \in Occupants, Covers(c, cell) PROVE c = b
      BY <2>5, <2>9, <2>10, <2>12, <3>1, <3>2
    <3>3. b \in Occupants
      BY <2>11, <2>12, <3>1
    <3> QED BY <3>1, <3>2, <3>3
  <2> QED BY <2>1, <2>13, <2>14, <2>15 DEF AllCovered
<1> QED BY <1>1, InvariantHolds, PTL

\* Once all is given back, in whatever order, the heap is one hole and used is 0: the
\* bytes are all in holes, and no two holes touch.
THEOREM FreedHeapIsOneHole == Spec => []FreedHeapIsWhole
<1>1. Inv => FreedHeapIsWhole
  <2> SUFFICES ASSUME Inv, pc = "idle", live = {}
               PROVE  used = 0 /\ {HoleInfo(n) : n \in Holes} = {NewHole} \ {NoBlock}
    BY DEF FreedHeapIsWhole
  <2>1. TypeOK /\ HolesPlaced /\ ListSorted /\ AllCovered /\ Counted
        /\ block.size = 0 /\ back.size = 0 /\ given = NoBlock /\ ~misused
    BY DEF Inv, CallInv
  <2>2. used = 0
    <3>1. Cells(live) = {}
      BY DEF Cells
    <3>2. Cardinality(Cells(live)) = 0
      BY <3>1, FS_EmptySet
    <3> QED BY <2>1, <3>2 DEF Counted, GivingBack
  <2>3. PICK lo \in Nat, hi \in Nat :
          /\ NewHole = [addr |-> lo, size |-> hi - lo]
          /\ lo <= hi /\ hi <= Top /\ hi - lo <= Length /\ lo % Word = 0
          /\ (lo = 0 /\ hi = 0) \/ (Bottom <= lo /\ lo < hi /\ hi = Top)
    BY NewHoleIs
  <2>4. NewHole.addr = lo /\ NewHole.size = hi - lo /\ lo + (hi - lo) = hi
    BY <2>3
  <2>5. \A n \in Holes : /\ n \in Nat \ {0} /\ size[n] \in Nat \ {0}
                         /\ lo <= n /\ n + size[n] <= hi
    BY <2>1, <2>4, HoleIs
  <2>6. ASSUME NEW cell \in Nat, lo <= cell, cell < hi
        PROVE  \E n \in Holes : n <= cell /\ cell < n + size[n]
    <3>1. cell \in {c \in Node : Covers(NewHole, c)}
      BY <2>3, <2>4, <2>6, Constants DEF Covers, Node
    <3>2. ~Covers(block, cell) /\ ~Covers(back, cell) /\ ~Covers(given, cell)
      BY <2>1, <2>6, Numbers, NoBlockIs DEF Covers
    <3>3. \E n \in Holes : Covers(HoleInfo(n), cell)
      BY <2>1, <3>1, <3>2 DEF AllCovered
    <3> QED BY <3>3 DEF Covers, HoleInfo
  <2>7. CASE lo = 0 /\ hi = 0
    <3>1. Holes = {}
      BY <2>5, <2>7
    <3>2. NewHole = NoBlock
      BY <2>3, <2>7 DEF NoBlock
    <3> QED BY <2>2, <3>1, <3>2
  <2>8. CASE Bottom <= lo /\ lo < hi
    <3>1. lo # 0
      BY <2>3, <2>8, Constants
    <3>2. lo \in Holes
      <4>1. PICK n \in Holes : n <= lo /\ lo < n + size[n]
        BY <2>3, <2>6, <2>8
      <4>2. n = lo
        BY <2>5, <4>1
      <4> QED BY <4>2
    <3>3. lo + size[lo] = hi
      <4> SUFFICES ASSUME lo + size[lo] < hi PROVE FALSE
        BY <2>5, <3>2
      <4>1. lo + size[lo] \in Nat /\ lo <= lo + size[lo]
        BY <2>5, <3>2
      <4>2. PICK m \in Holes : m <= lo + size[lo] /\ lo + size[lo] < m + size[m]
        BY <2>6, <4>1
      <4>3. m # lo /\ lo < m
        BY <2>5, <3>2, <4>2
      <4>4. lo + size[lo] < m
        BY <2>1, <3>2, <4>3, Behind
      <4> QED BY <2>5, <3>2, <4>2, <4>4
    <3>4. ASSUME NEW m \in Holes PROVE m = lo
      <4> SUFFICES ASSUME lo < m PROVE FALSE
        BY <2>5
      <4>1. lo + size[lo] < m
        BY <2>1, <3>2, Behind
      <4> QED BY <2>5, <3>3, <4>1
    <3>5. HoleInfo(lo) = NewHole
      <4>1. size[lo] = hi - lo
        BY <2>5, <3>2, <3>3
      <4> QED BY <2>3, <4>1 DEF HoleInfo
    <3>6. {HoleInfo(n) : n \in Holes} = {NewHole}
      BY <3>2, <3>4, <3>5
    <3>7. NewHole # NoBlock
      BY <2>4, <3>1, NoBlockIs
    <3> QED BY <2>2, <3>6, <3>7
  <2> QED BY <2>3, <2>7, <2>8
<1> QED BY <1>1, InvariantHolds, PTL

\* allocate_first_fit refuses a request only when no hole of the list could take it.
THEOREM RefusalsAreJust == Spec => RefusedOnlyIfNoneFits
<1>1. Inv /\ [Next]_vars =>
        [pc = "search" /\ pc' = "idle" => \A n \in Holes : ~split_hole(HoleInfo(n))]_vars
  <2> SUFFICES ASSUME Inv, Next, pc = "search", pc' = "idle", NEW n \in Holes
               PROVE  ~split_hole(HoleInfo(n))
    OBVIOUS
  <2>1. Refuse
    BY DEF Next, Step, Allocate, Deallocate, DeallocateAgain, StartFree, TryNext, TakeHole,
           FailAssert, FillGap, GrowHole, MergeNext, GoOn, InsertHole, Return
  <2>2. CallInv /\ ListSorted
    BY DEF Inv
  <2>3. hole \in Holes \cup {0} /\ next[hole] = 0
    BY <2>1, <2>2 DEF CallInv, Refuse
  <2>4. n <= hole
    BY <2>2, <2>3 DEF ListSorted
  <2> QED BY <2>2, <2>4 DEF CallInv
<1> QED BY <1>1, InvariantHolds, PTL DEF Spec, RefusedOnlyIfNoneFits

-----------------------------------------------------------------------------
(***************************************************************************)
(* Room for the nodes.                                                     *)
(***************************************************************************)

\* Every hole has room for the node that is written into it.
NodesFit == \A n \in Holes : size[n] >= MinSize

\* The first hole does, unless the alignment of its start takes the room away.
FirstFits == Length < MinSize \/ FirstHole - Bottom + MinSize <= Length

\* A hole is made or grown by a block that deallocate has found big enough, and taken
\* or merged as a whole.
LEMMA NextKeepsNodesFit ==
    ASSUME TypeOK, NodesFit, [Next]_vars
    PROVE  NodesFit'
<1>1. /\ \A n \in Node : size[n] \in Nat
      /\ size \in [Node -> 0 .. Length] /\ next \in [Node -> Node] /\ hole \in Node
      /\ block.addr \in Node /\ block.size \in Nat /\ next[hole] \in Node
  BY Constants DEF TypeOK
<1>2. CASE UNCHANGED size
  BY <1>2 DEF NodesFit, Holes
<1>3. ASSUME NEW x \in Node, size' = [size EXCEPT ![x] = 0] PROVE NodesFit'
  BY <1>1, <1>3 DEF NodesFit, Holes
<1>4. ASSUME NEW x \in Node, NEW s \in Nat, s >= MinSize, size' = [size EXCEPT ![x] = s]
      PROVE  NodesFit'
  BY <1>1, <1>4 DEF NodesFit, Holes
<1>5. CASE FillGap
  <2>1. PICK s \in Nat : /\ s = size[hole] + block.size + size[next[hole]]
                         /\ s >= MinSize
    BY <1>1, <1>5, Constants DEF FillGap, Asserted
  <2>2. size' = [size EXCEPT ![hole] = s, ![next[hole]] = 0]
    BY <1>5, <2>1 DEF FillGap
  <2> QED BY <1>1, <2>1, <2>2 DEF NodesFit, Holes
<1>6. CASE GrowHole
  <2>1. size[hole] + block.size \in Nat /\ size[hole] + block.size >= MinSize
    BY <1>1, <1>6, Constants DEF GrowHole, Asserted
  <2>2. size' = [size EXCEPT ![hole] = size[hole] + block.size]
    BY <1>6 DEF GrowHole
  <2> QED BY <1>1, <1>4, <2>1, <2>2
<1>7. CASE InsertHole
  BY <1>1, <1>4, <1>7 DEF InsertHole, Asserted
<1>8. CASE TakeHole
  <2>1. size' = [size EXCEPT ![next[hole]] = 0]
    BY <1>8 DEF TakeHole, HoleInfo
  <2> QED BY <1>1, <1>3, <2>1
<1>9. CASE MergeNext
  <2>1. size' = [size EXCEPT ![next[hole]] = 0]
    BY <1>9 DEF MergeNext
  <2> QED BY <1>1, <1>3, <2>1
<1>10. \/ UNCHANGED size \/ FillGap \/ GrowHole \/ InsertHole \/ TakeHole \/ MergeNext
  BY DEF Next, Step, vars, list, Allocate, Deallocate, DeallocateAgain, StartFree, TryNext,
         Refuse, FailAssert, GoOn, Return
<1> QED BY <1>2, <1>5, <1>6, <1>7, <1>8, <1>9, <1>10

\* A node never reaches into the memory behind its hole, if that of the first hole does
\* not: no split or merge leaves a hole that is too small for its size and its next.
THEOREM NodesStayInHoles == ASSUME FirstFits PROVE Spec => []NodesFit
<1>1. Init => NodesFit
  <2> SUFFICES ASSUME Init, NEW n \in Holes PROVE size[n] >= MinSize
    BY DEF NodesFit
  <2>1. n \in Node \ {0} /\ size[n] # 0 /\ n = NewHole.addr /\ size[n] = NewHole.size
    BY DEF Init, Holes
  <2>2. ~(Length < MinSize)
    BY <2>1, NoBlockIs DEF NewHole
  <2>3. FirstHole \in Nat /\ Bottom <= FirstHole
    BY Constants, AlignUpIs DEF FirstHole
  <2>4. Length >= FirstHole - Bottom /\ Length - (FirstHole - Bottom) >= MinSize
    BY <2>2, <2>3, Constants DEF FirstFits
  <2>5. NewHole.size = Length - (FirstHole - Bottom)
    BY <2>2, <2>4 DEF NewHole, SaturatingSub
  <2> QED BY <2>1, <2>4, <2>5
<1>2. TypeOK /\ NodesFit /\ [Next]_vars => NodesFit'
  BY NextKeepsNodesFit
<1> QED BY <1>1, <1>2, TypeCorrect, PTL DEF Spec

-----------------------------------------------------------------------------
(***************************************************************************)
(* Heap implements HeapContract.                                           *)
(***************************************************************************)

\* What the holder of an allocation knows of it.
Ask(a) == [addr |-> a.addr, layout |-> a.asked]
Held == {Ask(b) : b \in live}

\* An allocation is at least as long as it was asked to be, and not empty.
LEMMA LiveIs ==
    ASSUME Inv, NEW a \in live
    PROVE  /\ a.addr \in Nat /\ a.size \in Nat \ {0} /\ a.asked \in Layouts
           /\ a.asked.size \in Nat /\ a.asked.size <= a.size
<1>1. a.addr \in Nat /\ a.size \in Nat /\ a.asked \in Layouts
  BY Numbers DEF Inv
<1>2. a.size = align_layout(a.asked).size
  BY DEF Inv, LivePlaced
<1> QED BY <1>1, <1>2, AlignLayoutIs, Constants

\* The end of a call of allocate_first_fit hands out memory that nobody holds, of the
\* size and the alignment that were asked for.
LEMMA ReturnIsAllocate ==
    ASSUME Inv, Return, given # NoBlock
    PROVE  \E addr \in Bottom .. Top, l \in Layouts :
               Contract!Allocate([addr |-> addr, layout |-> l])
<1>1. pc = "return" /\ ~misused /\ TypeOK /\ CallInv /\ AllApart
  BY DEF Return, Inv, CallInv
<1>2. /\ asked \in Layouts /\ given.size = align_layout(asked).size
      /\ given.addr % asked.align = 0 /\ Placed(given)
  BY <1>1 DEF CallInv
<1>3. given.addr \in Nat /\ given.size \in Nat \ {0}
      /\ asked.size \in Nat /\ asked.size <= given.size
  BY <1>1, <1>2, Numbers, AlignLayoutIs, Constants
<1>4. Bottom <= given.addr /\ given.addr + given.size <= Top
  BY <1>2, <1>3, PlacedIs
<1> DEFINE new == [addr |-> given.addr, layout |-> asked]
<1>5. new.addr = given.addr /\ new.layout = asked
  OBVIOUS
<1>6. given.addr \in Bottom .. Top /\ given.addr + asked.size <= Top
  BY <1>3, <1>4, Constants
<1>7. ASSUME NEW b \in live PROVE Contract!Disjoint(new, Ask(b))
  <2>1. Apart(given, b)
    BY <1>1 DEF AllApart
  <2>2. /\ b.addr \in Nat /\ b.size \in Nat \ {0}
        /\ b.asked.size \in Nat /\ b.asked.size <= b.size
    BY LiveIs
  <2>3. Ask(b).addr = b.addr /\ Ask(b).layout = b.asked
    BY DEF Ask
  <2> HIDE DEF new
  <2>4. given.addr + asked.size <= b.addr \/ b.addr + b.asked.size <= given.addr
    BY <1>3, <2>1, <2>2 DEF Apart
  <2> QED BY <1>5, <2>3, <2>4 DEF Contract!Disjoint
<1>8. Held' = Held \cup {new}
  <2>1. live' = live \cup {[addr |-> given.addr, size |-> given.size, asked |-> asked]}
    BY DEF Return
  <2>2. Ask([addr |-> given.addr, size |-> given.size, asked |-> asked]) = new
    BY DEF Ask
  <2> HIDE DEF new
  <2> QED BY <2>1, <2>2 DEF Held
<1> HIDE DEF new
<1>9. \A b \in Held : Contract!Disjoint(new, b)
  BY <1>7 DEF Held
<1>10. Contract!Allocate(new)
  BY <1>2, <1>4, <1>5, <1>6, <1>8, <1>9 DEF Contract!Allocate, Held, Ask
<1>11. Contract!Allocate([addr |-> given.addr, layout |-> asked])
  BY <1>10 DEF new
<1> QED BY <1>2, <1>6, <1>11, Zenon DEF Contract!Allocate

\* Giving an allocation back takes it, and no other, from what is held: no two
\* allocations begin at the same address.
LEMMA DeallocateIsFree ==
    ASSUME Inv, NEW a \in live, Deallocate(a)
    PROVE  \E b \in Held : Contract!Free(b)
<1>1. AllApart /\ live' = live \ {a}
  BY DEF Inv, CallInv, Deallocate, StartFree
<1>2. ASSUME NEW b \in live, b # a PROVE Ask(b) # Ask(a)
  <2>1. Apart(b, a)
    BY <1>1, <1>2 DEF AllApart
  <2>2. b.addr # a.addr
    BY <2>1, LiveIs DEF Apart
  <2> QED BY <2>2 DEF Ask
<1>3. Held' = Held \ {Ask(a)}
  BY <1>1, <1>2 DEF Held
<1>4. Contract!Free(Ask(a))
  BY <1>3 DEF Contract!Free, Held, Ask
<1> QED BY <1>4 DEF Held

\* Heap implements HeapContract: what it hands out has the wanted size and alignment, lies
\* in the heap and overlaps nothing that is held, and stays held until it is given back.
THEOREM HeapKeepsContract == Spec => ContractSpec
<1>1. Init => Contract!Init
  BY DEF Init, Contract!Init
<1>2. Inv /\ [Next]_vars => [Contract!Next]_Held
  <2> SUFFICES ASSUME Inv, [Next]_vars PROVE Contract!Next \/ Held' = Held
    OBVIOUS
  <2>1. CASE live' = live
    BY <2>1 DEF Held
  <2>2. CASE Return /\ given # NoBlock
    BY <2>2, ReturnIsAllocate DEF Contract!Next
  <2>3. CASE \E a \in live : Deallocate(a)
    <3>1. \E b \in Held : Contract!Free(b)
      BY <2>3, DeallocateIsFree
    <3> QED BY <3>1 DEF Contract!Next, Held, Ask
  <2>4. live' = live \/ (Return /\ given # NoBlock) \/ \E a \in live : Deallocate(a)
    BY DEF Next, Step, vars, Allocate, DeallocateAgain, StartFree, TryNext, Refuse, TakeHole,
           FailAssert, FillGap, GrowHole, MergeNext, GoOn, InsertHole, Inserted, Return
  <2> QED BY <2>1, <2>2, <2>3, <2>4
<1>3. Inv /\ [Next]_vars =>
        [Contract!Next]_{[addr |-> a.addr, layout |-> a.asked] : a \in live}
  BY <1>2 DEF Held, Ask
<1> QED BY <1>1, <1>3, InvariantHolds, PTL DEF Spec, ContractSpec, Contract!Spec
=============================================================================
