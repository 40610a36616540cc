-------------------------------- MODULE Heap --------------------------------
(***************************************************************************)
(* The heap of the cortex-m build (src/src/alloc/cortex_m): Heap and the   *)
(* HoleList it is made of.  A hole is a node of a linked list that is kept *)
(* in the free memory itself; node 0 is the dummy HoleList.first.          *)
(*                                                                         *)
(* CortexMHeap wraps every call in interrupt::free, so a call is never     *)
(* interrupted by another one; a step is one turn of the loop of           *)
(* allocate_first_fit or of deallocate.                                    *)
(***************************************************************************)
EXTENDS Integers, FiniteSets

CONSTANTS
    Word,       \* size_of::<usize>() and align_of::<Hole>()
    Bottom,     \* Heap.bottom: the address of the memory
    Length,     \* its length
    Layouts,    \* the layouts that callers ask for, [size, align]
    DoubleFrees \* TRUE: a caller may free memory that is free already

Top == Bottom + Length

\* Alignments are powers of two, so of two of them one divides the other.
ASSUME HeapAssumption ==
    /\ Word \in Nat \ {0}
    /\ Bottom \in Nat \ {0}
    /\ Length \in Nat
    /\ Layouts \subseteq [size : Nat, align : Nat \ {0}]
    /\ DoubleFrees \in BOOLEAN
    /\ \A l \in Layouts : l.align % Word = 0 \/ Word % l.align = 0

VARIABLES
    size,       \* Hole.size of the node at an address, 0 where there is no hole
    next,       \* Hole.next of the node at an address, 0 for None
    used,       \* Heap.used
    live,       \* the allocations that callers hold
    pc,         \* where the call in progress is
    layout,     \* its layout, as align_layout rounds it
    asked,      \* its layout, as the caller gave it
    hole,       \* the node its loop has come to
    block,      \* the block that deallocate is inserting
    back,       \* the back padding that is freed after the front padding
    given,      \* the block that allocate_first_fit will return
    misused     \* TRUE: the call frees memory that was free

list == <<size, next>>
call == <<layout, asked, misused>>
vars == <<list, used, live, pc, call, hole, block, back, given>>

MinSize == 2 * Word     \* HoleList::min_size()
Node == 0 .. Top
Holes == {n \in Node \ {0} : size[n] # 0}
NoBlock == [addr |-> 0, size |-> 0]
NoLayout == [size |-> 0, align |-> 1]

\* For a power of two the mask addr & !(align - 1) is the multiple below.
align_down(addr, align) == addr - (addr % align)

align_up(addr, align) == align_down(addr + align - 1, align)

\* Heap::align_layout: room for a hole, and a hole may start right behind.
align_layout_Unrounded(l) == [l EXCEPT !.size = IF @ < MinSize THEN MinSize ELSE @]

align_layout(l) ==
    [l EXCEPT !.size = align_up(IF @ < MinSize THEN MinSize ELSE @, Word)]

-----------------------------------------------------------------------------
(***************************************************************************)
(* Heap::new and HoleList::new: memory shorter than a hole is an empty     *)
(* list; otherwise the node is written at the first aligned address.       *)
(***************************************************************************)
FirstHole == align_up(Bottom, Word)

SaturatingSub(a, b) == IF a >= b THEN a - b ELSE 0

NewHole ==
    IF Length < MinSize THEN NoBlock
    ELSE [addr |-> FirstHole, size |-> SaturatingSub(Length, FirstHole - Bottom)]

Init ==
    /\ size = [n \in Node |-> IF n = NewHole.addr THEN NewHole.size ELSE 0]
    /\ next = [n \in Node |-> IF n = 0 THEN NewHole.addr ELSE 0]
    /\ used = 0
    /\ live = {}
    /\ pc = "idle"
    /\ layout = NoLayout
    /\ asked = NoLayout
    /\ hole = 0
    /\ block = NoBlock
    /\ back = NoBlock
    /\ given = NoBlock
    /\ misused = FALSE

-----------------------------------------------------------------------------
(***************************************************************************)
(* allocate_first_fit.                                                     *)
(***************************************************************************)
HoleInfo(n) == [addr |-> n, size |-> size[n]]

AlignedAddr_Ignored(h) == h.addr

\* A front padding must be able to hold a hole.
AlignedAddr(h) ==
    IF h.addr = align_up(h.addr, layout.align) THEN h.addr
    ELSE align_up(h.addr + MinSize, layout.align)

FrontPadding(h) == [addr |-> h.addr, size |-> AlignedAddr(h) - h.addr]

BackPadding(h) ==
    [addr |-> AlignedAddr(h) + layout.size,
     size |-> h.size - (AlignedAddr(h) - h.addr) - layout.size]

\* split_hole finds the hole big enough, and its rest empty or a hole again.
split_hole(h) ==
    /\ AlignedAddr(h) + layout.size <= h.addr + h.size
    /\ BackPadding(h).size = 0 \/ BackPadding(h).size >= MinSize

Allocate(l) ==
    /\ pc = "idle"
    /\ pc' = "search"
    /\ asked' = l
    /\ layout' = align_layout(l)
    /\ hole' = 0
    /\ UNCHANGED <<list, used, live, block, back, given, misused>>

\* The next hole is too small: go on behind it.
TryNext ==
    /\ pc = "search"
    /\ next[hole] # 0
    /\ ~split_hole(HoleInfo(next[hole]))
    /\ hole' = next[hole]
    /\ UNCHANGED <<list, used, live, pc, call, block, back, given>>

\* That was the last hole: Err.
Refuse_AfterFirst ==
    /\ pc = "search"
    /\ next[hole] = 0 \/ ~split_hole(HoleInfo(next[hole]))
    /\ pc' = "idle"
    /\ UNCHANGED <<list, used, live, call, hole, block, back, given>>

Refuse ==
    /\ pc = "search"
    /\ next[hole] = 0
    /\ pc' = "idle"
    /\ UNCHANGED <<list, used, live, call, hole, block, back, given>>

\* Remove node n, which follows the node before it; its memory is no hole then.
Unlink(before, n) == next' = [next EXCEPT ![before] = next[n], ![n] = 0]

\* The next hole is big enough: take it out of the list, and free its paddings.
TakeHole ==
    /\ pc = "search"
    /\ next[hole] # 0
    /\ LET h == HoleInfo(next[hole])
           front == FrontPadding(h)
           rest == BackPadding(h)
       IN  /\ split_hole(h)
           /\ Unlink(hole, h.addr)
           /\ size' = [size EXCEPT ![h.addr] = 0]
           /\ given' = [addr |-> AlignedAddr(h), size |-> layout.size]
           /\ block' = IF front.size # 0 THEN front ELSE rest
           /\ back' = IF front.size # 0 THEN rest ELSE NoBlock
           /\ pc' = IF front.size # 0 \/ rest.size # 0 THEN "free" ELSE "return"
    /\ hole' = 0
    /\ UNCHANGED <<used, live, call>>

-----------------------------------------------------------------------------
(***************************************************************************)
(* deallocate, for a block of the caller or for a padding.                 *)
(***************************************************************************)
StartFree(addr, l) ==
    /\ pc = "idle"
    /\ pc' = "free"
    /\ asked' = l
    /\ layout' = align_layout(l)
    /\ hole' = 0
    /\ block' = [addr |-> addr, size |-> align_layout(l).size]
    /\ UNCHANGED <<list, used, back, given>>

\* A caller gives back what it holds.
Deallocate(a) ==
    /\ StartFree(a.addr, a.asked)
    /\ live' = live \ {a}
    /\ UNCHANGED misused

\* A caller gives back a second time what lies inside a hole by now.
DeallocateAgain(addr, l) ==
    /\ DoubleFrees
    /\ \E n \in Holes : n <= addr /\ addr + align_layout(l).size <= n + size[n]
    /\ StartFree(addr, l)
    /\ misused' = TRUE
    /\ UNCHANGED live

End == hole + size[hole]    \* the dummy node has address and size 0
BlockEnd == block.addr + block.size

\* The block is big enough to be a hole and lies behind the current one.
Asserted_SizeOnly == block.size >= MinSize

Asserted == block.size >= MinSize /\ End <= block.addr

\* The block touches neither this hole nor the next one and lies between them.
Between ==
    /\ End # block.addr
    /\ next[hole] = 0 \/ (BlockEnd # next[hole] /\ next[hole] > block.addr)

\* A failed assert!, or the debug_assert_eq! on the address of a new hole.
FailAssert ==
    /\ pc = "free"
    /\ ~Asserted \/ (Between /\ block.addr % Word # 0)
    /\ pc' = "panic"
    /\ UNCHANGED <<list, used, live, call, hole, block, back, given>>

\* deallocate is done: free the back padding next, or return.
Inserted ==
    /\ hole' = 0
    /\ block' = back
    /\ back' = NoBlock
    /\ pc' = IF back.size # 0 THEN "free" ELSE "return"
    /\ UNCHANGED <<used, live, call, given>>

\* The block fills the gap between this hole and the next one.
FillGap_KeepNext ==
    /\ pc = "free"
    /\ Asserted
    /\ next[hole] # 0
    /\ End = block.addr
    /\ BlockEnd = next[hole]
    /\ size' = [size EXCEPT ![hole] = @ + block.size]
    /\ UNCHANGED next
    /\ Inserted

FillGap ==
    /\ pc = "free"
    /\ Asserted
    /\ next[hole] # 0
    /\ End = block.addr
    /\ BlockEnd = next[hole]
    /\ size' = [size EXCEPT ![hole] = @ + block.size + size[next[hole]],
                            ![next[hole]] = 0]
    /\ Unlink(hole, next[hole])
    /\ Inserted

\* The block is right behind this hole.
GrowHole ==
    /\ pc = "free"
    /\ Asserted
    /\ End = block.addr
    /\ ~(next[hole] # 0 /\ BlockEnd = next[hole])
    /\ size' = [size EXCEPT ![hole] = @ + block.size]
    /\ UNCHANGED next
    /\ Inserted

\* The block is right before the next hole: take that in, and look again.
MergeNext_Twice ==
    /\ pc = "free"
    /\ Asserted
    /\ next[hole] # 0
    /\ End # block.addr
    /\ BlockEnd = next[hole]
    /\ block' = [block EXCEPT !.size = @ + size[next[hole]]]
    /\ UNCHANGED <<list, used, live, pc, call, hole, back, given>>

MergeNext ==
    /\ pc = "free"
    /\ Asserted
    /\ next[hole] # 0
    /\ End # block.addr
    /\ BlockEnd = next[hole]
    /\ block' = [block EXCEPT !.size = @ + size[next[hole]]]
    /\ size' = [size EXCEPT ![next[hole]] = 0]
    /\ Unlink(hole, next[hole])
    /\ UNCHANGED <<used, live, pc, call, hole, back, given>>

\* The block is behind the next hole.
GoOn_Stays ==
    /\ pc = "free"
    /\ Asserted
    /\ next[hole] # 0
    /\ End # block.addr
    /\ BlockEnd # next[hole]
    /\ next[hole] <= block.addr
    /\ UNCHANGED vars

GoOn ==
    /\ pc = "free"
    /\ Asserted
    /\ next[hole] # 0
    /\ End # block.addr
    /\ BlockEnd # next[hole]
    /\ next[hole] <= block.addr
    /\ hole' = next[hole]
    /\ UNCHANGED <<list, used, live, pc, call, block, back, given>>

\* The block lies between this hole and the next one: it becomes a hole.
InsertHole_Unsorted ==
    /\ pc = "free"
    /\ Asserted
    /\ End # block.addr /\ BlockEnd # next[hole]
    /\ size' = [size EXCEPT ![block.addr] = block.size]
    /\ next' = [next EXCEPT ![block.addr] = next[hole], ![hole] = block.addr]
    /\ Inserted

InsertHole ==
    /\ pc = "free"
    /\ Asserted
    /\ Between
    /\ block.addr % Word = 0
    /\ size' = [size EXCEPT ![block.addr] = block.size]
    /\ next' = [next EXCEPT ![block.addr] = next[hole], ![hole] = block.addr]
    /\ Inserted

-----------------------------------------------------------------------------
(***************************************************************************)
(* Heap::allocate_first_fit and Heap::deallocate count the bytes in use.   *)
(***************************************************************************)
Return_Requested ==
    /\ pc = "return"
    /\ IF given = NoBlock
          THEN used' = used - layout.size /\ UNCHANGED live
          ELSE /\ used' = used + asked.size
               /\ live' = live \cup {[addr |-> given.addr, size |-> given.size, asked |-> asked]}
    /\ given' = NoBlock
    /\ pc' = "idle"
    /\ UNCHANGED <<list, call, hole, block, back>>

Return ==
    /\ pc = "return"
    /\ IF given = NoBlock
          THEN used' = used - layout.size /\ UNCHANGED live
          ELSE /\ used' = used + layout.size
               /\ live' = live \cup {[addr |-> given.addr, size |-> given.size, asked |-> asked]}
    /\ given' = NoBlock
    /\ pc' = "idle"
    /\ UNCHANGED <<list, call, hole, block, back>>

Step ==
    \/ TryNext \/ Refuse \/ TakeHole
    \/ FailAssert \/ FillGap \/ GrowHole \/ MergeNext \/ GoOn \/ InsertHole
    \/ Return

Next ==
    \/ \E l \in Layouts : Allocate(l)
    \/ \E a \in live : Deallocate(a)
    \/ \E addr \in Node, l \in Layouts : DeallocateAgain(addr, l)
    \/ Step

Spec == Init /\ [][Next]_vars

\* A call runs to its end.
FairSpec == Spec /\ WF_vars(Step)

-----------------------------------------------------------------------------
(***************************************************************************)
(* Properties.                                                             *)
(***************************************************************************)
Blocks == [addr : Node, size : 0 .. Length]

\* Every variable stays in its type: no hole, padding or allocation reaches beyond
\* the memory, and the byte count never goes below zero.
TypeOK ==
    /\ size \in [Node -> 0 .. Length]
    /\ next \in [Node -> Node]
    /\ used \in 0 .. Length
    /\ live \subseteq [addr : Node, size : 0 .. Length, asked : Layouts]
    /\ pc \in {"idle", "search", "free", "return", "panic"}
    /\ layout \in [size : Nat, align : Nat \ {0}]
    /\ asked \in Layouts \cup {NoLayout}
    /\ hole \in Node
    /\ block \in [addr : Node, size : Nat]
    /\ back \in Blocks
    /\ given \in Blocks
    /\ misused \in BOOLEAN

\* The list is sorted by address and links all the holes, at every turn of the
\* loops: next is the first hole behind, and merging has left a gap before it.
ListSorted ==
    \A n \in Holes \cup {0} :
        /\ next[n] = 0 => \A m \in Holes : m <= n
        /\ next[n] # 0 => /\ next[n] \in Holes
                          /\ n + size[n] < next[n]
                          /\ \A m \in Holes : m <= n \/ next[n] <= m

\* Everything that has a place in the heap: holes, allocations, and what the call in
\* progress has in its hands.
Occupants ==
    {HoleInfo(n) : n \in Holes}
        \cup {[addr |-> a.addr, size |-> a.size] : a \in live}
        \cup ({block, back, given} \ {NoBlock})

Covers(b, cell) == b.addr <= cell /\ cell < b.addr + b.size

\* Every byte of the first hole is at every moment in exactly one hole, allocation or
\* padding: none is lost by a split or a merge, none is handed out twice,
\* as long as no caller frees what it does not hold.
Tiled ==
    ~misused => \A cell \in {c \in Node : Covers(NewHole, c)} :
        \E b \in Occupants : /\ Covers(b, cell)
                             /\ \A c \in Occupants : Covers(c, cell) => c = b

\* Once every allocation has been given back, the heap is one hole again, however
\* the frees were ordered.
FreedHeapIsWhole ==
    pc = "idle" /\ live = {} =>
        /\ used = 0
        /\ {HoleInfo(n) : n \in Holes} = {NewHole} \ {NoBlock}

\* first fit refuses a request only if no hole of the list could take it.
RefusedOnlyIfNoneFits ==
    [][pc = "search" /\ pc' = "idle" => \A n \in Holes : ~split_hole(HoleInfo(n))]_vars

\* The assertions of deallocate hold, for the blocks that callers hold and for paddings:
\* each is big enough for a hole, aligned to one, and behind the hole it is compared with.
NoAssertFails == pc = "panic" => misused

\* A second free of memory that is free never returns and changes nothing: not the links
\* and sizes of the holes, nor the byte count. Walking along the list, deallocate merges
\* and inserts nothing before it meets its assertion ("probably a double free",
\* hole.rs:244).
DoubleFreeCaught ==
    [][misused' => pc' \in {"free", "panic"} /\ UNCHANGED <<list, used, live>>]_vars

\* Every call ends: the loops of allocate_first_fit and deallocate terminate, with a
\* panic only after a double free.
CallsEnd == (pc # "idle") ~> (pc = "idle" \/ (pc = "panic" /\ misused))

Contract == INSTANCE HeapContract WITH
    held <- {[addr |-> a.addr, layout |-> a.asked] : a \in live}

\* The heap hands out disjoint memory of the wanted size and alignment.
ContractSpec == Contract!Spec
=============================================================================
