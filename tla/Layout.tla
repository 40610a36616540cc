------------------------------- MODULE Layout -------------------------------
(***************************************************************************)
(* Layout (src/src/alloc/cortex_m/alloc/layout.rs): sizes and alignments   *)
(* in a usize of Width bits.  A caller builds a layout by any sequence of  *)
(* the operations; an operation answers with a new layout and an offset,   *)
(* with LayoutErr, or panics.                                              *)
(***************************************************************************)
EXTENDS Naturals, FiniteSetsExt

CONSTANTS
    Width,      \* the bits of a usize
    Counts      \* how often a caller repeats a layout

ASSUME WidthAssumption == Width \in Nat \ {0} /\ Counts \subseteq Nat

pow2[n \in Nat] == IF n = 0 THEN 1 ELSE 2 * pow2[n - 1]

Modulus == pow2[Width]
MAX == Modulus - 1      \* usize::MAX
Usize == 0 .. MAX
PowersOfTwo == {pow2[i] : i \in 0 .. (Width - 1)}

Layouts == [size : Usize, align : PowersOfTwo]

\* size_of and align_of of a Rust type: a multiple of its alignment, up to isize::MAX.
Types == {T \in Layouts : T.size % T.align = 0 /\ T.size <= MAX \div 2}

\* The layouts a caller may hold, for the operations that take a second one.
Built == {l \in Layouts : l.size <= MAX - (l.align - 1)}

VARIABLES
    layout,     \* the layout built so far
    offset,     \* the offset that the last call answered with
    outcome,    \* how the last call ended: "ok", "err" or "panic"
    self,       \* the layout it was made on
    call        \* its name and argument

vars == <<layout, offset, outcome, self, call>>

Answer(l, o) == [layout |-> l, offset |-> o, outcome |-> "ok"]

LayoutErr == [layout |-> layout, offset |-> 0, outcome |-> "err"]

Panicked == [layout |-> layout, offset |-> 0, outcome |-> "panic"]

-----------------------------------------------------------------------------
(***************************************************************************)
(* The operations.                                                         *)
(***************************************************************************)
from_size_align_Zero(size, align) ==
    IF align \notin PowersOfTwo THEN LayoutErr
    ELSE Answer([size |-> size, align |-> align], 0)

from_size_align_OffByOne(size, align) ==
    IF align \notin PowersOfTwo \/ size >= MAX - (align - 1) THEN LayoutErr
    ELSE Answer([size |-> size, align |-> align], 0)

from_size_align(size, align) ==
    IF align \notin PowersOfTwo \/ size > MAX - (align - 1) THEN LayoutErr
    ELSE Answer([size |-> size, align |-> align], 0)

align_to(l, align) == from_size_align(l.size, Max({l.align, align}))

\* With wrapping arithmetic; & !(align - 1) is the multiple of align below.
padding_needed_for_Full(l, align) == align - (l.size % align)

padding_needed_for(l, align) ==
    LET sum == (l.size + align - 1) % Modulus
        len_rounded_up == sum - (sum % align)
    IN  (len_rounded_up + Modulus - l.size) % Modulus

\* The addition overflows in neither pad_to_align nor repeat, or it panics.
padded_size(l) == l.size + padding_needed_for(l, l.align)

pad_to_align(l) ==
    IF padded_size(l) > MAX THEN Panicked
    ELSE LET padded == from_size_align(padded_size(l), l.align)
         IN  IF padded.outcome = "ok" THEN padded ELSE Panicked

repeat(l, n) ==
    IF padded_size(l) > MAX THEN Panicked
    ELSE IF padded_size(l) * n > MAX THEN LayoutErr
    ELSE Answer([l EXCEPT !.size = padded_size(l) * n], padded_size(l))

extend_Unchecked(l, next) ==
    LET at == l.size + padding_needed_for(l, next.align) IN
    IF at > MAX \/ at + next.size > MAX THEN LayoutErr
    ELSE Answer([size |-> at + next.size, align |-> Max({l.align, next.align})], at)

extend(l, next) ==
    LET at == l.size + padding_needed_for(l, next.align) IN
    IF at > MAX \/ at + next.size > MAX THEN LayoutErr
    ELSE [from_size_align(at + next.size, Max({l.align, next.align})) EXCEPT !.offset = at]

repeat_packed(l, n) ==
    IF l.size * n > MAX THEN LayoutErr ELSE from_size_align(l.size * n, l.align)

extend_packed(l, next) ==
    IF l.size + next.size > MAX THEN LayoutErr
    ELSE from_size_align(l.size + next.size, l.align)

\* Layout::new::<T>().repeat(n), whose offset a debug_assert_eq! compares, padded.
array(T, n) ==
    LET elements == repeat(T, n) IN
    IF elements.outcome # "ok" THEN elements
    ELSE IF elements.offset # T.size THEN Panicked
    ELSE pad_to_align(elements.layout)

-----------------------------------------------------------------------------
(***************************************************************************)
(* A caller calls one operation after the other; a panic stops it.         *)
(***************************************************************************)
Init ==
    /\ layout \in Types     \* Layout::new, Layout::for_value
    /\ offset = 0
    /\ outcome = "ok"
    /\ self = layout
    /\ call = <<"new">>

Return(answer, name, arg) ==
    /\ outcome # "panic"
    /\ layout' = answer.layout
    /\ offset' = answer.offset
    /\ outcome' = answer.outcome
    /\ self' = layout
    /\ call' = <<name, arg>>

Create(size, align) ==
    Return(from_size_align(size, align), "from_size_align", [size |-> size, align |-> align])

AlignTo(align) == Return(align_to(layout, align), "align_to", align)

PadToAlign == Return(pad_to_align(layout), "pad_to_align", 0)

Repeat(n) == Return(repeat(layout, n), "repeat", n)

RepeatPacked(n) == Return(repeat_packed(layout, n), "repeat_packed", n)

Extend(next) == Return(extend(layout, next), "extend", next)

ExtendPacked(next) == Return(extend_packed(layout, next), "extend_packed", next)

Array(T, n) == Return(array(T, n), "array", [size |-> T.size, align |-> T.align, n |-> n])

Next ==
    \/ \E size, align \in Usize : Create(size, align)
    \/ \E align \in Usize : AlignTo(align)
    \/ PadToAlign
    \/ \E n \in Counts : Repeat(n) \/ RepeatPacked(n)
    \/ \E next \in Built : Extend(next) \/ ExtendPacked(next)
    \/ \E T \in Types, n \in Counts : Array(T, n)

Spec == Init /\ [][Next]_vars

-----------------------------------------------------------------------------
(***************************************************************************)
(* Properties.                                                             *)
(***************************************************************************)
\* The least multiple of align that is not below size, without bounds.
RoundUp(size, align) ==
    CHOOSE m \in size .. (size + align - 1) : m % align = 0

\* The invariant of Layout holds of every layout a caller can build, those of the
\* operations that construct it unchecked included: a usize and a power of two, and
\* "size, when rounded up to the nearest multiple of align, must not overflow"
\* (layout.rs:34).
RoundedUpFits == layout \in Layouts /\ RoundUp(layout.size, layout.align) <= MAX

\* "This cannot overflow" (layout.rs:199 and 218): neither the unchecked additions nor
\* the unwrap of pad_to_align nor the assertion of array ever fails.
NoPanic == outcome # "panic"

\* An operation answers LayoutErr exactly if what it is to compute, without bounds and
\* rounded up to its alignment, does not fit; repeat and array, whose parts are multiples
\* of their alignment, exactly if the product does not.
ErrIffTooLarge ==
    LET arg == call[2]
        TooLarge(size, align) == RoundUp(size, align) > MAX
    IN  call[1] \notin {"new", "pad_to_align"} =>
        (outcome = "err" <=>
            CASE call[1] = "from_size_align" ->
                    arg.align \notin PowersOfTwo \/ TooLarge(arg.size, arg.align)
              [] call[1] = "align_to" ->
                    \/ Max({self.align, arg}) \notin PowersOfTwo
                    \/ TooLarge(self.size, Max({self.align, arg}))
              [] call[1] = "repeat" -> RoundUp(self.size, self.align) * arg > MAX
              [] call[1] = "repeat_packed" -> TooLarge(self.size * arg, self.align)
              [] call[1] = "extend" ->
                    TooLarge(RoundUp(self.size, arg.align) + arg.size,
                             Max({self.align, arg.align}))
              [] call[1] = "extend_packed" -> TooLarge(self.size + arg.size, self.align)
              [] call[1] = "array" -> arg.size * arg.n > MAX)

\* What is put together is where it must be: repeated instances and an appended field
\* are aligned, do not overlap, leave no more room than that needs, and fit.
PartsInPlace ==
    outcome = "ok" =>
        /\ call[1] = "repeat" =>
              /\ offset = RoundUp(self.size, self.align)
              /\ layout.size = call[2] * offset
        /\ call[1] = "extend" =>
              /\ offset = RoundUp(self.size, call[2].align)
              /\ layout.size = offset + call[2].size
              /\ layout.align % self.align = 0 /\ layout.align % call[2].align = 0
        /\ call[1] = "pad_to_align" => layout.size = RoundUp(self.size, self.align)
        /\ call[1] = "array" => layout.size = call[2].n * call[2].size
=============================================================================
