---------------------------- MODULE LayoutProofs ----------------------------
(***************************************************************************)
(* Proofs about Layout, for a usize of any width and any sequence of       *)
(* operations.                                                             *)
(***************************************************************************)
EXTENDS Layout, Arithmetic

-----------------------------------------------------------------------------
(***************************************************************************)
(* Powers of two.  What the recursive definition of pow2 means follows     *)
(* from the well-foundedness of the natural numbers: a least number for    *)
(* which it failed would have a predecessor for which it holds.            *)
(***************************************************************************)

\* A set of natural numbers that is not empty has a least element.
LEMMA LeastNumber ==
    ASSUME NEW S \in SUBSET Nat, S # {}
    PROVE  \E m \in S : \A n \in S : m <= n
BY MinIsLeast

\* g doubles from 1 on, up to n.
Doubles(g, n) ==
    /\ g \in [Nat -> Nat]
    /\ g[0] = 1
    /\ \A i \in 1 .. n : g[i] = 2 * g[i - 1]

\* There is such a function for every n.
LEMMA DoublesExists ==
    ASSUME NEW n \in Nat
    PROVE  \E g : Doubles(g, n)
<1> DEFINE bad == {k \in Nat : ~ \E g : Doubles(g, k)}
<1> SUFFICES ASSUME bad # {} PROVE FALSE
  OBVIOUS
<1>1. PICK m \in bad : \A k \in bad : m <= k
  BY LeastNumber
<1>2. m # 0
  <2>1. Doubles([i \in Nat |-> 1], 0)
    BY DEF Doubles
  <2> QED BY <1>1, <2>1
<1>3. m - 1 \in Nat /\ m - 1 \notin bad
  BY <1>1, <1>2
<1>4. PICK g : Doubles(g, m - 1)
  BY <1>3
<1> DEFINE h == [g EXCEPT ![m] = 2 * g[m - 1]]
<1>5. m \in Nat /\ g \in [Nat -> Nat]
  BY <1>4 DEF Doubles
<1>6. h \in [Nat -> Nat] /\ \A i \in Nat : h[i] = IF i = m THEN 2 * g[m - 1] ELSE g[i]
  <2>1. g[m - 1] \in Nat /\ 2 * g[m - 1] \in Nat
    BY <1>3, <1>5
  <2> QED BY <1>5, <2>1
<1> HIDE DEF h
<1>7. h[0] = 1
  BY <1>2, <1>4, <1>6 DEF Doubles
<1>8. ASSUME NEW i \in 1 .. m PROVE h[i] = 2 * h[i - 1]
  <2>1. i \in Nat /\ i - 1 \in Nat /\ i - 1 # m
    BY <1>5
  <2>2. h[i - 1] = g[i - 1]
    BY <1>6, <2>1
  <2>3. CASE i = m
    BY <1>6, <2>1, <2>2, <2>3
  <2>4. CASE i # m
    <3>1. i \in 1 .. (m - 1)
      BY <1>5, <2>4
    <3> QED BY <1>4, <1>6, <2>1, <2>2, <2>4, <3>1 DEF Doubles
  <2> QED BY <2>3, <2>4
<1>9. Doubles(h, m)
  BY <1>6, <1>7, <1>8 DEF Doubles
<1> QED BY <1>1, <1>9

\* Any two agree as far as both double.
LEMMA DoublesUnique ==
    ASSUME NEW n \in Nat, NEW k \in Nat, NEW g, Doubles(g, n), NEW h, Doubles(h, k),
           NEW i \in Nat, i <= n, i <= k
    PROVE  g[i] = h[i]
<1> DEFINE bad == {j \in Nat : j <= n /\ j <= k /\ g[j] # h[j]}
<1> SUFFICES ASSUME bad # {} PROVE FALSE
  OBVIOUS
<1>1. PICK m \in bad : \A j \in bad : m <= j
  BY LeastNumber
<1>2. m # 0
  BY <1>1 DEF Doubles
<1>3. m \in Nat /\ m - 1 \in Nat /\ m - 1 \notin bad /\ m <= n /\ m <= k
  BY <1>1, <1>2
<1>4. g[m - 1] = h[m - 1]
  BY <1>3
<1>5. m \in 1 .. n /\ m \in 1 .. k
  BY <1>2, <1>3
<1>6. g[m] = 2 * g[m - 1] /\ h[m] = 2 * h[m - 1]
  BY <1>5 DEF Doubles
<1> QED BY <1>1, <1>4, <1>6

\* pow2 is the function its definition says.
LEMMA Pow2Def ==
    pow2 = [n \in Nat |-> IF n = 0 THEN 1 ELSE 2 * pow2[n - 1]]
<1> DEFINE G(n) == CHOOSE g : Doubles(g, n)
<1> DEFINE f == [n \in Nat |-> G(n)[n]]
<1>1. \A n \in Nat : Doubles(G(n), n)
  BY DoublesExists
<1> HIDE DEF G
<1>2. f[0] = 1
  BY <1>1 DEF Doubles
<1>3. ASSUME NEW n \in Nat, n # 0 PROVE f[n] = 2 * f[n - 1]
  <2>1. n - 1 \in Nat /\ n - 1 <= n /\ n - 1 <= n - 1 /\ n \in 1 .. n
    BY <1>3
  <2>2. G(n)[n] = 2 * G(n)[n - 1]
    BY <1>1, <2>1 DEF Doubles
  <2>3. G(n)[n - 1] = G(n - 1)[n - 1]
    BY <1>1, <2>1, DoublesUnique
  <2> QED BY <2>1, <2>2, <2>3
<1>4. f = [n \in Nat |-> IF n = 0 THEN 1 ELSE 2 * f[n - 1]]
  <2> HIDE DEF f
  <2>1. f = [n \in Nat |-> f[n]]
    BY DEF f
  <2>2. \A n \in Nat : f[n] = IF n = 0 THEN 1 ELSE 2 * f[n - 1]
    BY <1>2, <1>3
  <2> QED BY <2>1, <2>2
<1>5. \E e : e = [n \in Nat |-> IF n = 0 THEN 1 ELSE 2 * e[n - 1]]
  <2> HIDE DEF f
  <2> QED BY <1>4
<1> QED BY <1>5 DEF pow2

\* Powers of two double and are positive.
LEMMA Pow2Positive ==
    ASSUME NEW n \in Nat
    PROVE  pow2[0] = 1 /\ pow2[n + 1] = 2 * pow2[n] /\ pow2[n] \in Nat \ {0}
<1> DEFINE bad == {k \in Nat : pow2[k] \notin Nat \ {0}}
<1>1. pow2[0] = 1
  BY Pow2Def
<1>2. \A k \in Nat : pow2[k + 1] = 2 * pow2[k]
  <2> SUFFICES ASSUME NEW k \in Nat PROVE pow2[k + 1] = 2 * pow2[k]
    OBVIOUS
  <2>1. k + 1 \in Nat /\ k + 1 # 0 /\ (k + 1) - 1 = k
    OBVIOUS
  <2>2. pow2[k + 1] = 2 * pow2[(k + 1) - 1]
    BY <2>1, Pow2Def
  <2> QED BY <2>1, <2>2
<1>3. ASSUME bad # {} PROVE FALSE
  <2>1. PICK m \in bad : \A k \in bad : m <= k
    BY <1>3, LeastNumber
  <2>2. m # 0 /\ m \in Nat
    BY <1>1, <2>1
  <2>3. m - 1 \in Nat /\ m - 1 \notin bad
    BY <2>1, <2>2
  <2>4. pow2[m - 1] \in Nat \ {0} /\ pow2[m] = 2 * pow2[m - 1]
    <3>1. (m - 1) + 1 = m
      BY <2>2
    <3> QED BY <1>2, <2>3, <3>1
  <2> QED BY <2>1, <2>4
<1> QED BY <1>1, <1>2, <1>3

\* The smaller of two powers of two divides the larger.
LEMMA Pow2Divides ==
    ASSUME NEW i \in Nat, NEW j \in Nat, i <= j
    PROVE  pow2[i] <= pow2[j] /\ pow2[j] % pow2[i] = 0
<1>1. PICK a \in Nat \ {0} : a = pow2[i]
  BY Pow2Positive
<1> DEFINE good(k) == \E q \in Nat \ {0} : pow2[k] = a * q
<1> DEFINE bad == {k \in Nat : i <= k /\ ~good(k)}
<1>2. ASSUME bad # {} PROVE FALSE
  <2>1. PICK m \in bad : \A k \in bad : m <= k
    BY <1>2, LeastNumber
  <2>2. m # i
    <3>1. pow2[i] = a * 1
      BY <1>1
    <3>2. good(i)
      BY <3>1
    <3> QED BY <2>1, <3>2
  <2>3. m - 1 \in Nat /\ i <= m - 1 /\ m - 1 \notin bad /\ (m - 1) + 1 = m
    BY <2>1, <2>2
  <2>4. PICK q \in Nat \ {0} : pow2[m - 1] = a * q
    BY <2>3
  <2>5. pow2[m] = 2 * (a * q)
    BY <2>3, <2>4, Pow2Positive
  <2>6. pow2[m] = a * (2 * q) /\ 2 * q \in Nat \ {0}
    BY <1>1, <2>4, <2>5
  <2>7. good(m)
    BY <2>6
  <2> QED BY <2>1, <2>7
<1>3. PICK q \in Nat \ {0} : pow2[j] = a * q
  BY <1>2
<1>4. a <= a * q
  BY <1>1, <1>3
<1>5. (a * q) % a = 0
  <2>1. a * q \in Nat /\ a * q = a * q + 0 /\ 0 \in 0 .. (a - 1)
    BY <1>1, <1>3
  <2> QED BY <1>1, <1>3, <2>1, DivModUnique
<1> QED BY <1>1, <1>3, <1>4, <1>5

\* Every alignment divides the number of values of a usize.
LEMMA Alignments ==
    /\ Modulus \in Nat \ {0} /\ MAX \in Nat /\ MAX = Modulus - 1
    /\ \A p \in PowersOfTwo : p \in Nat \ {0} /\ p <= MAX /\ Modulus % p = 0
    /\ \A p, q \in PowersOfTwo : p <= q => q % p = 0
<1>1. Width \in Nat \ {0}
  BY WidthAssumption DEF WidthAssumption
<1>2. Modulus \in Nat \ {0} /\ MAX \in Nat /\ MAX = Modulus - 1
  BY <1>1, Pow2Positive DEF Modulus, MAX
<1>3. ASSUME NEW p \in PowersOfTwo
      PROVE  p \in Nat \ {0} /\ p <= MAX /\ Modulus % p = 0
  <2>1. PICK i \in 0 .. (Width - 1) : p = pow2[i]
    BY DEF PowersOfTwo
  <2>2. i \in Nat /\ i + 1 \in Nat /\ i <= Width /\ i + 1 <= Width
    BY <1>1
  <2>3. p \in Nat \ {0} /\ pow2[i + 1] = 2 * p
    BY <2>1, <2>2, Pow2Positive
  <2>4. 2 * p <= Modulus /\ Modulus % p = 0
    BY <1>1, <2>1, <2>2, <2>3, Pow2Divides DEF Modulus
  <2> QED BY <1>2, <2>3, <2>4
<1>4. ASSUME NEW p \in PowersOfTwo, NEW q \in PowersOfTwo, p <= q
      PROVE  q % p = 0
  <2>1. PICK i \in 0 .. (Width - 1) : p = pow2[i]
    BY DEF PowersOfTwo
  <2>2. PICK j \in 0 .. (Width - 1) : q = pow2[j]
    BY DEF PowersOfTwo
  <2>3. i \in Nat /\ j \in Nat
    BY <1>1
  <2>4. CASE i <= j
    BY <2>1, <2>2, <2>3, <2>4, Pow2Divides
  <2>5. CASE j <= i
    <3>1. q <= p /\ p \in Nat \ {0} /\ q \in Nat
      BY <2>1, <2>2, <2>3, <2>5, Pow2Divides, Pow2Positive
    <3>2. p = q
      BY <1>4, <3>1
    <3> QED BY <3>1, <3>2
  <2> QED BY <2>3, <2>4, <2>5
<1> QED BY <1>2, <1>3, <1>4

-----------------------------------------------------------------------------
(***************************************************************************)
(* Rounding up.                                                            *)
(***************************************************************************)

\* There is one multiple of align among align consecutive numbers.
LEMMA RoundUpIs ==
    ASSUME NEW size \in Nat, NEW align \in Nat \ {0}
    PROVE  /\ RoundUp(size, align) \in Nat
           /\ size <= RoundUp(size, align) /\ RoundUp(size, align) <= size + align - 1
           /\ RoundUp(size, align) % align = 0
           /\ \A m \in Nat : /\ size <= m /\ m <= size + align - 1 /\ m % align = 0
                             => m = RoundUp(size, align)
<1> DEFINE sum == size + align - 1
<1> DEFINE up == sum - (sum % align)
<1>1. sum \in Nat /\ sum % align \in Nat /\ sum % align < align
  BY DivMod
<1>2. PICK x \in Nat : x = sum % align /\ x <= align - 1
  BY <1>1
<1>3. up \in size .. sum
  BY <1>1, <1>2
<1>4. up % align = 0
  <2>1. PICK q \in Nat : sum = align * q + x
    BY <1>1, <1>2, DivMod
  <2>2. up = align * q + 0 /\ up \in Nat /\ 0 \in 0 .. (align - 1)
    BY <1>2, <1>3, <2>1
  <2> QED BY <2>2, DivModUnique
<1>5. ASSUME NEW m \in Nat, NEW n \in Nat, size <= m, m <= n, n <= sum,
             m % align = 0, n % align = 0
      PROVE  m = n
  <2>1. PICK p \in Nat : m = align * p
    <3>1. m \div align \in Nat /\ m = align * (m \div align)
      BY <1>5
    <3> QED BY <3>1
  <2>2. PICK q \in Nat : n = align * q
    <3>1. n \div align \in Nat /\ n = align * (n \div align)
      BY <1>5
    <3> QED BY <3>1
  <2>3. ~(p + 1 <= q)
    <3> SUFFICES ASSUME p + 1 <= q PROVE FALSE
      OBVIOUS
    <3>1. align * (p + 1) <= align * q
      OBVIOUS
    <3>2. align * (p + 1) = align * p + align
      OBVIOUS
    <3> QED BY <1>5, <2>1, <2>2, <3>1, <3>2
  <2>4. ~(q + 1 <= p)
    <3> SUFFICES ASSUME q + 1 <= p PROVE FALSE
      OBVIOUS
    <3>1. align * (q + 1) <= align * p
      OBVIOUS
    <3>2. align * (q + 1) = align * q + align
      OBVIOUS
    <3> QED BY <1>5, <2>1, <2>2, <3>1, <3>2
  <2>5. p = q
    BY <2>3, <2>4
  <2> QED BY <2>1, <2>2, <2>5
<1>6. RoundUp(size, align) \in size .. sum /\ RoundUp(size, align) % align = 0
  BY <1>3, <1>4 DEF RoundUp
<1>7. RoundUp(size, align) \in Nat /\ size <= RoundUp(size, align) /\ RoundUp(size, align) <= sum
  BY <1>1, <1>6
<1>8. ASSUME NEW m \in Nat, size <= m, m <= sum, m % align = 0
      PROVE  m = RoundUp(size, align)
  <2>1. m <= RoundUp(size, align) \/ RoundUp(size, align) <= m
    BY <1>7
  <2> QED BY <1>5, <1>6, <1>7, <1>8, <2>1
<1> QED BY <1>6, <1>7, <1>8

\* A multiple is rounded up to itself.
LEMMA MultipleIsRounded ==
    ASSUME NEW size \in Nat, NEW align \in Nat \ {0}, size % align = 0
    PROVE  RoundUp(size, align) = size
<1>1. size <= size /\ size <= size + align - 1
  OBVIOUS
<1> QED BY <1>1, RoundUpIs

\* The test of from_size_align is whether the size, rounded up, fits.
LEMMA RoundedFitsIff ==
    ASSUME NEW size \in Nat, NEW align \in PowersOfTwo
    PROVE  RoundUp(size, align) <= MAX <=> size <= MAX - (align - 1)
<1>1. align \in Nat \ {0} /\ MAX \in Nat /\ Modulus \in Nat /\ MAX = Modulus - 1
  BY Alignments
<1>2. PICK m \in Nat : /\ m = RoundUp(size, align) /\ m % align = 0
                       /\ size <= m /\ m <= size + align - 1
  BY <1>1, RoundUpIs
<1>3. ASSUME m <= MAX PROVE m <= Modulus - align
  <2>1. PICK p \in Nat : m = align * p
    <3>1. m \div align \in Nat /\ m = align * (m \div align)
      BY <1>1, <1>2
    <3> QED BY <3>1
  <2>2. PICK q \in Nat : Modulus = align * q
    <3>1. Modulus % align = 0
      BY Alignments
    <3>2. Modulus \div align \in Nat /\ Modulus = align * (Modulus \div align)
      BY <1>1, <3>1
    <3> QED BY <3>2
  <2>3. ~(q <= p)
    <3> SUFFICES ASSUME q <= p PROVE FALSE
      OBVIOUS
    <3>1. align * q <= align * p
      BY <1>1
    <3> QED BY <1>1, <1>3, <2>1, <2>2, <3>1
  <2>4. align * (p + 1) <= align * q
    BY <1>1, <2>3
  <2>5. align * (p + 1) = align * p + align
    BY <1>1
  <2> QED BY <1>1, <2>1, <2>2, <2>4, <2>5
<1> QED BY <1>1, <1>2, <1>3

\* padding_needed_for, in wrapping arithmetic, is what rounding up adds: when the size
\* rounded up does not fit the sum wraps, and size and padding add up to MAX + 1.
LEMMA PaddingRoundsUp ==
    ASSUME NEW l, l.size \in Usize, NEW align \in PowersOfTwo
    PROVE  l.size + padding_needed_for(l, align) = RoundUp(l.size, align)
<1> DEFINE sum == (l.size + align - 1) % Modulus
<1> DEFINE len == sum - (sum % align)
<1>1. PICK s \in Nat : s = l.size /\ s <= MAX
  <2>1. MAX \in Nat
    BY Alignments
  <2> QED BY <2>1 DEF Usize
<1>2. /\ align \in Nat \ {0} /\ align <= MAX /\ MAX = Modulus - 1
      /\ Modulus \in Nat \ {0} /\ Modulus % align = 0
  BY Alignments
<1>3. PICK y \in Nat : y = s + align - 1
  BY <1>2
<1>4. CASE s <= MAX - (align - 1)
  <2>1. sum = y
    <3>1. y = Modulus * 0 + y /\ y \in 0 .. (Modulus - 1)
      BY <1>1, <1>2, <1>3, <1>4
    <3>2. y % Modulus = y
      BY <1>2, <3>1, DivModUnique
    <3> QED BY <1>1, <1>3, <3>2
  <2>2. PICK x \in Nat : x = y % align /\ x <= align - 1
    BY <1>2, <1>3, DivMod
  <2>3. PICK q \in Nat : y = align * q + x
    BY <1>2, <1>3, <2>2, DivMod
  <2>4. PICK m \in Nat : m = y - x /\ m = align * q + 0
    <3>1. align * q \in Nat
      BY <1>2
    <3> QED BY <1>3, <2>2, <2>3, <3>1
  <2>5. m % align = 0
    <3>1. m = align * q
      BY <1>2, <2>4
    <3> QED BY <1>2, <3>1, ProductIsMultiple
  <2>6. s <= m /\ m <= s + align - 1
    BY <1>2, <1>3, <2>2, <2>4
  <2>7. m = RoundUp(s, align)
    BY <1>2, <2>5, <2>6, RoundUpIs
  <2>8. len = m
    BY <2>1, <2>2, <2>4
  <2>9. PICK z \in Nat : z = m - s /\ z \in 0 .. (Modulus - 1)
    BY <1>1, <1>2, <1>3, <1>4, <2>4, <2>6
  <2>10. (m + Modulus - s) % Modulus = z
    <3>1. m + Modulus - s = Modulus * 1 + z /\ m + Modulus - s \in Nat
      BY <1>1, <1>2, <2>9
    <3> QED BY <1>2, <2>9, <3>1, DivModUnique
  <2>11. padding_needed_for(l, align) = z
    BY <1>1, <2>8, <2>10 DEF padding_needed_for
  <2> QED BY <1>1, <2>7, <2>9, <2>11
<1>5. CASE ~(s <= MAX - (align - 1))
  <2>1. PICK x \in Nat : x = y - Modulus /\ x < align /\ x \in 0 .. (Modulus - 1)
    BY <1>1, <1>2, <1>3, <1>5
  <2>2. sum = x
    <3>1. y = Modulus * 1 + x
      BY <1>2, <1>3, <2>1
    <3>2. y % Modulus = x
      BY <1>2, <2>1, <3>1, DivModUnique
    <3> QED BY <1>1, <1>3, <3>2
  <2>3. x % align = x
    <3>1. x = align * 0 + x /\ x \in 0 .. (align - 1)
      BY <1>2, <2>1
    <3> QED BY <1>2, <3>1, DivModUnique
  <2>4. len = 0
    BY <2>1, <2>2, <2>3
  <2>5. PICK z \in Nat : z = Modulus - s /\ z \in 0 .. (Modulus - 1)
    BY <1>1, <1>2, <1>5
  <2>6. (0 + Modulus - s) % Modulus = z
    <3>1. 0 + Modulus - s = Modulus * 0 + z /\ 0 + Modulus - s \in Nat
      BY <1>1, <1>2, <2>5
    <3> QED BY <1>2, <2>5, <3>1, DivModUnique
  <2>7. padding_needed_for(l, align) = z
    BY <1>1, <2>4, <2>6 DEF padding_needed_for
  <2>8. s <= Modulus /\ Modulus <= s + align - 1
    BY <1>1, <1>2, <1>5
  <2>9. Modulus = RoundUp(s, align)
    BY <1>2, <2>8, RoundUpIs
  <2> QED BY <1>1, <1>2, <2>5, <2>7, <2>9
<1> QED BY <1>4, <1>5

-----------------------------------------------------------------------------
(***************************************************************************)
(* What the operations answer on a layout of Built.  A layout whose size   *)
(* is a multiple of its alignment is in Built whenever it fits at all,     *)
(* which is why repeat may leave out the test of from_size_align.          *)
(***************************************************************************)

\* A layout is in Built if and only if it keeps the documented invariant.
LEMMA BuiltIffFits ==
    ASSUME NEW size \in Nat, NEW align \in PowersOfTwo
    PROVE  [size |-> size, align |-> align] \in Built <=> RoundUp(size, align) <= MAX
<1>1. align \in Nat \ {0} /\ MAX \in Nat
  BY Alignments
<1>2. RoundUp(size, align) <= MAX <=> size <= MAX - (align - 1)
  BY RoundedFitsIff
<1>3. size <= MAX - (align - 1) => size \in Usize
  BY <1>1 DEF Usize
<1> QED BY <1>2, <1>3 DEF Built, Layouts

\* What is known of the fields of a layout in Built.
LEMMA BuiltFields ==
    ASSUME NEW l \in Built
    PROVE  /\ l = [size |-> l.size, align |-> l.align]
           /\ l.size \in Nat /\ l.size \in Usize /\ l.size <= MAX
           /\ l.align \in PowersOfTwo /\ l.align \in Nat \ {0}
           /\ RoundUp(l.size, l.align) \in Nat /\ RoundUp(l.size, l.align) <= MAX
<1>1. l \in [size : Usize, align : PowersOfTwo]
  BY DEF Built, Layouts
<1>2. l = [size |-> l.size, align |-> l.align] /\ l.size \in Usize /\ l.align \in PowersOfTwo
  BY <1>1
<1>3. MAX \in Nat /\ l.align \in Nat \ {0}
  BY <1>2, Alignments
<1>4. l.size \in Nat /\ l.size <= MAX
  BY <1>2, <1>3 DEF Usize
<1>5. RoundUp(l.size, l.align) <= MAX
  BY <1>2, <1>4, BuiltIffFits
<1> QED BY <1>2, <1>3, <1>4, <1>5, RoundUpIs

\* The size and alignment of a type are a layout a caller may hold.
LEMMA TypesAreBuilt ==
    ASSUME NEW T \in Types
    PROVE  T \in Built /\ RoundUp(T.size, T.align) = T.size
<1>1. T \in [size : Usize, align : PowersOfTwo] /\ T.size % T.align = 0
  BY DEF Types, Layouts
<1>2. T = [size |-> T.size, align |-> T.align] /\ T.size \in Usize /\ T.align \in PowersOfTwo
  BY <1>1
<1>3. MAX \in Nat /\ T.align \in Nat \ {0}
  BY <1>2, Alignments
<1>4. T.size \in Nat /\ T.size <= MAX
  BY <1>2, <1>3 DEF Usize
<1>5. RoundUp(T.size, T.align) = T.size
  BY <1>1, <1>3, <1>4, MultipleIsRounded
<1> QED BY <1>2, <1>4, <1>5, BuiltIffFits

\* What every operation promises: the answer is a layout of Built and no panic.
Good(answer) ==
    /\ answer.layout \in Built
    /\ answer.outcome \in {"ok", "err"}

\* from_size_align refuses exactly what is no alignment or does not fit rounded up.
LEMMA FromSizeAlign ==
    ASSUME layout \in Built, NEW size \in Nat, NEW align \in Nat
    PROVE  LET answer == from_size_align(size, align) IN
           /\ Good(answer)
           /\ answer.outcome = "err" <=> align \notin PowersOfTwo \/ RoundUp(size, align) > MAX
           /\ answer.outcome = "ok" =>
                /\ answer.layout = [size |-> size, align |-> align]
                /\ align \in PowersOfTwo
<1>1. CASE align \notin PowersOfTwo
  BY <1>1 DEF from_size_align, LayoutErr, Good
<1>2. CASE align \in PowersOfTwo
  <2>1. MAX \in Nat /\ align \in Nat \ {0}
    BY <1>2, Alignments
  <2>2. RoundUp(size, align) \in Nat
    BY <2>1, RoundUpIs
  <2>3. RoundUp(size, align) > MAX <=> size > MAX - (align - 1)
    BY <1>2, <2>1, <2>2, RoundedFitsIff
  <2>4. CASE size > MAX - (align - 1)
    BY <1>2, <2>3, <2>4 DEF from_size_align, LayoutErr, Good
  <2>5. CASE ~(size > MAX - (align - 1))
    <3>1. [size |-> size, align |-> align] \in Built
      BY <1>2, <2>1, <2>2, <2>3, <2>5, BuiltIffFits
    <3> QED BY <1>2, <2>3, <2>5, <3>1 DEF from_size_align, Answer, Good
  <2> QED BY <2>4, <2>5
<1> QED BY <1>1, <1>2

\* The size that pad_to_align and repeat compute is the size rounded up, and fits.
LEMMA PaddedSizeIs ==
    ASSUME NEW l \in Built
    PROVE  padded_size(l) = RoundUp(l.size, l.align)
BY BuiltFields, PaddingRoundsUp DEF padded_size

\* pad_to_align: the addition does not overflow and the unwrap does not fail.
LEMMA PadToAlignPads ==
    ASSUME layout \in Built, NEW l \in Built
    PROVE  /\ Good(pad_to_align(l)) /\ pad_to_align(l).outcome = "ok"
           /\ pad_to_align(l).layout = [size |-> RoundUp(l.size, l.align), align |-> l.align]
<1>1. PICK up \in Nat : up = padded_size(l) /\ up = RoundUp(l.size, l.align) /\ up <= MAX
  BY BuiltFields, PaddedSizeIs
<1>2. l.align \in PowersOfTwo /\ l.align \in Nat \ {0} /\ l.size \in Nat /\ MAX \in Nat
  BY BuiltFields, Alignments
<1>3. up % l.align = 0
  BY <1>1, <1>2, RoundUpIs
<1>4. RoundUp(up, l.align) = up
  BY <1>2, <1>3, MultipleIsRounded
<1> DEFINE answer == from_size_align(up, l.align)
<1>5. /\ Good(answer)
      /\ answer.outcome = "err" <=> l.align \notin PowersOfTwo \/ RoundUp(up, l.align) > MAX
      /\ answer.outcome = "ok" => answer.layout = [size |-> up, align |-> l.align]
  BY <1>2, FromSizeAlign
<1>6. answer.outcome = "ok"
  <2> HIDE DEF answer
  <2> QED BY <1>1, <1>2, <1>4, <1>5 DEF Good
<1>7. pad_to_align(l) = answer
  <2>1. ~(padded_size(l) > MAX) /\ from_size_align(padded_size(l), l.align) = answer
    BY <1>1, <1>2
  <2> HIDE DEF answer
  <2> QED BY <1>6, <2>1 DEF pad_to_align
<1> QED BY <1>1, <1>5, <1>6, <1>7

\* repeat: the array of n padded instances fits or is refused.
LEMMA RepeatRepeats ==
    ASSUME layout \in Built, NEW l \in Built, NEW n \in Nat
    PROVE  LET answer == repeat(l, n)
               up == RoundUp(l.size, l.align)
           IN  /\ Good(answer)
               /\ answer.outcome = "err" <=> up * n > MAX
               /\ answer.outcome = "ok" =>
                    /\ answer.layout = [size |-> up * n, align |-> l.align]
                    /\ answer.offset = up
<1>1. PICK up \in Nat : up = padded_size(l) /\ up = RoundUp(l.size, l.align) /\ up <= MAX
  BY BuiltFields, PaddedSizeIs
<1>2. /\ l.align \in PowersOfTwo /\ l.align \in Nat \ {0} /\ l.size \in Nat /\ MAX \in Nat
      /\ l = [size |-> l.size, align |-> l.align]
  BY BuiltFields, Alignments
<1>3. PICK total \in Nat : total = up * n /\ total % l.align = 0
  <2>1. up % l.align = 0
    BY <1>1, <1>2, RoundUpIs
  <2>2. PICK q \in Nat : up = l.align * q
    <3>1. up \div l.align \in Nat /\ up = l.align * (up \div l.align)
      BY <1>2, <2>1
    <3> QED BY <3>1
  <2>3. up * n = l.align * (q * n) /\ q * n \in Nat
    BY <1>2, <2>2
  <2> QED BY <1>2, <2>3, ProductIsMultiple
<1>4. RoundUp(total, l.align) = total
  BY <1>2, <1>3, MultipleIsRounded
<1>5. CASE total > MAX
  <2>1. repeat(l, n) = LayoutErr
    BY <1>1, <1>2, <1>3, <1>5 DEF repeat
  <2> QED BY <1>1, <1>3, <1>5, <2>1 DEF LayoutErr, Good
<1>6. CASE ~(total > MAX)
  <2>1. repeat(l, n) = Answer([l EXCEPT !.size = total], up)
    BY <1>1, <1>2, <1>3, <1>6 DEF repeat
  <2>2. [l EXCEPT !.size = total] = [size |-> total, align |-> l.align]
    BY <1>2
  <2>3. [size |-> total, align |-> l.align] \in Built
    BY <1>2, <1>3, <1>4, <1>6, BuiltIffFits
  <2> QED BY <1>1, <1>3, <1>6, <2>1, <2>2, <2>3 DEF Answer, Good
<1> QED BY <1>5, <1>6

\* align_to: from_size_align of the larger alignment.
LEMMA AlignToAligns ==
    ASSUME layout \in Built, NEW l \in Built, NEW align \in Nat
    PROVE  LET answer == align_to(l, align)
               larger == Max({l.align, align})
           IN  /\ Good(answer)
               /\ answer.outcome = "err" <=>
                    larger \notin PowersOfTwo \/ RoundUp(l.size, larger) > MAX
<1>1. l.size \in Nat /\ l.align \in Nat
  BY BuiltFields
<1>2. Max({l.align, align}) \in Nat
  BY <1>1, MaxOfTwo
<1> QED BY <1>1, <1>2, FromSizeAlign DEF align_to

\* A checked sum or product that overflows would not have fitted rounded up either.
LEMMA OverflowIsTooLarge ==
    ASSUME NEW size \in Nat, NEW align \in PowersOfTwo, size > MAX
    PROVE  RoundUp(size, align) > MAX
<1>1. MAX \in Nat /\ align \in Nat \ {0}
  BY Alignments
<1>2. RoundUp(size, align) \in Nat /\ size <= RoundUp(size, align)
  BY <1>1, RoundUpIs
<1> QED BY <1>1, <1>2

\* repeat_packed: what is packed fits, rounded up, or is refused.
LEMMA RepeatPackedRepeats ==
    ASSUME layout \in Built, NEW l \in Built, NEW n \in Nat
    PROVE  LET answer == repeat_packed(l, n)
           IN  /\ Good(answer)
               /\ answer.outcome = "err" <=> RoundUp(l.size * n, l.align) > MAX
<1>1. l.align \in PowersOfTwo /\ l.align \in Nat /\ l.size \in Nat
  BY BuiltFields
<1>2. PICK total \in Nat : total = l.size * n
  BY <1>1
<1>3. CASE total > MAX
  <2>1. RoundUp(total, l.align) > MAX
    BY <1>1, <1>3, OverflowIsTooLarge
  <2> QED BY <1>2, <1>3, <2>1 DEF repeat_packed, LayoutErr, Good
<1>4. CASE ~(total > MAX)
  <2>1. repeat_packed(l, n) = from_size_align(total, l.align)
    BY <1>2, <1>4 DEF repeat_packed
  <2>2. /\ Good(from_size_align(total, l.align))
        /\ from_size_align(total, l.align).outcome = "err" <=> RoundUp(total, l.align) > MAX
    BY <1>1, FromSizeAlign
  <2> QED BY <1>2, <2>1, <2>2
<1> QED BY <1>3, <1>4

\* extend_packed: likewise, aligned to the first layout only.
LEMMA ExtendPackedExtends ==
    ASSUME layout \in Built, NEW l \in Built, NEW next \in Built
    PROVE  LET answer == extend_packed(l, next)
           IN  /\ Good(answer)
               /\ answer.outcome = "err" <=> RoundUp(l.size + next.size, l.align) > MAX
<1>1. l.align \in PowersOfTwo /\ l.align \in Nat /\ l.size \in Nat /\ next.size \in Nat
  BY BuiltFields
<1>2. PICK total \in Nat : total = l.size + next.size
  BY <1>1
<1>3. CASE total > MAX
  <2>1. RoundUp(total, l.align) > MAX
    BY <1>1, <1>3, OverflowIsTooLarge
  <2> QED BY <1>2, <1>3, <2>1 DEF extend_packed, LayoutErr, Good
<1>4. CASE ~(total > MAX)
  <2>1. extend_packed(l, next) = from_size_align(total, l.align)
    BY <1>2, <1>4 DEF extend_packed
  <2>2. /\ Good(from_size_align(total, l.align))
        /\ from_size_align(total, l.align).outcome = "err" <=> RoundUp(total, l.align) > MAX
    BY <1>1, FromSizeAlign
  <2> QED BY <1>2, <2>1, <2>2
<1> QED BY <1>3, <1>4

\* The larger of two alignments is an alignment that both divide.
LEMMA LargerAlignment ==
    ASSUME NEW p \in PowersOfTwo, NEW q \in PowersOfTwo
    PROVE  /\ Max({p, q}) \in PowersOfTwo
           /\ Max({p, q}) % p = 0 /\ Max({p, q}) % q = 0
<1>1. p \in Nat /\ q \in Nat
  BY Alignments
<1>2. Max({p, q}) = IF p <= q THEN q ELSE p
  BY <1>1, MaxOfTwo
<1>3. p <= p /\ q <= q
  BY <1>1
<1>4. CASE p <= q
  BY <1>2, <1>3, <1>4, Alignments
<1>5. CASE ~(p <= q)
  <2>1. q <= p
    BY <1>1, <1>5
  <2> QED BY <1>2, <1>3, <1>5, <2>1, Alignments
<1> QED BY <1>4, <1>5

\* extend: the second layout begins at the first address behind that is aligned to it,
\* and the whole fits, rounded up to the larger alignment, or is refused.
LEMMA ExtendExtends ==
    ASSUME layout \in Built, NEW l \in Built, NEW next \in Built
    PROVE  LET answer == extend(l, next)
               at == RoundUp(l.size, next.align)
               larger == Max({l.align, next.align})
           IN  /\ Good(answer)
               /\ answer.outcome = "err" <=> RoundUp(at + next.size, larger) > MAX
               /\ answer.outcome = "ok" =>
                    /\ answer.layout = [size |-> at + next.size, align |-> larger]
                    /\ answer.offset = at
<1>1. /\ l.align \in PowersOfTwo /\ l.size \in Nat /\ l.size \in Usize
      /\ next.align \in PowersOfTwo /\ next.align \in Nat \ {0} /\ next.size \in Nat
  BY BuiltFields
<1>2. PICK at \in Nat : /\ at = RoundUp(l.size, next.align)
                        /\ at = l.size + padding_needed_for(l, next.align)
  <2>1. RoundUp(l.size, next.align) \in Nat
    BY <1>1, RoundUpIs
  <2>2. l.size + padding_needed_for(l, next.align) = RoundUp(l.size, next.align)
    BY <1>1, PaddingRoundsUp
  <2> QED BY <2>1, <2>2
<1>3. PICK larger \in PowersOfTwo : larger = Max({l.align, next.align})
  BY <1>1, LargerAlignment
<1>4. PICK total \in Nat : total = at + next.size
  BY <1>1
<1>5. MAX \in Nat /\ larger \in Nat \ {0}
  BY Alignments
<1>6. CASE at > MAX \/ total > MAX
  <2>1. total > MAX
    BY <1>1, <1>4, <1>5, <1>6
  <2>2. RoundUp(total, larger) > MAX
    BY <2>1, OverflowIsTooLarge
  <2>3. extend(l, next) = LayoutErr
    BY <1>2, <1>4, <1>6 DEF extend
  <2> QED BY <1>2, <1>3, <1>4, <2>2, <2>3 DEF LayoutErr, Good
<1>7. CASE ~(at > MAX \/ total > MAX)
  <2>1. extend(l, next) = [from_size_align(total, larger) EXCEPT !.offset = at]
    BY <1>2, <1>3, <1>4, <1>7 DEF extend
  <2>2. PICK a : a = from_size_align(total, larger)
    OBVIOUS
  <2>3. a = [layout |-> a.layout, offset |-> a.offset, outcome |-> a.outcome]
    BY <2>2 DEF from_size_align, LayoutErr, Answer
  <2>4. extend(l, next) = [layout |-> a.layout, offset |-> at, outcome |-> a.outcome]
    BY <2>1, <2>2, <2>3
  <2>5. /\ Good(a)
        /\ a.outcome = "err" <=> larger \notin PowersOfTwo \/ RoundUp(total, larger) > MAX
        /\ a.outcome = "ok" => a.layout = [size |-> total, align |-> larger]
    BY <1>5, <2>2, FromSizeAlign
  <2> QED BY <1>2, <1>3, <1>4, <2>4, <2>5 DEF Good
<1> QED BY <1>6, <1>7

\* array: the debug assertion holds, and padding adds nothing to what repeat answers.
LEMMA ArrayIsInPlace ==
    ASSUME layout \in Built, NEW T \in Types, NEW n \in Nat
    PROVE  LET answer == array(T, n)
           IN  /\ Good(answer)
               /\ answer.outcome = "err" <=> T.size * n > MAX
               /\ answer.outcome = "ok" => answer.layout.size = n * T.size
<1>1. T \in Built /\ RoundUp(T.size, T.align) = T.size
  BY TypesAreBuilt
<1>2. T.size \in Nat /\ T.align \in Nat \ {0} /\ T.align \in PowersOfTwo
  BY <1>1, BuiltFields
<1>3. PICK elements : elements = repeat(T, n)
  OBVIOUS
<1>4. /\ Good(elements)
      /\ elements.outcome = "err" <=> T.size * n > MAX
      /\ elements.outcome = "ok" =>
            /\ elements.layout = [size |-> T.size * n, align |-> T.align]
            /\ elements.offset = T.size
  BY <1>1, <1>3, RepeatRepeats
<1>5. CASE elements.outcome # "ok"
  <2>1. array(T, n) = elements
    BY <1>3, <1>5 DEF array
  <2> QED BY <1>4, <1>5, <2>1
<1>6. CASE elements.outcome = "ok"
  <2>1. array(T, n) = pad_to_align(elements.layout)
    BY <1>3, <1>4, <1>6 DEF array
  <2>2. elements.layout \in Built
    BY <1>4 DEF Good
  <2>3. /\ Good(array(T, n)) /\ array(T, n).outcome = "ok"
        /\ array(T, n).layout.size = RoundUp(T.size * n, T.align)
    <3>1. PICK e \in Built : e = elements.layout
      BY <2>2
    <3>2. e.size = T.size * n /\ e.align = T.align
      BY <1>4, <1>6, <3>1
    <3>3. PICK padded : padded = pad_to_align(e)
      OBVIOUS
    <3>4. /\ Good(padded) /\ padded.outcome = "ok"
          /\ padded.layout = [size |-> RoundUp(e.size, e.align), align |-> e.align]
      BY <3>3, PadToAlignPads
    <3>5. padded.layout.size = RoundUp(T.size * n, T.align)
      BY <3>2, <3>4
    <3> QED BY <2>1, <3>1, <3>3, <3>4, <3>5
  <2>4. T.size * n \in Nat /\ (T.size * n) % T.align = 0 /\ T.size * n = n * T.size
    <3>1. T.size % T.align = 0
      BY DEF Types
    <3>2. PICK q \in Nat : T.size = T.align * q
      <4>1. T.size \div T.align \in Nat /\ T.size = T.align * (T.size \div T.align)
        BY <1>2, <3>1
      <4> QED BY <4>1
    <3>3. T.size * n = T.align * (q * n) /\ q * n \in Nat
      BY <1>2, <3>2
    <3>4. T.size * n = n * T.size
      BY <1>2
    <3> QED BY <1>2, <3>3, <3>4, ProductIsMultiple
  <2>5. RoundUp(T.size * n, T.align) = T.size * n
    BY <1>2, <2>4, MultipleIsRounded
  <2>6. array(T, n).outcome = "err" <=> T.size * n > MAX
    BY <1>4, <1>6, <2>3
  <2> QED BY <2>3, <2>4, <2>5, <2>6
<1> QED BY <1>5, <1>6 DEF Good

-----------------------------------------------------------------------------
(***************************************************************************)
(* The invariant: the layout of the caller stays in Built, where the       *)
(* lemmas above say what the next operation answers.                       *)
(***************************************************************************)
Inv ==
    /\ layout \in Built
    /\ outcome \in {"ok", "err"}
    /\ ErrIffTooLarge
    /\ PartsInPlace

\* What Return assigns, apart from the two properties of the call.
LEMMA ReturnKeeps ==
    ASSUME NEW answer, NEW name, NEW arg, Return(answer, name, arg), Good(answer)
    PROVE  /\ layout' \in Built /\ outcome' \in {"ok", "err"}
           /\ layout' = answer.layout /\ outcome' = answer.outcome /\ offset' = answer.offset
           /\ self' = layout /\ call'[1] = name /\ call'[2] = arg
<1>1. layout' \in Built'
  BY DEF Return, Good
<1> QED BY <1>1 DEF Return, Good

\* The first layout of a caller is that of a type.
LEMMA InitInv == Init => Inv
<1> SUFFICES ASSUME Init PROVE Inv
  OBVIOUS
<1>1. layout \in Built /\ outcome = "ok"
  BY TypesAreBuilt DEF Init
<1>2. call[1] = "new"
  BY DEF Init
<1> QED BY <1>1, <1>2 DEF Inv, ErrIffTooLarge, PartsInPlace

(***************************************************************************)
(* Every operation keeps the invariant, and its answer is what the two     *)
(* properties of the call say.                                             *)
(***************************************************************************)

\* from_size_align.
LEMMA CreateKeepsInv ==
    ASSUME Inv, NEW size \in Usize, NEW align \in Usize, Create(size, align)
    PROVE  Inv'
<1>1. layout \in Built /\ size \in Nat /\ align \in Nat
  BY Alignments DEF Inv, Usize
<1> DEFINE answer == from_size_align(size, align)
<1> DEFINE arg == [size |-> size, align |-> align]
<1>2. /\ Good(answer)
      /\ answer.outcome = "err" <=> align \notin PowersOfTwo \/ RoundUp(size, align) > MAX
  BY <1>1, FromSizeAlign
<1>3. Return(answer, "from_size_align", arg)
  BY DEF Create
<1> HIDE DEF answer
<1>4. /\ layout' \in Built /\ outcome' \in {"ok", "err"}
      /\ outcome' = answer.outcome /\ call'[1] = "from_size_align" /\ call'[2] = arg
  BY <1>2, <1>3, ReturnKeeps
<1>5. ErrIffTooLarge'
  BY <1>2, <1>4 DEF ErrIffTooLarge
<1>6. PartsInPlace'
  BY <1>4 DEF PartsInPlace
<1> QED BY <1>4, <1>5, <1>6 DEF Inv

\* align_to.
LEMMA AlignToKeepsInv ==
    ASSUME Inv, NEW align \in Usize, AlignTo(align)
    PROVE  Inv'
<1>1. layout \in Built /\ align \in Nat
  BY Alignments DEF Inv, Usize
<1> DEFINE answer == align_to(layout, align)
<1>2. /\ Good(answer)
      /\ answer.outcome = "err" <=>
            \/ Max({layout.align, align}) \notin PowersOfTwo
            \/ RoundUp(layout.size, Max({layout.align, align})) > MAX
  BY <1>1, AlignToAligns
<1>3. Return(answer, "align_to", align)
  BY DEF AlignTo
<1> HIDE DEF answer
<1>4. /\ layout' \in Built /\ outcome' \in {"ok", "err"}
      /\ layout' = answer.layout /\ outcome' = answer.outcome /\ offset' = answer.offset
      /\ self' = layout /\ call'[1] = "align_to" /\ call'[2] = align
  BY <1>2, <1>3, ReturnKeeps
<1>5. ErrIffTooLarge'
  BY <1>2, <1>4 DEF ErrIffTooLarge
<1>6. PartsInPlace'
  BY <1>2, <1>4 DEF PartsInPlace
<1> QED BY <1>4, <1>5, <1>6 DEF Inv

\* pad_to_align.
LEMMA PadToAlignKeepsInv ==
    ASSUME Inv, PadToAlign
    PROVE  Inv'
<1>1. layout \in Built
  BY DEF Inv
<1> DEFINE answer == pad_to_align(layout)
<1>2. /\ Good(answer)
      /\ answer.layout = [size |-> RoundUp(layout.size, layout.align), align |-> layout.align]
  BY <1>1, PadToAlignPads
<1>3. Return(answer, "pad_to_align", 0)
  BY DEF PadToAlign
<1> HIDE DEF answer
<1>4. /\ layout' \in Built /\ outcome' \in {"ok", "err"}
      /\ layout' = answer.layout /\ outcome' = answer.outcome /\ offset' = answer.offset
      /\ self' = layout /\ call'[1] = "pad_to_align" /\ call'[2] = 0
  BY <1>2, <1>3, ReturnKeeps
<1>5. ErrIffTooLarge'
  BY <1>2, <1>4 DEF ErrIffTooLarge
<1>6. PartsInPlace'
  BY <1>2, <1>4 DEF PartsInPlace
<1> QED BY <1>4, <1>5, <1>6 DEF Inv

\* repeat.
LEMMA RepeatKeepsInv ==
    ASSUME Inv, NEW n \in Counts, Repeat(n)
    PROVE  Inv'
<1>1. layout \in Built /\ n \in Nat
  BY WidthAssumption DEF Inv, WidthAssumption
<1> DEFINE answer == repeat(layout, n)
<1>2. /\ Good(answer)
      /\ answer.outcome = "err" <=> RoundUp(layout.size, layout.align) * n > MAX
      /\ answer.outcome = "ok" =>
            /\ answer.layout = [size |-> RoundUp(layout.size, layout.align) * n,
                                align |-> layout.align]
            /\ answer.offset = RoundUp(layout.size, layout.align)
  BY <1>1, RepeatRepeats
<1>3. Return(answer, "repeat", n)
  BY DEF Repeat
<1> HIDE DEF answer
<1>4. /\ layout' \in Built /\ outcome' \in {"ok", "err"}
      /\ layout' = answer.layout /\ outcome' = answer.outcome /\ offset' = answer.offset
      /\ self' = layout /\ call'[1] = "repeat" /\ call'[2] = n
  BY <1>2, <1>3, ReturnKeeps
<1>5. ErrIffTooLarge'
  BY <1>2, <1>4 DEF ErrIffTooLarge
<1>6. PartsInPlace'
  <2> SUFFICES ASSUME outcome' = "ok" PROVE PartsInPlace'
    BY DEF PartsInPlace
  <2>1. offset' = RoundUp(layout.size, layout.align) /\ layout'.size = offset' * n
    BY <1>2, <1>4
  <2>2. RoundUp(layout.size, layout.align) \in Nat
    BY <1>1, BuiltFields
  <2>3. layout'.size = n * offset'
    BY <1>1, <2>1, <2>2
  <2> QED BY <1>4, <2>1, <2>3 DEF PartsInPlace
<1> QED BY <1>4, <1>5, <1>6 DEF Inv

\* repeat_packed.
LEMMA RepeatPackedKeepsInv ==
    ASSUME Inv, NEW n \in Counts, RepeatPacked(n)
    PROVE  Inv'
<1>1. layout \in Built /\ n \in Nat
  BY WidthAssumption DEF Inv, WidthAssumption
<1> DEFINE answer == repeat_packed(layout, n)
<1>2. /\ Good(answer)
      /\ answer.outcome = "err" <=> RoundUp(layout.size * n, layout.align) > MAX
  BY <1>1, RepeatPackedRepeats
<1>3. Return(answer, "repeat_packed", n)
  BY DEF RepeatPacked
<1> HIDE DEF answer
<1>4. /\ layout' \in Built /\ outcome' \in {"ok", "err"}
      /\ layout' = answer.layout /\ outcome' = answer.outcome /\ offset' = answer.offset
      /\ self' = layout /\ call'[1] = "repeat_packed" /\ call'[2] = n
  BY <1>2, <1>3, ReturnKeeps
<1>5. ErrIffTooLarge'
  BY <1>2, <1>4 DEF ErrIffTooLarge
<1>6. PartsInPlace'
  BY <1>2, <1>4 DEF PartsInPlace
<1> QED BY <1>4, <1>5, <1>6 DEF Inv

\* extend.
LEMMA ExtendKeepsInv ==
    ASSUME Inv, NEW next \in Built, Extend(next)
    PROVE  Inv'
<1>1. layout \in Built
  BY DEF Inv
<1> DEFINE answer == extend(layout, next)
<1>2. /\ Good(answer)
      /\ answer.outcome = "err" <=>
            RoundUp(RoundUp(layout.size, next.align) + next.size,
                    Max({layout.align, next.align})) > MAX
      /\ answer.outcome = "ok" =>
            /\ answer.layout = [size |-> RoundUp(layout.size, next.align) + next.size,
                                align |-> Max({layout.align, next.align})]
            /\ answer.offset = RoundUp(layout.size, next.align)
  BY <1>1, ExtendExtends
<1>3. Return(answer, "extend", next)
  BY DEF Extend
<1> HIDE DEF answer
<1>4. /\ layout' \in Built /\ outcome' \in {"ok", "err"}
      /\ layout' = answer.layout /\ outcome' = answer.outcome /\ offset' = answer.offset
      /\ self' = layout /\ call'[1] = "extend" /\ call'[2] = next
  BY <1>2, <1>3, ReturnKeeps
<1>5. ErrIffTooLarge'
  BY <1>2, <1>4 DEF ErrIffTooLarge
<1>6. PartsInPlace'
  <2> SUFFICES ASSUME outcome' = "ok" PROVE PartsInPlace'
    BY DEF PartsInPlace
  <2>1. /\ offset' = RoundUp(layout.size, next.align)
        /\ layout'.size = offset' + next.size
        /\ layout'.align = Max({layout.align, next.align})
    BY <1>2, <1>4
  <2>2. layout.align \in PowersOfTwo /\ next.align \in PowersOfTwo
    BY <1>1, BuiltFields
  <2>3. layout'.align % layout.align = 0 /\ layout'.align % next.align = 0
    BY <2>1, <2>2, LargerAlignment
  <2> QED BY <1>4, <2>1, <2>3 DEF PartsInPlace
<1> QED BY <1>4, <1>5, <1>6 DEF Inv

\* extend_packed.
LEMMA ExtendPackedKeepsInv ==
    ASSUME Inv, NEW next \in Built, ExtendPacked(next)
    PROVE  Inv'
<1>1. layout \in Built
  BY DEF Inv
<1> DEFINE answer == extend_packed(layout, next)
<1>2. /\ Good(answer)
      /\ answer.outcome = "err" <=> RoundUp(layout.size + next.size, layout.align) > MAX
  BY <1>1, ExtendPackedExtends
<1>3. Return(answer, "extend_packed", next)
  BY DEF ExtendPacked
<1> HIDE DEF answer
<1>4. /\ layout' \in Built /\ outcome' \in {"ok", "err"}
      /\ layout' = answer.layout /\ outcome' = answer.outcome /\ offset' = answer.offset
      /\ self' = layout /\ call'[1] = "extend_packed" /\ call'[2] = next
  BY <1>2, <1>3, ReturnKeeps
<1>5. ErrIffTooLarge'
  BY <1>2, <1>4 DEF ErrIffTooLarge
<1>6. PartsInPlace'
  BY <1>2, <1>4 DEF PartsInPlace
<1> QED BY <1>4, <1>5, <1>6 DEF Inv

\* array.
LEMMA ArrayKeepsInv ==
    ASSUME Inv, NEW T \in Types, NEW n \in Counts, Array(T, n)
    PROVE  Inv'
<1>1. layout \in Built /\ n \in Nat
  BY WidthAssumption DEF Inv, WidthAssumption
<1> DEFINE answer == array(T, n)
<1>2. /\ Good(answer)
      /\ answer.outcome = "err" <=> T.size * n > MAX
      /\ answer.outcome = "ok" => answer.layout.size = n * T.size
  BY <1>1, ArrayIsInPlace
<1>3. Return(answer, "array", [size |-> T.size, align |-> T.align, n |-> n])
  BY DEF Array
<1> HIDE DEF answer
<1>4. /\ layout' \in Built /\ outcome' \in {"ok", "err"}
      /\ layout' = answer.layout /\ outcome' = answer.outcome /\ offset' = answer.offset
      /\ self' = layout /\ call'[1] = "array" /\ call'[2] = [size |-> T.size, align |-> T.align, n |-> n]
  BY <1>2, <1>3, ReturnKeeps
<1>5. ErrIffTooLarge'
  <2>1. call'[2].size = T.size /\ call'[2].n = n
    BY <1>4
  <2> QED BY <1>2, <1>4, <2>1 DEF ErrIffTooLarge
<1>6. PartsInPlace'
  BY <1>2, <1>4 DEF PartsInPlace
<1> QED BY <1>4, <1>5, <1>6 DEF Inv

\* A call, or no step, keeps the invariant.
LEMMA NextKeepsInv == Inv /\ [Next]_vars => Inv'
<1> SUFFICES ASSUME Inv, [Next]_vars PROVE Inv'
  OBVIOUS
<1>1. CASE UNCHANGED vars
  <2>1. layout' \in Built /\ outcome' \in {"ok", "err"}
    BY <1>1 DEF Inv, vars
  <2>2. ErrIffTooLarge'
    BY <1>1 DEF Inv, vars, ErrIffTooLarge
  <2>3. PartsInPlace'
    BY <1>1 DEF Inv, vars, PartsInPlace
  <2> QED BY <2>1, <2>2, <2>3 DEF Inv
<1>2. ASSUME NEW size \in Usize, NEW align \in Usize, Create(size, align) PROVE Inv'
  BY <1>2, CreateKeepsInv
<1>3. ASSUME NEW align \in Usize, AlignTo(align) PROVE Inv'
  BY <1>3, AlignToKeepsInv
<1>4. CASE PadToAlign
  BY <1>4, PadToAlignKeepsInv
<1>5. ASSUME NEW n \in Counts, Repeat(n) \/ RepeatPacked(n) PROVE Inv'
  BY <1>5, RepeatKeepsInv, RepeatPackedKeepsInv
<1>6. ASSUME NEW next \in Built, Extend(next) \/ ExtendPacked(next) PROVE Inv'
  BY <1>6, ExtendKeepsInv, ExtendPackedKeepsInv
<1>7. ASSUME NEW T \in Types, NEW n \in Counts, Array(T, n) PROVE Inv'
  BY <1>7, ArrayKeepsInv
<1> QED BY <1>1, <1>2, <1>3, <1>4, <1>5, <1>6, <1>7 DEF Next

-----------------------------------------------------------------------------
(***************************************************************************)
(* Theorems, for every width of a usize and any number of repetitions.     *)
(***************************************************************************)

\* The invariant holds in every state.
THEOREM InvariantHolds == Spec => []Inv
<1>1. Init => Inv
  BY InitInv
<1>2. Inv /\ [Next]_vars => Inv'
  BY NextKeepsInv
<1> QED BY <1>1, <1>2, PTL DEF Spec

\* Every layout that a sequence of calls builds keeps the documented invariant of
\* Layout, the ones that repeat and Layout::new build without the test included.
THEOREM LayoutsFit == Spec => []RoundedUpFits
<1>1. Inv => RoundedUpFits
  BY BuiltFields DEF Inv, RoundedUpFits, Built
<1> QED BY <1>1, InvariantHolds, PTL

\* No operation panics: the additions the code calls safe do not overflow, the unwrap of
\* pad_to_align finds a layout, and the assertion of array holds.
THEOREM NothingPanics == Spec => []NoPanic
<1>1. Inv => NoPanic
  BY DEF Inv, NoPanic
<1> QED BY <1>1, InvariantHolds, PTL

\* An operation refuses exactly the layouts that would not fit, although it computes in
\* wrapping arithmetic and tests before it rounds.
THEOREM RefusesWhatIsTooLarge == Spec => []ErrIffTooLarge
<1>1. Inv => ErrIffTooLarge
  BY DEF Inv
<1> QED BY <1>1, InvariantHolds, PTL

\* repeat, extend, pad_to_align and array put the parts where they belong.
THEOREM PartsAreInPlace == Spec => []PartsInPlace
<1>1. Inv => PartsInPlace
  BY DEF Inv
<1> QED BY <1>1, InvariantHolds, PTL
=============================================================================
