----------------------------- MODULE Arithmetic -----------------------------
(***************************************************************************)
(* Facts about natural numbers that the proofs of several components use:  *)
(* quotient and remainder, and the least element of a set.                 *)
(***************************************************************************)
EXTENDS FiniteSetsExt, WellFoundedInduction, TLAPS

\* What quotient and remainder are.
LEMMA DivMod ==
    ASSUME NEW n \in Nat, NEW m \in Nat \ {0}
    PROVE  /\ n \div m \in Nat /\ n % m \in Nat /\ n % m < m
           /\ n = m * (n \div m) + (n % m)
OBVIOUS

\* Quotient and remainder are unique.
LEMMA DivModUnique ==
    ASSUME NEW n \in Nat, NEW m \in Nat \ {0}, NEW q \in Nat, NEW r \in 0 .. (m - 1),
           n = m * q + r
    PROVE  n \div m = q /\ n % m = r
<1>1. n \div m = q
  OBVIOUS
<1>2. n % m = r
  OBVIOUS
<1> QED BY <1>1, <1>2

\* A product is a multiple of its factors.
LEMMA ProductIsMultiple ==
    ASSUME NEW m \in Nat \ {0}, NEW q \in Nat
    PROVE  m * q \in Nat /\ (m * q) % m = 0
<1>1. m * q \in Nat /\ m * q = m * q + 0 /\ 0 \in 0 .. (m - 1)
  OBVIOUS
<1> QED BY <1>1, DivModUnique

\* The sum of two multiples is a multiple.
LEMMA SumOfMultiples ==
    ASSUME NEW a \in Nat, NEW b \in Nat, NEW m \in Nat \ {0}, a % m = 0, b % m = 0
    PROVE  (a + b) % m = 0
<1>1. a \div m \in Nat /\ a = m * (a \div m)
  OBVIOUS
<1>2. b \div m \in Nat /\ b = m * (b \div m)
  OBVIOUS
<1>3. PICK p \in Nat, q \in Nat : a = m * p /\ b = m * q
  BY <1>1, <1>2
<1>4. a + b = m * (p + q) + 0 /\ a + b \in Nat /\ p + q \in Nat /\ 0 \in 0 .. (m - 1)
  BY <1>3
<1> QED BY <1>4, DivModUnique

\* A multiple of a multiple is a multiple.
LEMMA MultipleOfMultiple ==
    ASSUME NEW a \in Nat, NEW b \in Nat \ {0}, NEW m \in Nat \ {0}, a % b = 0, b % m = 0
    PROVE  a % m = 0
<1>1. a \div b \in Nat /\ a = b * (a \div b)
  OBVIOUS
<1>2. b \div m \in Nat /\ b = m * (b \div m)
  OBVIOUS
<1>3. PICK p \in Nat, q \in Nat : a = b * p /\ b = m * q
  BY <1>1, <1>2
<1>4. a = m * (q * p) /\ q * p \in Nat
  BY <1>3
<1> QED BY <1>4, ProductIsMultiple

\* The multiple at or below the sum is the number rounded up.
LEMMA RoundingUp ==
    ASSUME NEW n \in Nat, NEW m \in Nat \ {0}
    PROVE  LET up == (n + m - 1) - ((n + m - 1) % m)
           IN  /\ up \in Nat /\ n <= up /\ up <= n + m - 1 /\ up % m = 0
               /\ n % m = 0 => up = n
<1> DEFINE sum == n + m - 1
<1>1. sum \in Nat
  OBVIOUS
<1>2. PICK q \in Nat, r \in Nat : sum = m * q + r /\ r = sum % m /\ r <= m - 1
  <2>1. sum \div m \in Nat /\ sum % m \in Nat /\ sum % m < m
        /\ sum = m * (sum \div m) + (sum % m)
    BY <1>1, DivMod
  <2> QED BY <2>1
<1>3. PICK up \in Nat : up = m * q
  OBVIOUS
<1>4. sum - (sum % m) = up
  BY <1>1, <1>2, <1>3
<1>5. up % m = 0
  BY <1>3, ProductIsMultiple
<1>6. n <= up /\ up <= sum
  BY <1>2, <1>3
<1>7. ASSUME n % m = 0 PROVE up = n
  <2>1. n \div m \in Nat /\ n = m * (n \div m)
    BY <1>7
  <2>2. PICK p \in Nat : n = m * p
    BY <2>1
  <2>3. sum = m * p + (m - 1) /\ m - 1 \in 0 .. (m - 1)
    BY <2>2
  <2>4. sum % m = m - 1
    BY <1>1, <2>3, DivModUnique
  <2> QED BY <1>4, <2>4
<1> QED BY <1>4, <1>5, <1>6, <1>7

\* A set of naturals that is not empty has a least element, and it is Min.
LEMMA MinIsLeast ==
    ASSUME NEW S \in SUBSET Nat, S # {}
    PROVE  Min(S) \in S /\ \A n \in S : Min(S) <= n
<1> DEFINE less == {p \in Nat \X Nat : p[1] < p[2]}
<1>1. IsWellFoundedOn(less, Nat)
  BY NatLessThanWellFounded DEF OpToRel
<1>2. \E m \in S : \A n \in S : ~(<<n, m>> \in less)
  <2> HIDE DEF less
  <2> QED BY <1>1, WFMin
<1>3. PICK m \in S : \A n \in S : ~(<<n, m>> \in less)
  BY <1>2
<1>4. ASSUME NEW n \in S PROVE m <= n
  <2>1. n \in Nat /\ m \in Nat /\ ~(<<n, m>> \in less)
    BY <1>3
  <2> QED BY <2>1
<1> QED BY <1>4 DEF Min

\* The larger of two numbers.
LEMMA MaxOfTwo ==
    ASSUME NEW a \in Nat, NEW b \in Nat
    PROVE  Max({a, b}) = IF a <= b THEN b ELSE a
<1>1. \E x \in {a, b} : \A y \in {a, b} : x >= y
  OBVIOUS
<1>2. Max({a, b}) \in {a, b} /\ \A y \in {a, b} : Max({a, b}) >= y
  BY <1>1 DEF Max
<1> QED BY <1>2
=============================================================================
