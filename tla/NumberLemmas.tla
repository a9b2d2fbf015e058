----------------------------- MODULE NumberLemmas -----------------------------
(***************************************************************************)
(* Lemmas on numbers that the proofs about several components share:       *)
(* remainders, for counters that wrap, with n the number of values a       *)
(* counter can hold; induction, for what a loop computes.                  *)
(***************************************************************************)
EXTENDS Integers, FiniteSetTheorems, FunctionTheorems, NaturalsInduction, TLAPS

-------------------------------------------------------------------------------
(* Remainders                                                              *)

\* The defining equation of quotient and remainder.
LEMMA ModDivision ==
  ASSUME NEW n \in Nat \ {0}, NEW x \in Int
  PROVE  /\ x \div n \in Int /\ x % n \in 0 .. n - 1
         /\ x = (x \div n) * n + (x % n)
OBVIOUS

\* A multiple of n that is smaller than n either way is 0.
LEMMA SmallMultiple ==
  ASSUME NEW n \in Nat \ {0}, NEW k \in Int, k * n \in 1 - n .. n - 1
  PROVE  k = 0
<1>1. CASE k >= 1
  <2>1. k = 1 + (k - 1) /\ k - 1 \in Nat
    BY <1>1
  <2>2. k * n = n + (k - 1) * n /\ (k - 1) * n >= 0
    BY <2>1
  <2>. QED  BY <2>2
<1>2. CASE k <= -1
  <2>1. k * n = -n - (-k - 1) * n /\ (-k - 1) * n >= 0
    BY <1>2
  <2>. QED  BY <2>1
<1>. QED  BY <1>1, <1>2

\* Quotient and remainder are determined by the number they add up to.
LEMMA ModUnique ==
  ASSUME NEW n \in Nat \ {0}, NEW q \in Int, NEW r \in 0 .. n - 1
  PROVE  (q * n + r) % n = r
<1>1. PICK x \in Int, a \in Int : a = q * n /\ x = a + r
  OBVIOUS
<1>2. PICK p \in Int, s \in 0 .. n - 1 : s = x % n /\ x = p * n + s
  BY ModDivision
<1>3. PICK b \in Int : b = p * n
  OBVIOUS
<1>4. (q - p) * n = a - b
  BY <1>1, <1>3
<1>5. a - b = s - r
  BY <1>1, <1>2, <1>3
<1>6. q - p \in Int /\ (q - p) * n \in 1 - n .. n - 1
  BY <1>4, <1>5
<1>7. q - p = 0
  BY <1>6, SmallMultiple
<1>8. s = r
  BY <1>4, <1>5, <1>7
<1>. QED  BY <1>1, <1>2, <1>8

\* A number that fits is its own remainder.
LEMMA ModSmall ==
  ASSUME NEW n \in Nat \ {0}, NEW x \in 0 .. n - 1 PROVE x % n = x
<1>1. (0 * n + x) % n = x /\ 0 * n + x = x
  BY ModUnique
<1>. QED  BY <1>1

\* Numbers that differ by a multiple of n have the same remainder.
LEMMA ModShift ==
  ASSUME NEW n \in Nat \ {0}, NEW x \in Int, NEW k \in Int
  PROVE  (x + k * n) % n = x % n
<1>1. PICK p \in Int, r \in 0 .. n - 1 : r = x % n /\ x = p * n + r
  BY ModDivision
<1>2. PICK m \in Int, a \in Int, b \in Int : m = p + k /\ a = p * n /\ b = k * n
  OBVIOUS
<1>3. m * n = a + b
  BY <1>2
<1>4. x + b = (a + b) + r
  BY <1>1, <1>2
<1>5. x + k * n = m * n + r
  BY <1>2, <1>3, <1>4
<1>6. (m * n + r) % n = r
  BY ModUnique
<1>. QED  BY <1>1, <1>5, <1>6

\* The remainder may be taken before an addition, or not.
LEMMA ModSum ==
  ASSUME NEW n \in Nat \ {0}, NEW x \in Int, NEW y \in Int
  PROVE  ((x % n) + y) % n = (x + y) % n
<1>1. PICK p \in Int, r \in 0 .. n - 1 : r = x % n /\ x = p * n + r
  BY ModDivision
<1>2. PICK z \in Int : z = x + y
  OBVIOUS
<1>3. PICK t \in Int : t = r + y
  OBVIOUS
<1>4. z = t + p * n
  <2>1. PICK a \in Int : a = p * n
    OBVIOUS
  <2>2. x = a + r
    BY <1>1, <2>1
  <2>3. z = t + a
    BY <1>2, <1>3, <2>2
  <2>. QED  BY <2>1, <2>3
<1>5. (t + p * n) % n = t % n
  BY ModShift
<1>. QED  BY <1>1, <1>2, <1>3, <1>4, <1>5

\* The remainder may be taken of what is subtracted, or not.
LEMMA ModDifference ==
  ASSUME NEW n \in Nat \ {0}, NEW x \in Int, NEW y \in Int
  PROVE  (x - (y % n)) % n = (x - y) % n
<1>1. PICK q \in Int, s \in 0 .. n - 1 : s = y % n /\ y = q * n + s
  BY ModDivision
<1>2. PICK z \in Int : z = x - y
  OBVIOUS
<1>3. PICK t \in Int : t = x - s
  OBVIOUS
<1>4. t = z + q * n
  <2>1. PICK a \in Int : a = q * n
    OBVIOUS
  <2>2. y = a + s
    BY <1>1, <2>1
  <2>3. t = z + a
    BY <1>2, <1>3, <2>2
  <2>. QED  BY <2>1, <2>3
<1>5. (z + q * n) % n = z % n
  BY ModShift
<1>. QED  BY <1>1, <1>2, <1>3, <1>4, <1>5

\* The remainder may be taken before a multiplication, or not.
LEMMA ModProduct ==
  ASSUME NEW n \in Nat \ {0}, NEW x \in Int, NEW k \in Int
  PROVE  ((x % n) * k) % n = (x * k) % n
<1>1. PICK p \in Int, r \in 0 .. n - 1 : r = x % n /\ x = p * n + r
  BY ModDivision
<1>2. PICK m \in Int, t \in Int : m = p * k /\ t = r * k
  OBVIOUS
<1>3. m * n = (p * n) * k
  BY <1>2
<1>4. x * k = t + m * n
  BY <1>1, <1>2, <1>3
<1>5. (t + m * n) % n = t % n
  BY ModShift
<1>. QED  BY <1>1, <1>2, <1>4, <1>5

\* One more, counted modulo n: either no wrap or one.
LEMMA ModIncrement ==
  ASSUME NEW n \in Nat \ {0}, NEW x \in 0 .. n - 1
  PROVE  (x + 1) % n \in 0 .. n - 1 /\ (x + 1) % n \in {x + 1, x + 1 - n}
<1>1. CASE x + 1 = n
  <2>1. n % n = 0
    OBVIOUS
  <2>. QED  BY <1>1, <2>1
<1>2. CASE x + 1 # n
  <2>1. x + 1 \in 0 .. n - 1
    BY <1>2
  <2>2. (x + 1) % n = x + 1
    BY <2>1, ModSmall
  <2>. QED  BY <2>1, <2>2
<1>. QED  BY <1>1, <1>2

\* A wrap of n does not show in a remainder by a divisor of n.
LEMMA ModWrap ==
  ASSUME NEW m \in Nat \ {0}, NEW k \in Nat, NEW n \in Nat, n = k * m,
         NEW x \in Int, NEW y \in Int, y \in {x, x - n}
  PROVE  y % m = x % m
<1>1. CASE y = x
  BY <1>1
<1>2. CASE y = x - n
  <2>1. PICK j \in Int : j = -k
    OBVIOUS
  <2>2. j * m = -n
    BY <2>1
  <2>3. (x + j * m) % m = x % m
    BY ModShift
  <2>. QED  BY <1>2, <2>2, <2>3
<1>. QED  BY <1>1, <1>2

\* The same for n itself.
LEMMA ModOnce ==
  ASSUME NEW n \in Nat \ {0}, NEW x \in Int, NEW y \in Int, y \in {x, x - n}
  PROVE  y % n = x % n
<1>1. PICK k \in Int : k = 1
  OBVIOUS
<1>2. (y + k * n) % n = y % n
  BY ModShift
<1>3. k * n = n
  BY <1>1
<1>. QED  BY <1>2, <1>3

\* One digit of a number: l is what is below it, g what is above.
LEMMA DigitAt ==
  ASSUME NEW w \in Nat \ {0}, NEW l \in 0 .. w - 1, NEW d \in {0, 1}, NEW g \in Nat
  PROVE  ((l + w * (d + 2 * g)) \div w) % 2 = d
<1>1. PICK z \in Nat : z = d + 2 * g
  OBVIOUS
<1>2. PICK x \in Nat : x = l + w * z
  OBVIOUS
<1>3. x \div w = z
  <2>1. x \in Int
    BY <1>2
  <2>2. PICK q \in Int, r \in 0 .. w - 1 : q = x \div w /\ x = q * w + r
    BY <2>1, ModDivision
  <2>3. PICK a \in Int, b \in Int : a = q * w /\ b = w * z
    BY <1>1
  <2>4. (q - z) * w = a - b
    BY <1>1, <2>3
  <2>5. a - b \in 1 - w .. w - 1
    BY <1>2, <2>2, <2>3
  <2>6. q - z = 0
    BY <2>4, <2>5, SmallMultiple
  <2>. QED  BY <2>2, <2>6
<1>4. z % 2 = d
  BY <1>1
<1>. QED  BY <1>1, <1>2, <1>3, <1>4

-------------------------------------------------------------------------------
(* Induction.  The provers cannot put a predicate into an induction theorem  *)
(* of the library; they can use it for a set.                              *)

\* Every set of natural numbers that is not empty has a least element.
LEMMA LeastElement ==
  ASSUME NEW T, T \subseteq Nat, T # {}
  PROVE  \E n \in T : \A m \in T : n <= m
<1> DEFINE R == OpToRel(<, Nat)
<1>1. IsWellFoundedOn(R, Nat)
  BY NatLessThanWellFounded, Zenon
<1>2. \A m, n \in Nat : <<m, n>> \in R <=> m < n
  BY Zenon DEF OpToRel
<1> HIDE DEF R
<1>3. PICK n \in T : \A m \in T : <<m, n>> \notin R
  BY <1>1, WFMin, Zenon
<1>4. n \in Nat /\ \A m \in T : m \in Nat /\ ~(m < n)
  BY <1>2, <1>3, Zenon
<1>. QED  BY <1>3, <1>4

\* Induction up to n, with a set in the place of a predicate.
LEMMA Induction ==
  ASSUME NEW n \in Nat, NEW T, 0 \in T, \A k \in 1 .. n : k - 1 \in T => k \in T
  PROVE  0 .. n \subseteq T
<1> DEFINE rest == (0 .. n) \ T
<1>1. CASE rest # {}
  <2>1. rest \subseteq Nat
    OBVIOUS
  <2>2. PICK k \in rest : \A m \in rest : k <= m
    BY <1>1, <2>1, LeastElement
  <2>3. k \in 1 .. n /\ k - 1 \in 0 .. n /\ ~(k <= k - 1)
    BY <2>2
  <2>. QED  BY <2>2, <2>3
<1>. QED  BY <1>1

\* f starts with first and takes the steps of step up to n.
Iterates(f, S, first, n, step) ==
  f \in [0 .. n -> S] /\ f[0] = first /\ \A k \in 1 .. n : f[k] = step[k][f[k - 1]]

\* A function that is recursively defined on 0 .. n exists.
LEMMA RecursionExists ==
  ASSUME NEW S, NEW first \in S, NEW n \in Nat, NEW step \in [1 .. n -> [S -> S]]
  PROVE  \E f : Iterates(f, S, first, n, step)
<1> DEFINE Good(m, f) == /\ f \in [0 .. m -> S] /\ f[0] = first
                         /\ \A k \in 1 .. m : f[k] = step[k][f[k - 1]]
           T == {m \in 0 .. n : \E f : Good(m, f)}
<1>1. 0 \in T
  <2>1. Good(0, [k \in 0 .. 0 |-> first])
    OBVIOUS
  <2>2. 0 \in 0 .. n
    OBVIOUS
  <2> HIDE DEF Good
  <2>. QED  BY <2>1, <2>2
<1>2. ASSUME NEW m \in 1 .. n, m - 1 \in T PROVE m \in T
  <2>1. PICK f : Good(m - 1, f)
    BY <1>2
  <2> DEFINE g == [k \in 0 .. m |-> IF k = m THEN step[m][f[m - 1]] ELSE f[k]]
  <2>2. m - 1 \in 0 .. m - 1 /\ f[m - 1] \in S
    BY <1>2, <2>1
  <2>3. step[m][f[m - 1]] \in S
    BY <1>2, <2>2
  <2>4. \A k \in 0 .. m : k # m => k \in 0 .. m - 1
    BY <1>2
  <2>5. g \in [0 .. m -> S]
    BY <2>1, <2>3, <2>4
  <2>6. \A k \in 1 .. m : g[k] = step[k][g[k - 1]]
    <3> SUFFICES ASSUME NEW k \in 1 .. m PROVE g[k] = step[k][g[k - 1]]
      OBVIOUS
    <3>1. k \in 0 .. m /\ k - 1 \in 0 .. m /\ k - 1 # m
      BY <1>2
    <3>2. g[k - 1] = f[k - 1]
      BY <3>1
    <3>3. CASE k = m
      BY <3>1, <3>2, <3>3
    <3>4. CASE k # m
      <4>1. k \in 1 .. m - 1
        BY <1>2, <3>4
      <4>. QED  BY <2>1, <3>1, <3>2, <3>4, <4>1
    <3>. QED  BY <3>3, <3>4
  <2>7. g[0] = first
    BY <1>2, <2>1
  <2> HIDE DEF g
  <2>8. Good(m, g)
    BY <2>5, <2>6, <2>7
  <2>. QED  BY <1>2, <2>8
<1> HIDE DEF T
<1>3. n \in T
  <2>1. 0 .. n \subseteq T
    BY <1>1, <1>2, Induction
  <2>. QED  BY <2>1
<1>. QED  BY <1>3 DEF T, Iterates

-------------------------------------------------------------------------------
(* Sizes                                                                   *)

\* Moving a set of numbers keeps its size.
LEMMA MovedSize ==
  ASSUME NEW S \in SUBSET Int, IsFiniteSet(S), NEW t \in Int
  PROVE  /\ IsFiniteSet({b + t : b \in S})
         /\ Cardinality({b + t : b \in S}) = Cardinality(S)
<1> DEFINE T == {b + t : b \in S}
           f == [b \in S |-> b + t]
<1>1. \A a, b \in S : a + t = b + t => a = b
  OBVIOUS
<1>2. f \in Bijection(S, T)
  <2>1. f \in [S -> T] /\ \A y \in T : \E x \in S : f[x] = y
    OBVIOUS
  <2>2. \A a, b \in S : f[a] = f[b] => a = b
    BY <1>1
  <2> HIDE DEF f, T
  <2>. QED  BY <2>1, <2>2, Fun_IsBij
<1>3. ExistsBijection(S, T)
  BY <1>2 DEF ExistsBijection
<1> HIDE DEF T
<1>. QED  BY <1>3, FS_Bijection DEF T
===============================================================================
