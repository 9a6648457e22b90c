---------------------------- MODULE IntegerLemmas ----------------------------
(***************************************************************************)
(* Facts about numbers that the proofs about several components need: the  *)
(* least and the greatest element of a set, from which induction over data *)
(* follows; remainders, for indices that wrap, and quotients; counting;    *)
(* and what loops over numbers, and functions of levels, preserve.         *)
(***************************************************************************)
EXTENDS Loops, FiniteSetTheorems, FunctionTheorems, WellFoundedInduction,
        TLAPS

-----------------------------------------------------------------------------
(* Least and greatest elements.                                            *)

\* A set of naturals that is not empty has a least element.
LEMMA Least ==
  ASSUME NEW S \in SUBSET Nat, S # {}
  PROVE  \E x \in S : \A y \in S : x <= y
<1>1. IsWellFoundedOn(OpToRel(<, Nat), Nat)
  BY NatLessThanWellFounded
<1>2. PICK x \in S : \A y \in S : ~(<<y, x>> \in OpToRel(<, Nat))
  BY <1>1, WFMin
<1>3. \A y \in S : ~(y < x)
  BY <1>2 DEF OpToRel
<1> QED BY <1>3

\* A set of naturals that is not empty and has a bound has a greatest element.
LEMMA Greatest ==
  ASSUME NEW S \in SUBSET Nat, S # {}, NEW bound \in Nat, \A x \in S : x <= bound
  PROVE  \E x \in S : \A y \in S : y <= x
<1> DEFINE T == {bound - x : x \in S}
<1>1. T \in SUBSET Nat /\ T # {}
  <2>1. \A x \in S : bound - x \in Nat
    OBVIOUS
  <2>2. PICK x \in S : TRUE
    OBVIOUS
  <2>3. bound - x \in T
    BY <2>2
  <2> QED BY <2>1, <2>3
<1>2. PICK t \in T : \A u \in T : t <= u
  BY <1>1, Least
<1>3. PICK x \in S : t = bound - x
  BY <1>2
<1>4. \A y \in S : bound - x <= bound - y
  BY <1>2, <1>3
<1> QED BY <1>4

\* A set of positions that contains with a position all smaller ones is an
\* interval, of the length that the set has elements.
LEMMA Prefix ==
  ASSUME NEW n \in Nat, NEW S \in SUBSET (1 .. n),
         \A x \in S, y \in 1 .. n : y <= x => y \in S
  PROVE  Cardinality(S) \in 0 .. n /\ S = 1 .. Cardinality(S)
<1>1. PICK k \in 0 .. n : S = 1 .. k
  <2>1. CASE S = {}
    <3>1. S = 1 .. 0
      BY <2>1
    <3> QED BY <3>1
  <2>2. CASE S # {}
    <3>1. S \in SUBSET Nat /\ \A x \in S : x <= n
      OBVIOUS
    <3>2. PICK k \in S : \A y \in S : y <= k
      BY <2>2, <3>1, Greatest
    <3>3. k \in 1 .. n /\ \A y \in S : y \in 1 .. n
      OBVIOUS
    <3>4. S \subseteq 1 .. k
      BY <3>2, <3>3
    <3>5. ASSUME NEW y \in 1 .. k PROVE y \in S
      <4>1. y \in 1 .. n /\ y <= k
        BY <3>3
      <4> QED BY <4>1
    <3>6. S = 1 .. k
      BY <3>4, <3>5
    <3> QED BY <3>3, <3>6
  <2> QED BY <2>1, <2>2
<1>2. Cardinality(1 .. k) = k
  BY FS_Interval
<1> QED BY <1>1, <1>2

\* f is the function on the interval from m to n that recursion defines: it
\* starts with first, and goes on from the value before by step.
IsRecursive(f, S, first, m, n, step) ==
  /\ f \in [m .. n -> S]
  /\ \A i \in m .. n :
       f[i] = IF i = m THEN first ELSE step[<<f[i - 1], i>>]

Steps(S, m, n) == [S \X (m .. n) -> S]

\* There is such a function.
LEMMA Recursion ==
  ASSUME NEW S, NEW first \in S, NEW m \in Int, NEW n \in Int,
         NEW step \in Steps(S, m, n)
  PROVE  \E f : IsRecursive(f, S, first, m, n, step)
<1> USE DEF IsRecursive, Steps
<1> DEFINE Good(f, k) ==
             /\ f \in [m .. k -> S]
             /\ \A i \in m .. k :
                  f[i] = IF i = m THEN first ELSE step[<<f[i - 1], i>>]
           K == {k \in Nat : m + k <= n /\ ~ \E f : Good(f, m + k)}
<1>1. CASE n < m
  <2>1. \A i \in m .. n : FALSE
    BY <1>1
  <2>2. [i \in m .. n |-> first] \in [m .. n -> S]
    OBVIOUS
  <2> QED BY <2>1, <2>2
<1>2. CASE ~(n < m)
  <2>1. K = {}
    <3> SUFFICES ASSUME K # {} PROVE FALSE
      OBVIOUS
    <3>1. PICK k \in K : \A j \in K : k <= j
      <4>1. K \in SUBSET Nat
        OBVIOUS
      <4> HIDE DEF K
      <4> QED BY <4>1, Least
    <3>2. k \in Nat /\ m + k <= n /\ ~ \E f : Good(f, m + k)
      BY <3>1
    <3>3. k # 0
      <4> SUFFICES ASSUME k = 0 PROVE \E f : Good(f, m + k)
        BY <3>2
      <4> DEFINE f == [i \in m .. m + k |-> first]
      <4>1. \A i \in m .. m + k : i = m
        <5> HIDE DEF Good, K, f
        <5>1. m + k = m
          OBVIOUS
        <5> QED BY <5>1
      <4>2. Good(f, m + k)
        BY <4>1
      <4> HIDE DEF f, Good
      <4> QED BY <4>2
    <3>4. k - 1 \in Nat /\ m + (k - 1) <= n /\ ~(k <= k - 1)
      <4> HIDE DEF Good
      <4> QED BY <3>2, <3>3
    <3>5. PICK f : Good(f, m + (k - 1))
      <4> HIDE DEF Good
      <4> QED BY <3>1, <3>4
    <3> DEFINE l == m + (k - 1)
               g == [i \in m .. m + k |->
                       IF i \in m .. l THEN f[i] ELSE step[<<f[l], m + k>>]]
    <3>6. /\ l \in m .. l /\ l + 1 = m + k /\ m + k \in m .. n
          /\ \A i \in m .. m + k : i \notin m .. l => i = m + k
          /\ \A i \in m .. l : i \in m .. m + k /\ (i # m => i - 1 \in m .. l)
          /\ m + k \notin m .. l /\ m + k \in m .. m + k /\ m + k # m
          /\ (m + k) - 1 = l
      <4>1. k \in Nat /\ k # 0 /\ m + k <= n
        BY <3>2, <3>3
      <4> HIDE DEF Good, K
      <4> QED BY <4>1
    <3> HIDE DEF l
    <3>7. f \in [m .. l -> S] /\ \A i \in m .. l :
            f[i] = IF i = m THEN first ELSE step[<<f[i - 1], i>>]
      BY <3>5 DEF l
    <3>8. f[l] \in S /\ step[<<f[l], m + k>>] \in S
      BY <3>6, <3>7
    <3>9. g \in [m .. m + k -> S]
      BY <3>6, <3>7, <3>8
    <3>10. ASSUME NEW i \in m .. m + k
           PROVE  g[i] = IF i = m THEN first ELSE step[<<g[i - 1], i>>]
      <4>1. CASE i \in m .. l
        <5>1. g[i] = f[i] /\ (i # m => g[i - 1] = f[i - 1])
          BY <3>6, <4>1
        <5> HIDE DEF g
        <5> QED BY <3>7, <4>1, <5>1
      <4>2. CASE i \notin m .. l
        <5>1. i = m + k /\ g[i] = step[<<f[l], m + k>>]
          BY <3>6, <4>2
        <5>2. g[l] = f[l]
          BY <3>6
        <5> HIDE DEF g
        <5> QED BY <3>6, <5>1, <5>2
      <4> QED BY <4>1, <4>2
    <3>11. Good(g, m + k)
      <4> HIDE DEF g
      <4> QED BY <3>9, <3>10
    <3> HIDE DEF Good, g
    <3> QED BY <3>2, <3>11
  <2>2. n - m \in Nat /\ m + (n - m) = n
    BY <1>2
  <2>3. \E f : Good(f, n)
    <3> HIDE DEF Good
    <3>1. n - m \in Nat /\ m + (n - m) <= n => \E f : Good(f, m + (n - m))
      BY <2>1
    <3> QED BY <2>2, <3>1
  <2> QED BY <2>3
<1> QED BY <1>1, <1>2

-----------------------------------------------------------------------------
(* Remainders.                                                             *)

\* A multiple of a positive number by another is not below it.
LEMMA Product == \A n \in Nat \ {0}, d \in Int : d >= 1 => n * d >= n
OBVIOUS

\* Quotient and remainder.
LEMMA DivMod ==
  \A n \in Nat \ {0}, x \in Int :
    x \div n \in Int /\ x % n \in 0 .. n - 1 /\ x = n * (x \div n) + (x % n)
OBVIOUS

\* They are determined by that.
LEMMA DivModUnique ==
  \A n \in Nat \ {0} : \A a, b \in Int : \A r, s \in 0 .. n - 1 :
    n * a + r = n * b + s => a = b /\ r = s
<1> SUFFICES ASSUME NEW n \in Nat \ {0}, NEW a \in Int, NEW b \in Int,
                    NEW r \in 0 .. n - 1, NEW s \in 0 .. n - 1,
                    n * a + r = n * b + s
             PROVE  a = b /\ r = s
  OBVIOUS
<1>1. n * (a - b) = s - r /\ n * (b - a) = r - s
  OBVIOUS
<1>2. ~(a - b >= 1) /\ ~(b - a >= 1)
  BY <1>1, Product
<1>3. a = b
  BY <1>2
<1> QED BY <1>3

\* A multiple of the divisor can be added.
LEMMA ModMultiple ==
  ASSUME NEW n \in Nat \ {0}, NEW x \in Int, NEW k \in Int
  PROVE  (x + n * k) % n = x % n
<1> DEFINE y == x + n * k
           a == y \div n
           b == x \div n + k
           r == y % n
           s == x % n
<1>1. /\ x \div n \in Int /\ s \in 0 .. n - 1
      /\ x = n * (x \div n) + s
  BY DivMod
<1>2. y \in Int
  OBVIOUS
<1>3. a \in Int /\ r \in 0 .. n - 1 /\ y = n * a + r
  BY <1>2, DivMod
<1>4. b \in Int /\ n * a + r = n * b + s
  BY <1>1, <1>3
<1> HIDE DEF a, b, r, s
<1>5. r = s
  BY <1>1, <1>3, <1>4, DivModUnique
<1> QED BY <1>5 DEF r, s

\* Numbers less than the divisor apart have different remainders.
LEMMA ModInjective ==
  \A n \in Nat \ {0}, x, y \in Int :
    x % n = y % n /\ x - y < n /\ y - x < n => x = y
<1> SUFFICES ASSUME NEW n \in Nat \ {0}, NEW x \in Int, NEW y \in Int,
                    x % n = y % n, x - y < n, y - x < n
             PROVE  x = y
  OBVIOUS
<1>1. /\ x \div n \in Int /\ x % n \in 0 .. n - 1
      /\ x = n * (x \div n) + (x % n)
  BY DivMod
<1>2. /\ y \div n \in Int /\ y % n \in 0 .. n - 1
      /\ y = n * (y \div n) + (y % n)
  BY DivMod
<1>3. /\ x - y = n * (x \div n - y \div n)
      /\ y - x = n * (y \div n - x \div n)
  BY <1>1, <1>2
<1>4. /\ ~(x \div n - y \div n >= 1)
      /\ ~(y \div n - x \div n >= 1)
  BY <1>1, <1>2, <1>3, Product
<1>5. x \div n = y \div n
  BY <1>1, <1>2, <1>4
<1> QED BY <1>1, <1>2, <1>5

\* Remainders of numbers close to the divisor.
LEMMA ModNear ==
  \A n \in Nat \ {0}, x \in Int :
    /\ x % n \in 0 .. n - 1
    /\ -n <= x /\ x < 0 => x % n = x + n
    /\ 0 <= x /\ x < n => x % n = x
    /\ n <= x /\ x < 2 * n => x % n = x - n
OBVIOUS

-----------------------------------------------------------------------------
(* Counting.                                                               *)

\* Different numbers below a bound are not more than the bound; if another
\* one is left out, they are fewer.
LEMMA Distinct ==
  ASSUME NEW n \in Nat, NEW k \in Nat, NEW f \in [1 .. k -> 0 .. n - 1],
         \A i, j \in 1 .. k : f[i] = f[j] => i = j
  PROVE  /\ k <= n
         /\ \A x \in 0 .. n - 1 : (\A i \in 1 .. k : f[i] # x) => k < n
<1>1. IsFiniteSet(1 .. k) /\ Cardinality(1 .. k) = k
  BY FS_Interval
<1>2. IsFiniteSet(0 .. n - 1) /\ Cardinality(0 .. n - 1) = n
  BY FS_Interval
<1>3. k <= n
  <2>1. f \in Injection(1 .. k, 0 .. n - 1)
    BY DEF Injection, IsInjective
  <2> QED BY <1>1, <1>2, <2>1, FS_Injection
<1>4. ASSUME NEW x \in 0 .. n - 1, \A i \in 1 .. k : f[i] # x
      PROVE  k < n
  <2>1. f \in Injection(1 .. k, (0 .. n - 1) \ {x})
    BY <1>4 DEF Injection, IsInjective
  <2>2. /\ IsFiniteSet((0 .. n - 1) \ {x})
        /\ Cardinality((0 .. n - 1) \ {x}) = n - 1
    BY <1>2, FS_RemoveElement
  <2> QED BY <1>1, <2>1, <2>2, FS_Injection
<1> QED BY <1>3, <1>4

-----------------------------------------------------------------------------
(* Quotients.                                                              *)

LEMMA IntProduct == \A a, b \in Int : a * b \in Int /\ a + b \in Int
OBVIOUS

\* A quotient is known by its bounds.
LEMMA QuotientIs ==
  ASSUME NEW n \in Nat \ {0}, NEW x \in Int, NEW q \in Int
  PROVE  x \div n = q <=> n * q <= x /\ x < n * q + n
<1>1. /\ x \div n \in Int /\ x % n \in 0 .. n - 1
      /\ x = n * (x \div n) + (x % n)
  BY DivMod
<1>2. PICK p \in Int, r \in 0 .. n - 1 : p = x \div n /\ x = n * p + r
  BY <1>1
<1>3. ASSUME n * q <= x, x < n * q + n PROVE p = q
  <2>1. PICK s \in 0 .. n - 1 : s = x - n * q
    BY <1>3
  <2>2. n * p + r = n * q + s
    BY <1>2, <2>1
  <2> QED BY <2>2, DivModUnique
<1> QED BY <1>2, <1>3

\* Dividing twice.
LEMMA DivideTwice ==
  ASSUME NEW a \in Nat \ {0}, NEW b \in Nat \ {0}, NEW x \in Int
  PROVE  /\ a * b \in Nat \ {0}
         /\ x \div a = b * (x \div (a * b)) + ((x \div a) % b)
<1>1. PICK c \in Nat \ {0} : c = a * b
  <2>1. a * b >= a
    BY Product
  <2>2. a * b \in Int
    OBVIOUS
  <2> QED BY <2>1, <2>2
<1>2. PICK q \in Int, r \in 0 .. a - 1 : q = x \div a /\ x = a * q + r
  BY DivMod
<1>3. PICK p \in Int, s \in 0 .. b - 1 : p = q \div b /\ s = q % b /\ q = b * p + s
  BY DivMod
<1>4. x = c * p + (a * s + r)
  <2>1. a * (b * p + s) = (a * b) * p + a * s
    OBVIOUS
  <2>2. a * q = c * p + a * s
    BY <1>1, <1>3, <2>1
  <2>3. PICK e \in Int, f \in Int, g \in Int : e = c * p /\ f = a * s /\ g = a * q
    <3>1. c \in Int /\ p \in Int /\ a \in Int /\ s \in Int /\ q \in Int
      BY <1>1, <1>2, <1>3
    <3> QED BY <3>1, IntProduct
  <2> QED BY <1>2, <2>2, <2>3
<1>5. 0 <= a * s + r /\ a * s + r < c
  <2>1. PICK d \in Nat : d = b - 1 - s
    BY <1>3
  <2>2. a * d >= 0 /\ a * s >= 0 /\ a * d \in Int /\ a * s \in Int
    BY <1>3, <2>1
  <2>3. a * b = a * s + a * d + a
    BY <1>3, <2>1
  <2> QED BY <1>1, <1>2, <2>2, <2>3
<1>6. x \div c = p
  <2>1. PICK e \in Int : e = c * p
    BY <1>1, <1>3
  <2>2. a * s \in Int
    BY <1>3
  <2>3. c * p <= x /\ x < c * p + c
    BY <1>4, <1>5, <2>1, <2>2
  <2> QED BY <1>1, <1>3, <2>3, QuotientIs
<1> QED BY <1>1, <1>2, <1>3, <1>6

\* Quotients that are smaller.
LEMMA QuotientBelow ==
  ASSUME NEW n \in Nat \ {0}, NEW x \in Int, NEW q \in Int
  PROVE  x \div n < q <=> x < n * q
<1>1. PICK p \in Int, s \in 0 .. n - 1 : p = x \div n /\ x = n * p + s
  BY DivMod
<1>2. ASSUME p < q PROVE x < n * q
  <2>1. PICK d \in Nat : q = p + 1 + d
    <3>1. q - p - 1 \in Nat /\ q = p + 1 + (q - p - 1)
      BY <1>2
    <3> QED BY <3>1
  <2>2. n * q = n * p + n + n * d /\ n * d >= 0 /\ n * p \in Int /\ n * d \in Int
    BY <2>1
  <2> QED BY <1>1, <2>2
<1>3. ASSUME ~(p < q) PROVE ~(x < n * q)
  <2>1. PICK d \in Nat : p = q + d
    <3>1. p - q \in Nat /\ p = q + (p - q)
      BY <1>3
    <3> QED BY <3>1
  <2>2. n * p = n * q + n * d /\ n * d >= 0 /\ n * q \in Int /\ n * d \in Int
    BY <2>1
  <2> QED BY <1>1, <2>2
<1> QED BY <1>1, <1>2, <1>3

\* The numbers below an entry, when each stands for a numbers, and b entries for c.
LEMMA BlockRange ==
  ASSUME NEW a \in Nat \ {0}, NEW b \in Nat \ {0}, NEW c \in Nat \ {0}, c = a * b,
         NEW first \in Int, NEW slot \in Int,
         NEW k \in Int, k = first \div c, NEW g \in Int, g = b * k,
         NEW r \in Int, r = first % c, NEW o \in Int, o = slot * a
  PROVE  /\ \A x \in Int : x \div a = g + slot <=> first - r + o <= x /\ x < first - r + o + a
         /\ \A x \in Int : x \div a < g + slot <=> x < first - r + o
<1>1. first = c * k + r
  BY DivMod
<1>2. PICK q \in Int : q = g + slot
  BY IntProduct
<1>3. PICK low \in Int : low = first - r + o
  OBVIOUS
<1>4. PICK e \in Int : e = c * k
  BY IntProduct
<1>5. low = e + o
  BY <1>1, <1>3, <1>4
<1>6. low = a * q
  <2>1. a * (g + slot) = a * g + slot * a /\ a * (b * k) = (a * b) * k
    OBVIOUS
  <2> QED BY <1>2, <1>4, <1>5, <2>1
<1>7. \A x \in Int : x \div a = q <=> low <= x /\ x < low + a
  BY <1>6, QuotientIs
<1>8. \A x \in Int : x \div a < q <=> x < low
  BY <1>6, QuotientBelow
<1> QED BY <1>2, <1>3, <1>7, <1>8

\* What lies between two numbers of a block is in the block.
LEMMA BlockBetween ==
  ASSUME NEW c \in Nat \ {0}, NEW first \in Int, NEW last \in Int,
         first \div c = last \div c, NEW va \in first .. last
  PROVE  va \div c = first \div c
<1>1. PICK k \in Int : k = first \div c
  BY DivMod
<1>2. PICK t \in Int : t = c * k
  BY <1>1
<1>3. t <= first /\ first < t + c /\ t <= last /\ last < t + c
  BY <1>1, <1>2, QuotientIs
<1>4. t <= va /\ va < t + c
  BY <1>2, <1>3
<1> QED BY <1>1, <1>2, <1>4, QuotientIs

-----------------------------------------------------------------------------
(* Loops.                                                                  *)

\* What holds of the state before the first turn and is handed on by every
\* turn holds of the states after each: I[i] are the states that may be left
\* after i turns.
LEMMA Repeating ==
  ASSUME NEW n \in Nat, NEW turn, NEW I, NEW start \in I[0],
         \A i \in 0 .. n - 1 : \A s \in I[i] : turn[i][s] \in I[i + 1]
  PROVE  \E after :
           /\ after[0] = start
           /\ \A i \in 0 .. n : after[i] \in I[i]
           /\ \A i \in 0 .. n - 1 : after[i + 1] = turn[i][after[i]]
           /\ Repeat(turn, start, n) = after[n]
<1> DEFINE D == 0 .. n
           S == UNION {I[i] : i \in D}
           Next1(s, i) == turn[i - 1][s]
           step == [x \in S \X D |->
                      IF x[2] # 0 /\ x[1] \in I[x[2] - 1]
                      THEN Next1(x[1], x[2]) ELSE start]
           Equation(f) == f = [i \in D |-> IF i = 0 THEN start
                                           ELSE Next1(f[i - 1], i)]
<1>1. /\ 0 \in D /\ n \in D /\ D \in SUBSET Nat
      /\ \A i \in D : i # 0 => i - 1 \in D /\ i - 1 \in 0 .. n - 1 /\ i - 1 + 1 = i
      /\ \A i \in 0 .. n - 1 : i \in D /\ i + 1 \in D /\ i + 1 # 0 /\ i + 1 - 1 = i
  OBVIOUS
<1>2. \A i \in D : i # 0 => \A s \in I[i - 1] : Next1(s, i) \in I[i]
  BY <1>1
<1>3. start \in S /\ \A i \in D : I[i] \subseteq S
  BY <1>1
<1> HIDE DEF D, S, Next1
<1>4. step \in [S \X D -> S]
  <2>1. ASSUME NEW s \in S, NEW i \in D, i # 0, s \in I[i - 1]
        PROVE  Next1(s, i) \in S
    BY <1>2, <1>3, <2>1
  <2> QED BY <1>3, <2>1
<1>5. PICK f \in [D -> S] :
        \A i \in D : f[i] = IF i = 0 THEN start ELSE step[<<f[i - 1], i>>]
  <2> HIDE DEF step
  <2>1. step \in Steps(S, 0, n)
    BY <1>4 DEF Steps, D
  <2>2. \E f : IsRecursive(f, S, start, 0, n, step)
    BY <1>3, <2>1, Recursion
  <2> QED BY <2>2 DEF IsRecursive, D
<1>6. \A i \in D : f[i] \in I[i]
  <2> DEFINE Bad == {i \in D : f[i] \notin I[i]}
  <2>1. SUFFICES ASSUME Bad # {} PROVE FALSE
    OBVIOUS
  <2>2. PICK i \in Bad : \A j \in Bad : i <= j
    <3>1. Bad \in SUBSET Nat
      BY <1>1
    <3> HIDE DEF Bad
    <3> QED BY <2>1, <3>1, Least
  <2>3. CASE i = 0
    BY <1>5, <2>2, <2>3
  <2>4. CASE i # 0
    <3>1. i - 1 \in D /\ i \in Nat
      BY <1>1, <2>2, <2>4
    <3>2. ~(i <= i - 1)
      BY <3>1
    <3>3. f[i - 1] \in I[i - 1]
      BY <2>2, <3>1, <3>2
    <3>4. f[i] = Next1(f[i - 1], i)
      BY <1>5, <2>2, <2>4, <3>1, <3>3
    <3> QED BY <1>2, <2>2, <2>4, <3>3, <3>4
  <2> QED BY <2>3, <2>4
<1>7. Equation(f)
  <2>1. \A i \in D : f[i] = IF i = 0 THEN start ELSE Next1(f[i - 1], i)
    <3> SUFFICES ASSUME NEW i \in D, i # 0 PROVE f[i] = Next1(f[i - 1], i)
      BY <1>5
    <3>1. i - 1 \in D /\ f[i - 1] \in I[i - 1]
      BY <1>1, <1>6
    <3> QED BY <1>5, <3>1
  <2> QED BY <2>1
<1> DEFINE g == CHOOSE h : Equation(h)
<1>8. Equation(g)
  <2> HIDE DEF Equation
  <2> QED BY <1>7
<1>9. \A i \in D : g[i] = IF i = 0 THEN start ELSE Next1(g[i - 1], i)
  <2> HIDE DEF g
  <2> QED BY <1>8
<1>10. Repeat(turn, start, n) = IF n <= 0 THEN start ELSE g[n]
  BY DEF Repeat, D, Next1
<1> HIDE DEF g, Equation
<1>11. \A i \in D : g[i] \in I[i]
  <2> DEFINE Bad == {i \in D : g[i] \notin I[i]}
  <2>1. SUFFICES ASSUME Bad # {} PROVE FALSE
    OBVIOUS
  <2>2. PICK i \in Bad : \A j \in Bad : i <= j
    <3>1. Bad \in SUBSET Nat
      BY <1>1
    <3> HIDE DEF Bad
    <3> QED BY <2>1, <3>1, Least
  <2>3. CASE i = 0
    BY <1>9, <2>2, <2>3
  <2>4. CASE i # 0
    <3>1. i - 1 \in D /\ i \in Nat
      BY <1>1, <2>2, <2>4
    <3>2. ~(i <= i - 1)
      BY <3>1
    <3>3. g[i - 1] \in I[i - 1]
      BY <2>2, <3>1, <3>2
    <3> QED BY <1>2, <1>9, <2>2, <2>4, <3>3
  <2> QED BY <2>3, <2>4
<1>12. g[0] = start /\ Repeat(turn, start, n) = g[n]
  <2>1. g[0] = start
    BY <1>1, <1>9
  <2>2. n <= 0 => n = 0
    OBVIOUS
  <2> QED BY <1>10, <2>1, <2>2
<1>13. \A i \in 0 .. n - 1 : g[i + 1] = turn[i][g[i]]
  <2> SUFFICES ASSUME NEW i \in 0 .. n - 1 PROVE g[i + 1] = turn[i][g[i]]
    OBVIOUS
  <2>1. i + 1 \in D /\ i + 1 # 0 /\ i + 1 - 1 = i
    BY <1>1
  <2>2. g[i + 1] = Next1(g[i + 1 - 1], i + 1)
    BY <1>9, <2>1
  <2> QED BY <2>1, <2>2 DEF Next1
<1> QED BY <1>11, <1>12, <1>13 DEF D

\* What each turn hands on to the next holds after the loop.
LEMMA RepeatKeeps ==
  ASSUME NEW n \in Nat, NEW turn, NEW I, NEW start \in I[0],
         \A i \in 0 .. n - 1 : \A s \in I[i] : turn[i][s] \in I[i + 1]
  PROVE  Repeat(turn, start, n) \in I[n]
<1>1. PICK after : /\ \A i \in 0 .. n : after[i] \in I[i]
                   /\ Repeat(turn, start, n) = after[n]
  BY Repeating
<1>2. n \in 0 .. n
  OBVIOUS
<1> QED BY <1>1, <1>2

\* No turns.
LEMMA NoTurns ==
  ASSUME NEW n \in Int, n <= 0, NEW turn, NEW start
  PROVE  Repeat(turn, start, n) = start
BY DEF Repeat

\* The turn after n others.
LEMMA OneMoreTurn ==
  ASSUME NEW n \in Nat, NEW turn, NEW S, NEW start \in S,
         \A i \in 0 .. n : \A s \in S : turn[i][s] \in S
  PROVE  Repeat(turn, start, n + 1) = turn[n][Repeat(turn, start, n)]
<1>1. PICK m \in Nat : m = n + 1
  OBVIOUS
<1>2. PICK J : J = [i \in Nat |-> S]
  OBVIOUS
<1>3. start \in J[0] /\ \A i \in 0 .. m - 1 : \A s \in J[i] : turn[i][s] \in J[i + 1]
  BY <1>1, <1>2
<1>4. PICK after : /\ after[0] = start
                   /\ \A i \in 0 .. m : after[i] \in J[i]
                   /\ \A i \in 0 .. m - 1 : after[i + 1] = turn[i][after[i]]
                   /\ Repeat(turn, start, m) = after[m]
  BY <1>3, Repeating
<1>5. PICK I : I = [i \in Nat |-> {after[i]}]
  OBVIOUS
<1>6. start \in I[0] /\ \A i \in 0 .. n - 1 : \A s \in I[i] : turn[i][s] \in I[i + 1]
  BY <1>1, <1>4, <1>5
<1>7. Repeat(turn, start, n) \in I[n]
  BY <1>6, RepeatKeeps
<1>8. Repeat(turn, start, n) = after[n]
  BY <1>5, <1>7
<1>9. n \in 0 .. m - 1
  BY <1>1
<1> QED BY <1>1, <1>4, <1>8, <1>9

-----------------------------------------------------------------------------
(* Levels, one after the other.                                            *)

\* What each level hands on to the next holds at all of them.
LEMMA LevelInduction ==
  ASSUME NEW n \in Nat, NEW at, NEW I, at[0] \in I[0],
         \A l \in 0 .. n - 1 : at[l] \in I[l] => at[l + 1] \in I[l + 1]
  PROVE  \A l \in 0 .. n : at[l] \in I[l]
<1> DEFINE Bad == {l \in 0 .. n : at[l] \notin I[l]}
<1>1. SUFFICES ASSUME Bad # {} PROVE FALSE
  OBVIOUS
<1>2. PICK l \in Bad : \A j \in Bad : l <= j
  <2>1. Bad \in SUBSET Nat
    OBVIOUS
  <2> HIDE DEF Bad
  <2> QED BY <1>1, <2>1, Least
<1>3. CASE l = 0
  BY <1>2, <1>3
<1>4. CASE l # 0
  <2>1. l - 1 \in 0 .. n - 1 /\ l - 1 + 1 = l /\ ~(l <= l - 1) /\ l - 1 \in 0 .. n
    BY <1>2, <1>4
  <2>2. l - 1 \notin Bad
    BY <1>2, <2>1
  <2>3. at[l - 1] \in I[l - 1]
    BY <2>1, <2>2
  <2> QED BY <1>2, <2>1, <2>3
<1> QED BY <1>3, <1>4

\* What a level makes of what the level below is, and a function of the levels.
LevelSteps(n, C, I) == \A l \in 0 .. n : \A f \in I[l] : C[l][f] \in I[l + 1]
IsLevels(at, n, C, I, bottom) ==
  /\ at = [l \in 0 .. n |-> at[l]]
  /\ \A l \in 0 .. n : /\ at[l] \in I[l + 1]
                       /\ at[l] = C[l][IF l = 0 THEN bottom ELSE at[l - 1]]

\* The states that a loop goes through.
IsRun(after, turn, I, start, n) ==
  /\ after[0] = start
  /\ \A i \in 0 .. n : after[i] \in I[i]
  /\ \A i \in 0 .. n - 1 : after[i + 1] = turn[i][after[i]]
LEMMA RunExists ==
  ASSUME NEW n \in Nat, NEW turn, NEW I, NEW start \in I[0],
         \A i \in 0 .. n - 1 : \A s \in I[i] : turn[i][s] \in I[i + 1]
  PROVE  \E after : IsRun(after, turn, I, start, n)
<1>1. PICK after : /\ after[0] = start
                   /\ \A i \in 0 .. n : after[i] \in I[i]
                   /\ \A i \in 0 .. n - 1 : after[i + 1] = turn[i][after[i]]
                   /\ Repeat(turn, start, n) = after[n]
  BY Repeating
<1> QED BY <1>1 DEF IsRun

\* A function defined level by level exists.
LEMMA LevelsExist ==
  ASSUME NEW n \in Nat, NEW C, NEW I, NEW bottom \in I[0], LevelSteps(n, C, I)
  PROVE  \E at : IsLevels(at, n, C, I, bottom)
<1>1. PICK m \in Nat : m = n + 1
  OBVIOUS
<1>2. \A l \in 0 .. m - 1 : \A f \in I[l] : C[l][f] \in I[l + 1]
  BY <1>1 DEF LevelSteps
<1>3. PICK after : /\ after[0] = bottom
                   /\ \A l \in 0 .. m : after[l] \in I[l]
                   /\ \A l \in 0 .. m - 1 : after[l + 1] = C[l][after[l]]
  <2>1. \E after : IsRun(after, C, I, bottom, m)
    BY <1>2, RunExists
  <2> QED BY <2>1 DEF IsRun
<1> DEFINE at == [l \in 0 .. n |-> after[l + 1]]
<1>4. ASSUME NEW l \in 0 .. n
      PROVE  at[l] \in I[l + 1] /\ at[l] = C[l][IF l = 0 THEN bottom ELSE at[l - 1]]
  <2>1. l + 1 \in 0 .. m /\ l \in 0 .. m - 1
    BY <1>1
  <2>2. at[l] \in I[l + 1] /\ at[l] = C[l][after[l]]
    BY <1>3, <2>1
  <2>3. CASE l = 0
    BY <1>3, <2>2, <2>3
  <2>4. CASE l # 0
    <3>1. l - 1 \in 0 .. n /\ l - 1 + 1 = l
      BY <2>4
    <3>2. at[l - 1] = after[l]
      BY <3>1
    <3> QED BY <2>2, <2>4, <3>2
  <2> QED BY <2>3, <2>4
<1>5. at = [l \in 0 .. n |-> at[l]]
  OBVIOUS
<1> HIDE DEF at
<1> QED BY <1>4, <1>5 DEF IsLevels
=============================================================================
