-------------------------- MODULE ArithmeticLemmas --------------------------
(***************************************************************************)
(* Facts about division, congruence, functions by recursion, powers, sums  *)
(* and finite sets of functions that proofs about arithmetic share. They   *)
(* are stated without operator parameters: induction is on membership in a *)
(* set, and a recursive definition is met by a function that               *)
(* RecursionExists gives.                                                  *)
(***************************************************************************)
EXTENDS FiniteSums, Integers, TLAPS, NaturalsInduction, WellFoundedInduction

\* Quotient and remainder.
LEMMA DivMod ==
  ASSUME NEW a \in Int, NEW q \in Nat \ {0}
  PROVE  /\ a = q * (a \div q) + (a % q)
         /\ a % q \in 0 .. q - 1
         /\ a \div q \in Int
OBVIOUS

\* They are the only such pair.
LEMMA DivModUnique ==
  ASSUME NEW a \in Int, NEW q \in Nat \ {0}, NEW k \in Int, NEW r \in 0 .. q - 1, a = q * k + r
  PROVE  a % q = r /\ a \div q = k
OBVIOUS

\* A residue is its own remainder.
LEMMA ModSmall ==
  ASSUME NEW q \in Nat \ {0}, NEW a \in 0 .. q - 1
  PROVE  a % q = a /\ a \div q = 0
BY DivModUnique

\* x and y are congruent modulo q.
Same(x, y, q) == \E k \in Int : x = y + q * k

\* Congruence is an equivalence that sums and products respect.
LEMMA SameReflexive ==
  ASSUME NEW q \in Nat, NEW x \in Int
  PROVE  Same(x, x, q)
<1>1. x = x + q * 0
  OBVIOUS
<1>2. QED
  BY <1>1 DEF Same

\* Congruence is symmetric.
LEMMA SameSymmetric ==
  ASSUME NEW q \in Nat, NEW x \in Int, NEW y \in Int, Same(x, y, q)
  PROVE  Same(y, x, q)
<1>1. PICK k \in Int : x = y + q * k
  BY DEF Same
<1>2. y = x + q * (-k) /\ -k \in Int
  BY <1>1
<1>3. QED
  BY <1>2 DEF Same

\* Congruence is transitive.
LEMMA SameTransitive ==
  ASSUME NEW q \in Nat, NEW x \in Int, NEW y \in Int, NEW z \in Int, Same(x, y, q), Same(y, z, q)
  PROVE  Same(x, z, q)
<1>1. PICK k \in Int : x = y + q * k
  BY DEF Same
<1>2. PICK l \in Int : y = z + q * l
  BY DEF Same
<1>3. x = z + q * (k + l) /\ k + l \in Int
  BY <1>1, <1>2
<1>4. QED
  BY <1>3 DEF Same

\* Sums of congruent numbers are congruent.
LEMMA SameSum ==
  ASSUME NEW q \in Nat, NEW a \in Int, NEW b \in Int, NEW c \in Int, NEW d \in Int,
         Same(a, b, q), Same(c, d, q)
  PROVE  Same(a + c, b + d, q)
<1>1. PICK k \in Int : a = b + q * k
  BY DEF Same
<1>2. PICK l \in Int : c = d + q * l
  BY DEF Same
<1>3. a + c = (b + d) + q * (k + l) /\ k + l \in Int
  BY <1>1, <1>2
<1>4. QED
  BY <1>3 DEF Same

\* Products of congruent numbers are congruent.
LEMMA SameProduct ==
  ASSUME NEW q \in Nat, NEW a \in Int, NEW b \in Int, NEW c \in Int, NEW d \in Int,
         Same(a, b, q), Same(c, d, q)
  PROVE  Same(a * c, b * d, q)
<1>1. PICK k \in Int : a = b + q * k
  BY DEF Same
<1>2. PICK l \in Int : c = d + q * l
  BY DEF Same
<1> DEFINE m == b * l + k * d + k * (q * l)
<1>3. m \in Int
  OBVIOUS
<1>4. a * c = b * d + q * m
  BY <1>1, <1>2
<1> HIDE DEF m
<1>5. QED
  BY <1>3, <1>4 DEF Same

\* A number is congruent to its remainder.
LEMMA SameMod ==
  ASSUME NEW q \in Nat \ {0}, NEW x \in Int
  PROVE  Same(x % q, x, q)
<1> DEFINE r == x % q  d == x \div q
<1>1. r \in 0 .. q - 1 /\ d \in Int /\ x = q * d + r
  BY DivMod
<1> HIDE DEF r, d
<1>2. r = x + q * (-d) /\ -d \in Int
  BY <1>1
<1>3. Same(r, x, q)
  BY <1>2 DEF Same
<1>4. QED
  BY <1>3 DEF r

\* Congruent residues are equal.
LEMMA SameResidue ==
  ASSUME NEW q \in Nat \ {0}, NEW r \in 0 .. q - 1, NEW x \in Int, Same(r, x, q)
  PROVE  r = x % q
<1>1. PICK k \in Int : r = x + q * k
  BY DEF Same
<1>2. -k \in Int /\ x = q * (-k) + r
  BY <1>1
<1>3. x % q = r
  BY ONLY <1>2, q \in Nat \ {0}, r \in 0 .. q - 1, x \in Int, DivModUnique
<1>4. QED
  BY <1>3

\* Congruent numbers have equal remainders.
LEMMA SameRemainders ==
  ASSUME NEW q \in Nat \ {0}, NEW x \in Int, NEW y \in Int, Same(x, y, q)
  PROVE  x % q = y % q
<1>1. PICK r \in 0 .. q - 1 : r = x % q
  BY DivMod
<1>2. Same(r, x, q)
  BY <1>1, SameMod
<1>3. Same(r, y, q)
  BY <1>2, SameTransitive
<1>4. r = y % q
  BY <1>3, SameResidue
<1>5. QED
  BY <1>1, <1>4

\* Every set of natural numbers with a member has a least one.
LEMMA LeastNat ==
  ASSUME NEW T \in SUBSET Nat, NEW x \in T
  PROVE  \E m \in T : \A n \in T : m <= n
<1> DEFINE Below == {ss \in Nat \X Nat : ss[1] < ss[2]}
<1>1. IsWellFoundedOn(Below, Nat)
  BY NatLessThanWellFounded DEF OpToRel
<1>2. IsWellFoundedOn(Below, T)
  BY <1>1, IsWellFoundedOnSubset
<1>3. PICK m \in T : \A y \in T : ~(<<y, m>> \in Below)
  BY <1>1, WFMin
<1>4. ASSUME NEW n \in T
      PROVE  m <= n
  <2>1. <<n, m>> \in Nat \X Nat /\ <<n, m>>[1] = n /\ <<n, m>>[2] = m
    OBVIOUS
  <2>2. ~(n < m)
    BY <1>3, <2>1
  <2>3. QED
    BY <2>2
<1>5. QED
  BY <1>4

\* Induction over an interval, on a set instead of a formula.
LEMMA Induction ==
  ASSUME NEW b \in Nat, NEW T, 0 \in T, \A n \in 0 .. b : n # b /\ n \in T => n + 1 \in T
  PROVE  \A n \in 0 .. b : n \in T
<1> DEFINE Out == {n \in 0 .. b : n \notin T}
<1>1. SUFFICES ASSUME NEW x \in Out PROVE FALSE
  OBVIOUS
<1>2. PICK m \in Out : \A k \in Out : m <= k
  <2>1. Out \in SUBSET Nat
    OBVIOUS
  <2> HIDE DEF Out
  <2>2. QED
    BY <1>1, <2>1, LeastNat
<1>3. m - 1 \in 0 .. b /\ m - 1 # b
  OBVIOUS
<1>4. m - 1 \in T
  BY <1>2, <1>3
<1>5. (m - 1) + 1 \in T
  BY <1>3, <1>4
<1>6. QED
  BY <1>5

\* s0 in S, and a step from S to S for every index up to n; f is what they define.
Recurs(S, n, s0, G) == n \in Nat /\ s0 \in S /\ G \in [0 .. n -> [S -> S]]
Solves(f, S, n, s0, G) ==
  f \in [0 .. n -> S] /\ \A i \in 0 .. n : f[i] = IF i = 0 THEN s0 ELSE G[i][f[i - 1]]

\* A function by primitive recursion over an interval exists.
LEMMA RecursionExists ==
  ASSUME NEW S, NEW n, NEW s0, NEW G, Recurs(S, n, s0, G)
  PROVE  \E f : Solves(f, S, n, s0, G)
<1> USE DEF Recurs
<1> DEFINE Good(f, m) == \A i \in 0 .. m : f[i] = IF i = 0 THEN s0 ELSE G[i][f[i - 1]]
           T == {m \in 0 .. n : ~\E f \in [0 .. m -> S] : Good(f, m)}
<1>1. SUFFICES ASSUME n \in T PROVE FALSE
  BY DEF Solves
<1>2. PICK m \in T : \A k \in T : m <= k
  <2>1. T \in SUBSET Nat
    OBVIOUS
  <2> HIDE DEF T
  <2>2. QED
    BY <1>1, <2>1, LeastNat
<1>3. m \in 0 .. n
  OBVIOUS
<1>4. m # 0
  <2>1. [i \in 0 .. 0 |-> s0] \in [0 .. 0 -> S] /\ Good([i \in 0 .. 0 |-> s0], 0)
    OBVIOUS
  <2>2. QED
    BY <2>1
<1>5. m - 1 \in 0 .. n /\ m - 1 \notin T
  <2>1. m - 1 \in 0 .. n /\ ~(m <= m - 1)
    BY <1>3, <1>4
  <2> HIDE DEF T
  <2>2. QED
    BY <1>2, <2>1
<1>6. PICK g \in [0 .. m - 1 -> S] : Good(g, m - 1)
  BY <1>5
<1> DEFINE last == G[m][g[m - 1]]
           f == [i \in 0 .. m |-> IF i = m THEN last ELSE g[i]]
<1>7. last \in S
  <2>1. m - 1 \in 0 .. m - 1
    BY <1>3, <1>4
  <2>2. g[m - 1] \in S
    BY <2>1
  <2>3. G[m] \in [S -> S]
    BY <1>3
  <2>4. QED
    BY <2>2, <2>3
<1>8. f \in [0 .. m -> S]
  <2>1. ASSUME NEW i \in 0 .. m, i # m
        PROVE  g[i] \in S
    <3>1. i \in 0 .. m - 1
      BY <1>3, <2>1
    <3>2. QED
      BY <3>1
  <2> HIDE DEF last
  <2>2. QED
    BY <1>7, <2>1
<1>9. ASSUME NEW i \in 0 .. m
      PROVE  f[i] = IF i = 0 THEN s0 ELSE G[i][f[i - 1]]
  <2>1. CASE i = m
    <3>1. f[i] = last /\ i - 1 \in 0 .. m /\ i - 1 # m
      BY <1>3, <1>4, <2>1
    <3>2. f[i - 1] = g[m - 1]
      BY <2>1, <3>1
    <3>3. QED
      BY <1>4, <2>1, <3>1, <3>2
  <2>2. CASE i # m
    <3>1. i \in 0 .. m - 1
      BY <1>3, <2>2
    <3>2. f[i] = g[i]
      BY <2>2
    <3>3. i # 0 => f[i - 1] = g[i - 1]
      BY <1>3, <3>1
    <3>4. QED
      BY <1>6, <3>1, <3>2, <3>3
  <2>3. QED
    BY <2>1, <2>2
<1>10. Good(f, m)
  BY <1>9
<1>11. QED
  <2> HIDE DEF f, Good
  <2>1. QED
    BY <1>3, <1>8, <1>10

\* The factors of a product may be reduced.
LEMMA ReducedFactors ==
  ASSUME NEW q \in Nat \ {0}, NEW x \in Nat, NEW y \in Nat
  PROVE  ((x % q) * (y % q)) % q = (x * y) % q /\ ((x % q) * y) % q = (x * y) % q
<1>1. x \in Int /\ y \in Int
  OBVIOUS
<1>2. PICK r \in Int, s \in Int : r = x % q /\ s = y % q /\ Same(r, x, q) /\ Same(s, y, q)
  <2>1. Same(x % q, x, q) /\ Same(y % q, y, q)
    BY ONLY <1>1, q \in Nat \ {0}, SameMod
  <2>2. (x % q) \in Int /\ (y % q) \in Int
    OBVIOUS
  <2>3. QED
    BY ONLY <2>1, <2>2
<1>3. Same(r * s, x * y, q) /\ Same(r * y, x * y, q)
  <2>1. q \in Nat
    OBVIOUS
  <2>2. Same(y, y, q)
    BY <2>1, SameReflexive
  <2>3. QED
    BY ONLY <1>1, <1>2, <2>1, <2>2, r \in Int, s \in Int, SameProduct
<1>4. PICK a \in Int, b \in Int, c \in Int : a = r * s /\ b = x * y /\ c = r * y
  OBVIOUS
<1>5. Same(a, b, q) /\ Same(c, b, q)
  BY ONLY <1>3, <1>4
<1>6. a % q = b % q /\ c % q = b % q
  BY ONLY <1>5, a \in Int, b \in Int, c \in Int, q \in Nat \ {0}, SameRemainders
<1>7. QED
  BY ONLY <1>2, <1>4, <1>6
-----------------------------------------------------------------------------
(* Powers                                                                  *)

\* b to the n.
PowerOf(b, n) == LET p[i \in 0 .. n] == IF i = 0 THEN 1 ELSE p[i - 1] * b IN p[n]

\* What recursion says of the powers.
LEMMA PowerList ==
  ASSUME NEW b \in Nat, NEW n \in Nat
  PROVE  \E p \in [0 .. n -> Nat] :
           /\ PowerOf(b, n) = p[n] /\ p[0] = 1
           /\ \A i \in 0 .. n : i # 0 => p[i] = p[i - 1] * b
<1> DEFINE F(g) == [i \in 0 .. n |-> IF i = 0 THEN 1 ELSE g[i - 1] * b]
           G == [i \in 0 .. n |-> [s \in Nat |-> s * b]]
<1>1. Recurs(Nat, n, 1, G)
  BY DEF Recurs
<1> HIDE DEF G
<1>2. PICK f : Solves(f, Nat, n, 1, G)
  BY ONLY <1>1, RecursionExists, Zenon
<1>3. ASSUME NEW i \in 0 .. n
      PROVE  f[i] = IF i = 0 THEN 1 ELSE f[i - 1] * b
  <2>1. i # 0 => f[i - 1] \in Nat
    BY <1>2 DEF Solves
  <2>2. f[i] = IF i = 0 THEN 1 ELSE G[i][f[i - 1]]
    BY ONLY <1>2, i \in 0 .. n, Zenon DEF Solves
  <2>3. QED
    BY <2>1, <2>2 DEF G
<1>4. f = F(f)
  <2>1. f = [i \in 0 .. n |-> f[i]]
    BY <1>2 DEF Solves
  <2>2. QED
    BY ONLY <1>3, <2>1, Zenon
<1>5. PICK y : y = F(y) /\ PowerOf(b, n) = y[n]
  <2>1. PowerOf(b, n) = (CHOOSE y : y = F(y))[n]
    BY Zenon DEF PowerOf
  <2> HIDE DEF F
  <2>2. QED
    BY ONLY <1>4, <2>1, Zenon
<1>6. \A i \in 0 .. n : y[i] = IF i = 0 THEN 1 ELSE y[i - 1] * b
  BY ONLY <1>5, Zenon
<1> DEFINE T == {i \in 0 .. n : y[i] \in Nat}
<1>7. 0 \in T
  BY <1>6
<1>8. ASSUME NEW i \in 0 .. n, i # n, i \in T
      PROVE  i + 1 \in T
  <2>1. i + 1 \in 0 .. n /\ i + 1 # 0 /\ (i + 1) - 1 = i /\ y[i] \in Nat
    BY <1>8
  <2>2. y[i + 1] = y[i] * b
    BY ONLY <1>6, <2>1
  <2>3. QED
    BY ONLY <2>1, <2>2, b \in Nat
<1> HIDE DEF T
<1>9. \A i \in 0 .. n : i \in T
  BY <1>7, <1>8, Induction
<1>10. \A i \in 0 .. n : y[i] \in Nat
  BY <1>9 DEF T
<1>11. y \in [0 .. n -> Nat]
  <2>1. y = [i \in 0 .. n |-> IF i = 0 THEN 1 ELSE y[i - 1] * b]
    BY <1>5
  <2>2. QED
    BY ONLY <1>10, <2>1
<1>12. QED
  BY <1>5, <1>6, <1>11

\* The recursive law, and the type.
LEMMA PowerOfStep ==
  ASSUME NEW b \in Nat
  PROVE  /\ PowerOf(b, 0) = 1
         /\ \A n \in Nat : PowerOf(b, n) \in Nat /\ PowerOf(b, n + 1) = PowerOf(b, n) * b
<1>1. PowerOf(b, 0) = 1
  <2>1. 0 \in Nat
    OBVIOUS
  <2>2. QED
    BY ONLY <2>1, b \in Nat, PowerList
<1>2. ASSUME NEW n \in Nat
      PROVE  PowerOf(b, n) \in Nat /\ PowerOf(b, n + 1) = PowerOf(b, n) * b
  <2>1. PICK p \in [0 .. n -> Nat] :
           /\ PowerOf(b, n) = p[n] /\ p[0] = 1
           /\ \A i \in 0 .. n : i # 0 => p[i] = p[i - 1] * b
    BY ONLY n \in Nat, b \in Nat, PowerList
  <2>2. PICK m \in Nat : m = n + 1
    OBVIOUS
  <2>3. PICK r \in [0 .. m -> Nat] :
           /\ PowerOf(b, m) = r[m] /\ r[0] = 1
           /\ \A i \in 0 .. m : i # 0 => r[i] = r[i - 1] * b
    BY ONLY m \in Nat, b \in Nat, PowerList
  <2> DEFINE T == {i \in 0 .. n : p[i] = r[i]}
  <2>4. 0 \in T
    BY <2>1, <2>3
  <2>5. ASSUME NEW i \in 0 .. n, i # n, i \in T
        PROVE  i + 1 \in T
    <3>1. i + 1 \in 0 .. n /\ i + 1 \in 0 .. m /\ i + 1 # 0 /\ (i + 1) - 1 = i /\ p[i] = r[i]
      BY <2>2, <2>5
    <3>2. p[i + 1] = p[i] * b /\ r[i + 1] = r[i] * b
      BY ONLY <2>1, <2>3, <3>1
    <3>3. QED
      BY <3>1, <3>2
  <2> HIDE DEF T
  <2>6. \A i \in 0 .. n : i \in T
    BY <2>4, <2>5, Induction
  <2>7. p[n] = r[n]
    <3>1. n \in T
      BY <2>6
    <3>2. QED
      BY <3>1 DEF T
  <2>8. m \in 0 .. m /\ m # 0 /\ m - 1 = n /\ n \in 0 .. n
    BY <2>2
  <2>9. r[m] = r[n] * b /\ p[n] \in Nat
    BY ONLY <2>1, <2>3, <2>8
  <2>10. QED
    BY ONLY <2>1, <2>2, <2>3, <2>7, <2>9
<1>3. QED
  BY <1>1, <1>2

\* The law of exponents.
LEMMA PowerOfSum ==
  ASSUME NEW b \in Nat, NEW m \in Nat, NEW n \in Nat, NEW s, s = m + n
  PROVE  PowerOf(b, s) = PowerOf(b, m) * PowerOf(b, n)
<1> DEFINE T == {i \in 0 .. n : PowerOf(b, m + i) = PowerOf(b, m) * PowerOf(b, i)}
<1>1. /\ PowerOf(b, 0) = 1
      /\ \A i \in Nat : PowerOf(b, i) \in Nat /\ PowerOf(b, i + 1) = PowerOf(b, i) * b
  BY ONLY b \in Nat, PowerOfStep
<1>2. 0 \in T
  <2>1. m + 0 = m /\ 0 \in 0 .. n /\ PowerOf(b, m) \in Nat
    BY <1>1
  <2>2. QED
    BY <1>1, <2>1
<1>3. ASSUME NEW i \in 0 .. n, i # n, i \in T
      PROVE  i + 1 \in T
  <2>1. i \in Nat /\ m + i \in Nat /\ i + 1 \in 0 .. n /\ m + (i + 1) = (m + i) + 1
    BY <1>3
  <2>2. PICK x \in Nat, y \in Nat : x = PowerOf(b, m) /\ y = PowerOf(b, i)
    BY <1>1, <2>1
  <2>3. PowerOf(b, m + (i + 1)) = (x * y) * b
    BY ONLY <1>1, <1>3, <2>1, <2>2
  <2>4. PowerOf(b, i + 1) = y * b
    BY ONLY <1>1, <2>1, <2>2
  <2>5. (x * y) * b = x * (y * b)
    BY ONLY x \in Nat, y \in Nat, b \in Nat
  <2>6. PowerOf(b, m + (i + 1)) = x * PowerOf(b, i + 1)
    BY ONLY <2>3, <2>4, <2>5
  <2>7. QED
    BY <2>1, <2>2, <2>6
<1> HIDE DEF T
<1>4. \A i \in 0 .. n : i \in T
  BY <1>2, <1>3, Induction
<1>5. n \in T
  BY <1>4
<1>6. QED
  BY <1>5 DEF T

\* Powers of a base above 1 grow.
LEMMA PowerOfGrows ==
  ASSUME NEW b \in Nat, b >= 1, NEW m \in Nat, NEW n \in Nat, m <= n
  PROVE  /\ PowerOf(b, m) >= 1 /\ PowerOf(b, m) <= PowerOf(b, n)
         /\ b >= 2 /\ m # n => PowerOf(b, m) < PowerOf(b, n)
<1>1. /\ PowerOf(b, 0) = 1
      /\ \A i \in Nat : PowerOf(b, i) \in Nat /\ PowerOf(b, i + 1) = PowerOf(b, i) * b
  BY ONLY b \in Nat, PowerOfStep
<1> DEFINE P(i) == PowerOf(b, i)
           T == {i \in 0 .. n : /\ P(i) >= 1
                                /\ \A j \in 0 .. i : P(j) <= P(i) /\ (b >= 2 /\ j # i => P(j) < P(i))}
<1>2. 0 \in T
  <2>1. 0 \in 0 .. n /\ \A j \in 0 .. 0 : j = 0
    OBVIOUS
  <2>2. QED
    BY <1>1, <2>1
<1>3. ASSUME NEW i \in 0 .. n, i # n, i \in T
      PROVE  i + 1 \in T
  <2>1. i \in Nat /\ i + 1 \in 0 .. n
    BY <1>3
  <2>2. PICK x \in Nat, y \in Nat : x = P(i) /\ y = P(i + 1) /\ y = x * b /\ x >= 1
    BY <1>1, <1>3, <2>1
  <2>3. y >= x /\ (b >= 2 => y > x)
    <3>1. CASE b = 1
      BY <2>2, <3>1
    <3>2. CASE b >= 2
      <4>1. x * b >= x * 2
        BY ONLY <3>2, b \in Nat, x \in Nat
      <4>2. QED
        BY ONLY <2>2, <4>1, x \in Nat, y \in Nat
    <3>3. QED
      BY <3>1, <3>2
  <2>4. ASSUME NEW j \in 0 .. i + 1
        PROVE  P(j) <= P(i + 1) /\ (b >= 2 /\ j # i + 1 => P(j) < P(i + 1))
    <3>1. CASE j = i + 1
      BY <2>2, <3>1
    <3>2. CASE j # i + 1
      <4>1. j \in 0 .. i /\ j \in Nat
        BY <2>1, <3>2
      <4>2. PICK z \in Nat : z = P(j)
        BY <1>1, <4>1
      <4>3. z <= x
        BY <1>3, <2>2, <4>1, <4>2
      <4>4. z <= y /\ (b >= 2 => z < y)
        BY ONLY <2>3, <4>3, x \in Nat, y \in Nat, z \in Nat
      <4>5. QED
        BY ONLY <2>2, <4>2, <4>4
    <3>3. QED
      BY <3>1, <3>2
  <2>5. P(i + 1) >= 1
    BY ONLY <2>2, <2>3, x \in Nat, y \in Nat
  <2> HIDE DEF P
  <2>6. QED
    BY <2>1, <2>4, <2>5
<1> HIDE DEF T
<1>4. \A i \in 0 .. n : i \in T
  BY <1>2, <1>3, Induction
<1>5. m \in T /\ n \in T /\ m \in 0 .. n
  BY <1>4
<1>6. QED
  BY <1>5 DEF T

\* The first two powers.
LEMMA PowerOfOne ==
  ASSUME NEW b \in Nat
  PROVE  PowerOf(b, 0) = 1 /\ PowerOf(b, 1) = b
<1>1. 0 \in Nat /\ 0 + 1 = 1 /\ 1 * b = b
  OBVIOUS
<1>2. PowerOf(b, 0) = 1 /\ PowerOf(b, 0 + 1) = PowerOf(b, 0) * b
  BY ONLY <1>1, b \in Nat, PowerOfStep
<1>3. QED
  BY ONLY <1>1, <1>2

\* A larger base has larger powers.
LEMMA PowerOfBase ==
  ASSUME NEW a \in Nat, NEW b \in Nat, a <= b, NEW n \in Nat
  PROVE  PowerOf(a, n) <= PowerOf(b, n)
<1> DEFINE T == {i \in 0 .. n : PowerOf(a, i) <= PowerOf(b, i)}
<1>1. /\ PowerOf(a, 0) = 1 /\ PowerOf(b, 0) = 1
      /\ \A i \in Nat : PowerOf(a, i) \in Nat /\ PowerOf(a, i + 1) = PowerOf(a, i) * a
      /\ \A i \in Nat : PowerOf(b, i) \in Nat /\ PowerOf(b, i + 1) = PowerOf(b, i) * b
  BY ONLY a \in Nat, b \in Nat, PowerOfStep
<1>2. 0 \in T
  BY ONLY <1>1, n \in Nat
<1>3. ASSUME NEW i \in 0 .. n, i # n, i \in T
      PROVE  i + 1 \in T
  <2>1. i \in Nat /\ i + 1 \in 0 .. n /\ PowerOf(a, i) <= PowerOf(b, i)
    BY ONLY <1>3, n \in Nat
  <2>2. PICK x \in Nat, y \in Nat : /\ x = PowerOf(a, i) /\ y = PowerOf(b, i) /\ x <= y
                                    /\ PowerOf(a, i + 1) = x * a /\ PowerOf(b, i + 1) = y * b
    BY ONLY <1>1, <2>1
  <2>3. PICK d \in Nat, e \in Nat : y = x + d /\ b = a + e
    <3>1. y - x \in Nat /\ b - a \in Nat /\ y = x + (y - x) /\ b = a + (b - a)
      BY ONLY <2>2, a <= b, a \in Nat, b \in Nat, x \in Nat, y \in Nat
    <3>2. QED
      BY ONLY <3>1
  <2>4. (x + d) * (a + e) = x * a + (x * e + d * a + d * e)
    BY ONLY x \in Nat, d \in Nat, a \in Nat, e \in Nat
  <2>5. x * e + d * a + d * e \in Nat /\ x * a \in Nat
    BY ONLY x \in Nat, d \in Nat, a \in Nat, e \in Nat
  <2>6. x * a <= y * b
    BY ONLY <2>3, <2>4, <2>5
  <2>7. QED
    BY ONLY <2>1, <2>2, <2>6
<1> HIDE DEF T
<1>4. \A i \in 0 .. n : i \in T
  BY ONLY <1>2, <1>3, n \in Nat, Induction
<1>5. n \in T
  BY ONLY <1>4, n \in Nat
<1>6. QED
  BY ONLY <1>5 DEF T

\* Powers of two.
TwoTo(n) == PowerOf(2, n)

\* What is used of the powers of two.
LEMMA TwoToStep ==
  /\ TwoTo(0) = 1
  /\ \A n \in Nat : TwoTo(n) \in Nat /\ TwoTo(n) >= 1 /\ TwoTo(n + 1) = TwoTo(n) * 2
<1>1. 2 \in Nat /\ 2 >= 1
  OBVIOUS
<1>2. \A n \in Nat : n <= n
  OBVIOUS
<1>3. QED
  BY ONLY <1>1, <1>2, PowerOfStep, PowerOfGrows DEF TwoTo

\* The law of exponents for them.
LEMMA TwoToSum ==
  ASSUME NEW m \in Nat, NEW n \in Nat, NEW s, s = m + n
  PROVE  TwoTo(s) = TwoTo(m) * TwoTo(n)
<1>1. PICK b \in Nat : b = 2
  OBVIOUS
<1>2. PowerOf(b, s) = PowerOf(b, m) * PowerOf(b, n)
  BY ONLY m \in Nat, n \in Nat, s = m + n, b \in Nat, PowerOfSum
<1>3. QED
  BY ONLY <1>1, <1>2 DEF TwoTo

\* They grow.
LEMMA TwoToGrows ==
  ASSUME NEW m \in Nat, NEW n \in Nat
  PROVE  /\ m <= n => TwoTo(m) <= TwoTo(n)
         /\ m < n => TwoTo(m) < TwoTo(n)
<1>1. PICK b \in Nat : b = 2 /\ b >= 1 /\ b >= 2
  OBVIOUS
<1>2. ASSUME m <= n
      PROVE  PowerOf(b, m) <= PowerOf(b, n) /\ (m # n => PowerOf(b, m) < PowerOf(b, n))
  BY ONLY <1>1, <1>2, m \in Nat, n \in Nat, b \in Nat, PowerOfGrows
<1>3. QED
  BY <1>1, <1>2 DEF TwoTo
-----------------------------------------------------------------------------
(* What steps of a recursion keep                                          *)

\* What solves a recursive definition wherever its steps stay in S, solves it in S.
LEMMA RecursionSolved ==
  ASSUME NEW S, NEW n, NEW s0, NEW G, Recurs(S, n, s0, G), NEW y,
         y = [i \in 0 .. n |-> y[i]], y[0] = s0,
         \A i \in 0 .. n : i # 0 /\ y[i - 1] \in S => y[i] = G[i][y[i - 1]]
  PROVE  Solves(y, S, n, s0, G)
<1> USE DEF Recurs
<1> DEFINE T == {i \in 0 .. n : y[i] \in S}
<1>1. 0 \in T
  OBVIOUS
<1>2. ASSUME NEW i \in 0 .. n, i # n, i \in T
      PROVE  i + 1 \in T
  <2>1. i + 1 \in 0 .. n /\ i + 1 # 0 /\ (i + 1) - 1 = i
    BY <1>2
  <2>2. y[i + 1] = G[i + 1][y[i]] /\ y[i] \in S
    BY <1>2, <2>1
  <2>3. G[i + 1] \in [S -> S]
    BY <2>1
  <2>4. QED
    BY <2>1, <2>2, <2>3
<1> HIDE DEF T
<1>3. \A i \in 0 .. n : i \in T
  BY <1>1, <1>2, Induction
<1>4. \A i \in 0 .. n : y[i] \in S
  BY <1>3 DEF T
<1>5. y \in [0 .. n -> S]
  BY <1>4
<1>6. ASSUME NEW i \in 0 .. n
      PROVE  y[i] = IF i = 0 THEN s0 ELSE G[i][y[i - 1]]
  <2>1. CASE i = 0
    BY <2>1
  <2>2. CASE i # 0
    <3>1. i - 1 \in 0 .. n
      BY <2>2
    <3>2. QED
      BY <1>4, <2>2, <3>1
  <2>3. QED
    BY <2>1, <2>2
<1>7. QED
  BY <1>5, <1>6 DEF Solves

\* What a solution is, step by step.
LEMMA SolvedSteps ==
  ASSUME NEW S, NEW n, NEW s0, NEW G, Recurs(S, n, s0, G), NEW f, Solves(f, S, n, s0, G)
  PROVE  /\ f = [i \in 0 .. n |-> f[i]] /\ f[0] = s0 /\ f[n] \in S
         /\ \A i \in 0 .. n : i # 0 => f[i - 1] \in S /\ f[i] = G[i][f[i - 1]]
<1>1. n \in Nat /\ 0 \in 0 .. n /\ n \in 0 .. n /\ \A i \in 0 .. n : i # 0 => i - 1 \in 0 .. n
  BY DEF Recurs
<1>2. f \in [0 .. n -> S] /\ \A i \in 0 .. n : f[i] = IF i = 0 THEN s0 ELSE G[i][f[i - 1]]
  BY DEF Solves
<1>3. f[0] = s0
  <2>1. f[0] = IF 0 = 0 THEN s0 ELSE G[0][f[0 - 1]]
    BY ONLY <1>1, <1>2, Zenon
  <2>2. QED
    BY ONLY <2>1, Zenon
<1>4. f = [i \in 0 .. n |-> f[i]] /\ f[n] \in S
  BY <1>1, <1>2
<1>5. ASSUME NEW i \in 0 .. n, i # 0
      PROVE  f[i - 1] \in S /\ f[i] = G[i][f[i - 1]]
  BY <1>1, <1>2, <1>5
<1>6. QED
  BY <1>3, <1>4, <1>5
-----------------------------------------------------------------------------
(* Powers and products                                                     *)

\* A natural number and its residue.
LEMMA ResidueOf ==
  ASSUME NEW q \in Nat \ {0}, NEW x \in Nat
  PROVE  x % q \in 0 .. q - 1 /\ x % q \in Nat /\ Same(x % q, x, q)
<1>1. x \in Int
  OBVIOUS
<1>2. Same(x % q, x, q)
  BY ONLY <1>1, q \in Nat \ {0}, SameMod
<1>3. QED
  BY <1>2

\* A natural number is twice its half, or one more.
LEMMA HalfOf ==
  ASSUME NEW x \in Nat
  PROVE  \E z \in Nat, d \in {0, 1} : z = x \div 2 /\ d = x % 2 /\ x = 2 * z + d
<1>1. x \in Int /\ 2 \in Nat \ {0}
  OBVIOUS
<1>2. x = 2 * (x \div 2) + (x % 2)
  BY ONLY <1>1, DivMod
<1>3. x \div 2 \in Nat /\ (x % 2 = 0 \/ x % 2 = 1)
  OBVIOUS
<1>4. QED
  BY <1>2, <1>3

\* Congruent bases have congruent powers.
LEMMA PowerSame ==
  ASSUME NEW q \in Nat, NEW a \in Nat, NEW b \in Nat, Same(a, b, q), NEW n \in Nat
  PROVE  Same(PowerOf(a, n), PowerOf(b, n), q)
<1> DEFINE T == {i \in 0 .. n : Same(PowerOf(a, i), PowerOf(b, i), q)}
<1>1. /\ PowerOf(a, 0) = 1 /\ PowerOf(b, 0) = 1
      /\ \A i \in Nat : PowerOf(a, i) \in Nat /\ PowerOf(a, i + 1) = PowerOf(a, i) * a
      /\ \A i \in Nat : PowerOf(b, i) \in Nat /\ PowerOf(b, i + 1) = PowerOf(b, i) * b
  BY ONLY a \in Nat, b \in Nat, PowerOfStep
<1>2. 0 \in T
  <2>1. 1 \in Int
    OBVIOUS
  <2>2. Same(1, 1, q)
    BY <2>1, SameReflexive
  <2>3. QED
    BY <1>1, <2>2
<1>3. ASSUME NEW i \in 0 .. n, i # n, i \in T
      PROVE  i + 1 \in T
  <2>1. PICK x \in Int, y \in Int : x = PowerOf(a, i) /\ y = PowerOf(b, i) /\ Same(x, y, q)
    BY <1>1, <1>3
  <2>2. a \in Int /\ b \in Int
    OBVIOUS
  <2>3. Same(x * a, y * b, q)
    BY <2>1, <2>2, SameProduct
  <2>4. PowerOf(a, i + 1) = x * a /\ PowerOf(b, i + 1) = y * b /\ i + 1 \in 0 .. n
    BY <1>1, <1>3, <2>1
  <2>5. QED
    BY <2>3, <2>4
<1> HIDE DEF T
<1>4. \A i \in 0 .. n : i \in T
  BY <1>2, <1>3, Induction
<1>5. QED
  BY <1>4 DEF T

\* The power of a product.
LEMMA PowerOfProduct ==
  ASSUME NEW a \in Nat, NEW b \in Nat, NEW n \in Nat
  PROVE  PowerOf(a * b, n) = PowerOf(a, n) * PowerOf(b, n)
<1>1. PICK c \in Nat : c = a * b
  OBVIOUS
<1> DEFINE T == {i \in 0 .. n : PowerOf(c, i) = PowerOf(a, i) * PowerOf(b, i)}
<1>2. /\ PowerOf(a, 0) = 1 /\ PowerOf(b, 0) = 1 /\ PowerOf(c, 0) = 1
      /\ \A i \in Nat : PowerOf(a, i) \in Nat /\ PowerOf(a, i + 1) = PowerOf(a, i) * a
      /\ \A i \in Nat : PowerOf(b, i) \in Nat /\ PowerOf(b, i + 1) = PowerOf(b, i) * b
      /\ \A i \in Nat : PowerOf(c, i) \in Nat /\ PowerOf(c, i + 1) = PowerOf(c, i) * c
  BY ONLY a \in Nat, b \in Nat, c \in Nat, PowerOfStep
<1>3. 0 \in T
  BY <1>2
<1>4. ASSUME NEW i \in 0 .. n, i # n, i \in T
      PROVE  i + 1 \in T
  <2>1. PICK x \in Nat, y \in Nat : x = PowerOf(a, i) /\ y = PowerOf(b, i) /\ PowerOf(c, i) = x * y
    BY <1>2, <1>4
  <2>2. /\ PowerOf(a, i + 1) = x * a /\ PowerOf(b, i + 1) = y * b /\ PowerOf(c, i + 1) = (x * y) * c
        /\ i + 1 \in 0 .. n
    BY <1>2, <1>4, <2>1
  <2>3. (x * y) * (a * b) = (x * a) * (y * b)
    OBVIOUS
  <2>4. QED
    BY <1>1, <2>2, <2>3
<1> HIDE DEF T
<1>5. \A i \in 0 .. n : i \in T
  BY <1>3, <1>4, Induction
<1>6. QED
  BY <1>1, <1>5 DEF T

\* An even power is one of the square.
LEMMA PowerOfSquare ==
  ASSUME NEW b \in Nat, NEW n \in Nat
  PROVE  PowerOf(b, 2 * n) = PowerOf(b * b, n)
<1>1. 2 * n = n + n
  OBVIOUS
<1>2. PowerOf(b, 2 * n) = PowerOf(b, n) * PowerOf(b, n)
  BY <1>1, PowerOfSum
<1>3. QED
  BY <1>2, PowerOfProduct

\* The powers of one.
LEMMA PowerOfUnit ==
  ASSUME NEW n \in Nat
  PROVE  PowerOf(1, n) = 1
<1> DEFINE T == {i \in 0 .. n : PowerOf(1, i) = 1}
<1>1. PowerOf(1, 0) = 1 /\ \A i \in Nat : PowerOf(1, i + 1) = PowerOf(1, i) * 1
  <2>1. 1 \in Nat
    OBVIOUS
  <2>2. QED
    BY ONLY <2>1, PowerOfStep
<1>2. 0 \in T
  BY <1>1
<1>3. ASSUME NEW i \in 0 .. n, i # n, i \in T
      PROVE  i + 1 \in T
  BY <1>1, <1>3
<1> HIDE DEF T
<1>4. \A i \in 0 .. n : i \in T
  BY <1>2, <1>3, Induction
<1>5. QED
  BY <1>4 DEF T

\* A product grows with its first factor.
LEMMA ProductGrows ==
  ASSUME NEW x \in Nat, NEW y \in Nat, x <= y, NEW l \in Nat
  PROVE  x * l <= y * l /\ x * l \in Nat /\ y * l \in Nat
<1>1. PICK z \in Nat : y = x + z
  <2>1. y - x \in Nat /\ y = x + (y - x)
    OBVIOUS
  <2>2. QED
    BY <2>1
<1>2. (x + z) * l = x * l + z * l /\ x * l \in Nat /\ z * l \in Nat
  BY ONLY x \in Nat, z \in Nat, l \in Nat
<1>3. QED
  BY <1>1, <1>2

\* The product of two congruences with a third number in between.
LEMMA SameChain ==
  ASSUME NEW q \in Nat, NEW x \in Int, NEW y \in Int, NEW z \in Int, Same(x, y, q), Same(z, y, q)
  PROVE  Same(x, z, q)
<1>1. Same(y, z, q)
  BY SameSymmetric
<1>2. QED
  BY <1>1, SameTransitive

\* The product of two products.
LEMMA SameProducts ==
  ASSUME NEW q \in Nat, NEW x \in Int, NEW u \in Int, NEW y \in Int, NEW z \in Int, NEW v \in Int,
         NEW w \in Int, NEW s \in Int, NEW t \in Int, NEW c \in Int,
         Same(x, y * z, q), Same(u, v * w, q), Same(y * v, s, q), Same(z * w, t, q), Same(c, s * t, q)
  PROVE  Same(x * u, c, q)
<1>1. PICK a \in Int, b \in Int, d \in Int, e \in Int, f \in Int, g \in Int :
        a = y * z /\ b = v * w /\ d = y * v /\ e = z * w /\ f = s * t /\ g = x * u
  OBVIOUS
<1>2. Same(g, a * b, q)
  BY <1>1, SameProduct
<1>3. Same(d * e, f, q)
  BY <1>1, SameProduct
<1>4. PICK i \in Int : i = a * b /\ i = d * e
  <2>1. (y * z) * (v * w) = (y * v) * (z * w)
    OBVIOUS
  <2>2. a * b \in Int /\ a * b = d * e
    BY <1>1, <2>1
  <2>3. QED
    BY <2>2
<1>5. Same(g, f, q)
  <2>1. Same(g, i, q) /\ Same(i, f, q)
    BY <1>2, <1>3, <1>4
  <2>2. QED
    BY <2>1, SameTransitive
<1>6. Same(g, c, q)
  BY <1>1, <1>5, SameChain
<1>7. QED
  BY <1>1, <1>6

\* What the sum and the difference of the two halves' residues are.
LEMMA JoinedResidues ==
  ASSUME NEW q \in Nat, NEW x \in Int, NEW y \in Int, NEW e \in Int, NEW f \in Int,
         NEW z \in Int, NEW r \in Int, NEW m \in Int, NEW t \in Int,
         Same(e, x + z * y, q), Same(f, x + r * y, q), Same(r, -z, q), Same(z * m, 1, q)
  PROVE  /\ Same(t * e + t * f, (2 * t) * x, q)
         /\ Same((t * e - t * f) * m, (2 * t) * y, q)
<1>1. PICK u \in Int, v \in Int : u = z * y /\ v = r * y
  OBVIOUS
<1>2. PICK i \in Int, j \in Int, g \in Int :
        e = (x + u) + q * i /\ f = (x + v) + q * j /\ v = -u + q * g
  <2>1. PICK n \in Int : r = -z + q * n
    BY DEF Same
  <2>2. r * y = -(z * y) + q * (n * y) /\ n * y \in Int
    BY ONLY <2>1, q \in Nat, z \in Int, y \in Int, n \in Int
  <2>3. QED
    BY <1>1, <2>2 DEF Same
<1>3. PICK n \in Int : n = i + j + g /\ e + f = 2 * x + q * n
  <2>1. q * (i + j + g) = q * i + q * j + q * g
    BY ONLY q \in Nat, i \in Int, j \in Int, g \in Int
  <2>2. q * i \in Int /\ q * j \in Int /\ q * g \in Int
    OBVIOUS
  <2>3. QED
    BY <1>2, <2>1, <2>2
<1>4. PICK o \in Int : o = i - j - g /\ e - f = 2 * u + q * o
  <2>1. q * (i - j - g) = q * i - q * j - q * g
    BY ONLY q \in Nat, i \in Int, j \in Int, g \in Int
  <2>2. q * i \in Int /\ q * j \in Int /\ q * g \in Int
    OBVIOUS
  <2>3. QED
    BY <1>2, <2>1, <2>2
<1>5. Same(t * e + t * f, (2 * t) * x, q)
  <2>1. t * e + t * f = t * (e + f)
    BY ONLY t \in Int, e \in Int, f \in Int
  <2>2. t * (2 * x + q * n) = (2 * t) * x + q * (t * n)
    BY ONLY t \in Int, x \in Int, q \in Nat, n \in Int
  <2>3. t * n \in Int
    OBVIOUS
  <2>4. QED
    BY <1>3, <2>1, <2>2, <2>3 DEF Same
<1>6. Same((t * e - t * f) * m, (2 * t) * y, q)
  <2>1. (t * e - t * f) = t * (e - f)
    BY ONLY t \in Int, e \in Int, f \in Int
  <2>2. t * (2 * u + q * o) = (2 * t) * u + q * (t * o)
    BY ONLY t \in Int, u \in Int, q \in Nat, o \in Int
  <2>3. PICK b \in Int, w \in Int : b = 2 * t /\ w = t * o
    OBVIOUS
  <2>4. PICK d \in Int : z * m = 1 + q * d
    BY DEF Same
  <2>5. (b * u + q * w) * m = b * (y * (z * m)) + q * (w * m)
    <3>1. (b * (z * y) + q * w) * m = b * (y * (z * m)) + q * (w * m)
      BY ONLY b \in Int, z \in Int, y \in Int, q \in Nat, w \in Int, m \in Int
    <3>2. QED
      BY <1>1, <3>1
  <2>6. b * (y * (1 + q * d)) + q * (w * m) = b * y + q * ((b * y) * d + w * m)
    BY ONLY b \in Int, y \in Int, q \in Nat, d \in Int, w \in Int, m \in Int
  <2>7. (b * y) * d + w * m \in Int
    <3>1. b * y \in Int /\ w * m \in Int
      OBVIOUS
    <3>2. (b * y) * d \in Int
      BY ONLY <3>1, d \in Int
    <3>3. QED
      BY ONLY <3>1, <3>2
  <2>8. (t * e - t * f) * m = b * y + q * ((b * y) * d + w * m)
    BY <1>4, <2>1, <2>2, <2>3, <2>4, <2>5, <2>6
  <2>9. QED
    BY <2>3, <2>7, <2>8 DEF Same
<1>7. QED
  BY <1>5, <1>6
-----------------------------------------------------------------------------
(* Sums                                                                    *)

\* f has n terms.
Terms(f, n) == \A i \in 0 .. n - 1 : f[i] \in Int

\* What recursion says of the partial sums.
LEMMA SumList ==
  ASSUME NEW n \in Nat, NEW f, Terms(f, n)
  PROVE  \E s \in [0 .. n -> Int] :
           /\ SumTo(f, n) = s[n] /\ s[0] = 0
           /\ \A i \in 0 .. n : i # 0 => s[i] = s[i - 1] + f[i - 1]
<1> DEFINE F(g) == [i \in 0 .. n |-> IF i = 0 THEN 0 ELSE g[i - 1] + f[i - 1]]
           G == [i \in 0 .. n |-> [s \in Int |-> IF i = 0 THEN s ELSE s + f[i - 1]]]
<1>1. \A i \in 0 .. n : i # 0 => f[i - 1] \in Int
  BY DEF Terms
<1>2. Recurs(Int, n, 0, G)
  BY <1>1 DEF Recurs
<1>3. PICK y : Solves(y, Int, n, 0, G)
  <2> HIDE DEF G
  <2>1. QED
    BY ONLY <1>2, RecursionExists, Zenon
<1>4. /\ y = [i \in 0 .. n |-> y[i]] /\ y[0] = 0
      /\ \A i \in 0 .. n : i # 0 => y[i - 1] \in Int /\ y[i] = G[i][y[i - 1]]
  <2> HIDE DEF G
  <2>1. QED
    BY ONLY <1>2, <1>3, SolvedSteps
<1>5. y = F(y)
  <2>1. \A i \in 0 .. n : i # 0 => y[i] = y[i - 1] + f[i - 1]
    BY <1>4
  <2>2. QED
    BY <1>4, <2>1
<1>6. PICK z : z = F(z) /\ SumTo(f, n) = z[n]
  <2>1. SumTo(f, n) = (CHOOSE s : s = F(s))[n]
    BY Zenon DEF SumTo
  <2> HIDE DEF F
  <2>2. QED
    BY ONLY <1>5, <2>1, Zenon
<1>7. Solves(z, Int, n, 0, G)
  <2>1. z = [i \in 0 .. n |-> z[i]] /\ z[0] = 0
    BY <1>6
  <2>2. ASSUME NEW i \in 0 .. n, i # 0, z[i - 1] \in Int
        PROVE  z[i] = G[i][z[i - 1]]
    BY <1>6, <2>2
  <2> HIDE DEF G, F
  <2>3. QED
    BY <1>2, <2>1, <2>2, RecursionSolved
<1>8. z \in [0 .. n -> Int]
  BY <1>7 DEF Solves
<1>9. z[0] = 0 /\ \A i \in 0 .. n : i # 0 => z[i] = z[i - 1] + f[i - 1]
  BY <1>6
<1>10. QED
  BY <1>6, <1>8, <1>9

\* The recursive law of sums, and their type.
LEMMA SumLaw ==
  ASSUME NEW n \in Nat, NEW f, Terms(f, n)
  PROVE  /\ SumTo(f, 0) = 0
         /\ \A m \in 0 .. n : /\ SumTo(f, m) \in Int
                              /\ m # n => SumTo(f, m + 1) = SumTo(f, m) + f[m]
<1>1. ASSUME NEW m \in 0 .. n
      PROVE  \E s \in [0 .. m -> Int] :
               /\ SumTo(f, m) = s[m] /\ s[0] = 0
               /\ \A i \in 0 .. m : i # 0 => s[i] = s[i - 1] + f[i - 1]
  <2>1. m \in Nat /\ Terms(f, m)
    BY DEF Terms
  <2>2. QED
    BY ONLY <2>1, SumList
<1>2. SumTo(f, 0) = 0
  <2>1. 0 \in 0 .. n
    OBVIOUS
  <2>2. QED
    BY <1>1, <2>1
<1>3. ASSUME NEW m \in 0 .. n, m # n
      PROVE  SumTo(f, m + 1) = SumTo(f, m) + f[m]
  <2>1. PICK k \in 0 .. n : k = m + 1
    BY <1>3
  <2>2. PICK s \in [0 .. m -> Int] :
          /\ SumTo(f, m) = s[m] /\ s[0] = 0
          /\ \A i \in 0 .. m : i # 0 => s[i] = s[i - 1] + f[i - 1]
    BY <1>1
  <2>3. PICK r \in [0 .. k -> Int] :
          /\ SumTo(f, k) = r[k] /\ r[0] = 0
          /\ \A i \in 0 .. k : i # 0 => r[i] = r[i - 1] + f[i - 1]
    BY <1>1
  <2> DEFINE T == {i \in 0 .. m : s[i] = r[i]}
  <2>4. 0 \in T
    BY <2>2, <2>3
  <2>5. ASSUME NEW i \in 0 .. m, i # m, i \in T
        PROVE  i + 1 \in T
    <3>1. i + 1 \in 0 .. m /\ i + 1 \in 0 .. k /\ i + 1 # 0 /\ (i + 1) - 1 = i /\ s[i] = r[i]
      BY <2>1, <2>5
    <3>2. s[i + 1] = s[i] + f[i] /\ r[i + 1] = r[i] + f[i]
      BY ONLY <2>2, <2>3, <3>1
    <3>3. QED
      BY <3>1, <3>2
  <2> HIDE DEF T
  <2>6. m \in Nat
    OBVIOUS
  <2>7. \A i \in 0 .. m : i \in T
    BY <2>4, <2>5, <2>6, Induction
  <2>8. s[m] = r[m]
    BY <2>6, <2>7 DEF T
  <2>9. k \in 0 .. k /\ k # 0 /\ k - 1 = m
    BY <2>1
  <2>10. r[k] = r[m] + f[m]
    BY ONLY <2>3, <2>9
  <2>11. QED
    BY ONLY <2>1, <2>2, <2>3, <2>8, <2>10
<1>4. ASSUME NEW m \in 0 .. n
      PROVE  SumTo(f, m) \in Int
  <2>1. m \in 0 .. m
    OBVIOUS
  <2>2. QED
    BY <1>1, <2>1
<1>5. QED
  BY <1>2, <1>3, <1>4

\* A sum of combinations is the combination of the sums.
LEMMA SumCombined ==
  ASSUME NEW q \in Nat, NEW n \in Nat, NEW f, NEW g, NEW h, Terms(f, n), Terms(g, n), Terms(h, n),
         NEW x \in Int, \A i \in 0 .. n - 1 : Same(h[i], f[i] + x * g[i], q)
  PROVE  Same(SumTo(h, n), SumTo(f, n) + x * SumTo(g, n), q)
<1> DEFINE T == {m \in 0 .. n : Same(SumTo(h, m), SumTo(f, m) + x * SumTo(g, m), q)}
<1>1. 0 \in T
  <2>1. SumTo(h, 0) = 0 /\ SumTo(f, 0) = 0 /\ SumTo(g, 0) = 0
    BY SumLaw
  <2>2. 0 = 0 + x * 0 /\ 0 \in Int
    OBVIOUS
  <2>3. Same(0, 0, q)
    BY SameReflexive
  <2>4. QED
    BY <2>1, <2>2, <2>3
<1>2. ASSUME NEW m \in 0 .. n, m # n, m \in T
      PROVE  m + 1 \in T
  <2>1. m \in 0 .. n - 1 /\ m + 1 \in 0 .. n
    BY <1>2
  <2>2. PICK a \in Int, b \in Int, c \in Int :
          /\ a = SumTo(f, m) /\ b = SumTo(g, m) /\ c = SumTo(h, m)
          /\ SumTo(f, m + 1) = a + f[m] /\ SumTo(g, m + 1) = b + g[m] /\ SumTo(h, m + 1) = c + h[m]
    <3>1. SumTo(f, m) \in Int /\ SumTo(f, m + 1) = SumTo(f, m) + f[m]
      BY <1>2, SumLaw
    <3>2. SumTo(g, m) \in Int /\ SumTo(g, m + 1) = SumTo(g, m) + g[m]
      BY <1>2, SumLaw
    <3>3. SumTo(h, m) \in Int /\ SumTo(h, m + 1) = SumTo(h, m) + h[m]
      BY <1>2, SumLaw
    <3>4. QED
      BY <3>1, <3>2, <3>3
  <2>3. PICK u \in Int, v \in Int, w \in Int : u = f[m] /\ v = g[m] /\ w = h[m]
    BY <2>1 DEF Terms
  <2>4. Same(c, a + x * b, q) /\ Same(w, u + x * v, q)
    BY <1>2, <2>1, <2>2, <2>3
  <2>5. a + x * b \in Int /\ u + x * v \in Int
    OBVIOUS
  <2>6. Same(c + w, (a + x * b) + (u + x * v), q)
    BY <2>4, <2>5, SameSum
  <2>7. (a + x * b) + (u + x * v) = (a + u) + x * (b + v)
    OBVIOUS
  <2>8. QED
    BY <2>1, <2>2, <2>3, <2>6, <2>7
<1> HIDE DEF T
<1>3. \A m \in 0 .. n : m \in T
  BY <1>1, <1>2, Induction
<1>4. QED
  BY <1>3 DEF T

\* A sum of multiples is the multiple of the sum.
LEMMA SumScaled ==
  ASSUME NEW q \in Nat, NEW n \in Nat, NEW g, NEW h, Terms(g, n), Terms(h, n),
         NEW x \in Int, \A i \in 0 .. n - 1 : Same(h[i], x * g[i], q)
  PROVE  Same(SumTo(h, n), x * SumTo(g, n), q)
<1>1. PICK y \in Int : y = x - 1
  OBVIOUS
<1>2. ASSUME NEW i \in 0 .. n - 1
      PROVE  Same(h[i], g[i] + y * g[i], q)
  <2>1. PICK v \in Int : v = g[i]
    BY DEF Terms
  <2>2. v + y * v = x * v
    BY <1>1
  <2>3. QED
    BY <2>1, <2>2
<1>3. Same(SumTo(h, n), SumTo(g, n) + y * SumTo(g, n), q)
  BY <1>2, SumCombined
<1>4. PICK v \in Int : v = SumTo(g, n)
  BY SumLaw
<1>5. v + y * v = x * v
  BY <1>1
<1>6. QED
  BY <1>3, <1>4, <1>5

\* Terms may be moved round by one place.
LEMMA SumRotated ==
  ASSUME NEW q \in Nat, NEW n \in Nat, n >= 1, NEW f, NEW g, Terms(f, n), Terms(g, n),
         Same(g[0], f[n - 1], q), \A i \in 1 .. n - 1 : Same(g[i], f[i - 1], q)
  PROVE  Same(SumTo(g, n), SumTo(f, n), q)
<1> DEFINE T == {m \in 0 .. n - 1 : Same(SumTo(g, m + 1), f[n - 1] + SumTo(f, m), q)}
<1>0. n - 1 \in Nat /\ 0 \in 0 .. n - 1 /\ n - 1 \in 0 .. n - 1 /\ f[n - 1] \in Int /\ 0 \in 0 .. n /\ 0 # n
  BY DEF Terms
<1>1. 0 \in T
  <2>1. SumTo(f, 0) = 0 /\ SumTo(g, 0) = 0 /\ SumTo(g, 0 + 1) = SumTo(g, 0) + g[0]
    BY <1>0, SumLaw
  <2>2. g[0] \in Int
    BY <1>0 DEF Terms
  <2>3. SumTo(g, 0 + 1) = g[0] /\ f[n - 1] + SumTo(f, 0) = f[n - 1]
    BY <1>0, <2>1, <2>2
  <2>4. QED
    BY <1>0, <2>3
<1>2. ASSUME NEW m \in 0 .. n - 1, m # n - 1, m \in T
      PROVE  m + 1 \in T
  <2>1. /\ m + 1 \in 1 .. n - 1 /\ m + 1 \in 0 .. n - 1 /\ m + 1 \in 0 .. n /\ m \in 0 .. n
        /\ m + 1 # n /\ m # n /\ (m + 1) - 1 = m
    BY <1>2
  <2>2. SumTo(f, m) \in Int /\ SumTo(f, m + 1) = SumTo(f, m) + f[m]
    BY <2>1, SumLaw
  <2>3. SumTo(g, m + 1) \in Int /\ SumTo(g, (m + 1) + 1) = SumTo(g, m + 1) + g[m + 1]
    BY <2>1, SumLaw
  <2>4. PICK a \in Int, b \in Int, c \in Int, d \in Int, e \in Int :
          a = SumTo(f, m) /\ b = SumTo(g, m + 1) /\ c = f[m] /\ d = g[m + 1] /\ e = f[n - 1]
    BY <1>0, <2>1, <2>2, <2>3 DEF Terms
  <2>5. Same(b, e + a, q) /\ Same(d, c, q)
    BY <1>2, <2>1, <2>4
  <2>6. Same(b + d, (e + a) + c, q)
    BY <2>5, SameSum
  <2>7. (e + a) + c = e + (a + c)
    OBVIOUS
  <2>8. QED
    BY <2>1, <2>2, <2>3, <2>4, <2>6, <2>7
<1> HIDE DEF T
<1>3. \A m \in 0 .. n - 1 : m \in T
  BY <1>0, <1>1, <1>2, Induction
<1>4. Same(SumTo(g, (n - 1) + 1), f[n - 1] + SumTo(f, n - 1), q)
  BY <1>0, <1>3 DEF T
<1>5. (n - 1) + 1 = n /\ n - 1 \in 0 .. n /\ n - 1 # n
  OBVIOUS
<1>6. SumTo(f, n - 1) \in Int /\ SumTo(f, (n - 1) + 1) = SumTo(f, n - 1) + f[n - 1]
  BY <1>5, SumLaw
<1>7. QED
  BY <1>0, <1>4, <1>5, <1>6

\* The terms at even places and those at odd places, which have a factor.
LEMMA SumPaired ==
  ASSUME NEW q \in Nat, NEW n \in Nat, NEW f, NEW g, NEW h,
         Terms(f, n), Terms(g, n), Terms(h, 2 * n), NEW x \in Int,
         \A i \in 0 .. n - 1 : Same(h[2 * i], f[i], q) /\ Same(h[2 * i + 1], x * g[i], q)
  PROVE  Same(SumTo(h, 2 * n), SumTo(f, n) + x * SumTo(g, n), q)
<1> DEFINE T == {m \in 0 .. n : Same(SumTo(h, 2 * m), SumTo(f, m) + x * SumTo(g, m), q)}
<1>0. 2 * n \in Nat
  OBVIOUS
<1>1. 0 \in T
  <2>1. SumTo(h, 0) = 0 /\ SumTo(f, 0) = 0 /\ SumTo(g, 0) = 0
    BY <1>0, SumLaw
  <2>2. 0 = 0 + x * 0 /\ 0 \in Int /\ 2 * 0 = 0
    OBVIOUS
  <2>3. Same(0, 0, q)
    BY SameReflexive
  <2>4. QED
    BY <2>1, <2>2, <2>3
<1>2. ASSUME NEW m \in 0 .. n, m # n, m \in T
      PROVE  m + 1 \in T
  <2>1. /\ m \in 0 .. n - 1 /\ m + 1 \in 0 .. n /\ 2 * m \in 0 .. 2 * n /\ 2 * m + 1 \in 0 .. 2 * n
        /\ 2 * m # 2 * n /\ 2 * m + 1 # 2 * n /\ 2 * (m + 1) = (2 * m + 1) + 1
        /\ 2 * m \in 0 .. 2 * n - 1 /\ 2 * m + 1 \in 0 .. 2 * n - 1
    BY <1>2
  <2>2. SumTo(f, m) \in Int /\ SumTo(f, m + 1) = SumTo(f, m) + f[m]
    BY <1>2, SumLaw
  <2>3. SumTo(g, m) \in Int /\ SumTo(g, m + 1) = SumTo(g, m) + g[m]
    BY <1>2, SumLaw
  <2>4. SumTo(h, 2 * m) \in Int /\ SumTo(h, 2 * m + 1) = SumTo(h, 2 * m) + h[2 * m]
    BY <1>0, <2>1, SumLaw
  <2>5. SumTo(h, (2 * m + 1) + 1) = SumTo(h, 2 * m + 1) + h[2 * m + 1]
    BY <1>0, <2>1, SumLaw
  <2>6. PICK a \in Int, b \in Int, c \in Int, u \in Int, v \in Int, w \in Int, z \in Int :
          /\ a = SumTo(f, m) /\ b = SumTo(g, m) /\ c = SumTo(h, 2 * m)
          /\ u = f[m] /\ v = g[m] /\ w = h[2 * m] /\ z = h[2 * m + 1]
    BY <2>1, <2>2, <2>3, <2>4 DEF Terms
  <2>7. Same(c, a + x * b, q) /\ Same(w, u, q) /\ Same(z, x * v, q)
    BY <1>2, <2>1, <2>6
  <2>8. a + x * b \in Int /\ x * v \in Int
    OBVIOUS
  <2>9. Same(c + w, (a + x * b) + u, q)
    BY <2>7, <2>8, SameSum
  <2>10. Same((c + w) + z, ((a + x * b) + u) + x * v, q)
    BY <2>7, <2>8, <2>9, SameSum
  <2>11. ((a + x * b) + u) + x * v = (a + u) + x * (b + v)
    OBVIOUS
  <2>12. SumTo(h, 2 * (m + 1)) = (c + w) + z
    BY <2>1, <2>4, <2>5, <2>6
  <2>13. QED
    BY <2>1, <2>2, <2>3, <2>6, <2>10, <2>11, <2>12
<1> HIDE DEF T
<1>3. \A m \in 0 .. n : m \in T
  BY <1>1, <1>2, Induction
<1>4. QED
  BY <1>3 DEF T

\* Sums of congruent terms are congruent.
LEMMA SumSame ==
  ASSUME NEW q \in Nat, NEW n \in Nat, NEW g, NEW h, Terms(g, n), Terms(h, n),
         \A i \in 0 .. n - 1 : Same(h[i], g[i], q)
  PROVE  Same(SumTo(h, n), SumTo(g, n), q)
<1>1. ASSUME NEW i \in 0 .. n - 1
      PROVE  Same(h[i], 1 * g[i], q)
  <2>1. g[i] \in Int
    BY DEF Terms
  <2>2. 1 * g[i] = g[i]
    BY ONLY <2>1
  <2>3. QED
    BY <2>2
<1>2. Same(SumTo(h, n), 1 * SumTo(g, n), q)
  <2>1. 1 \in Int
    OBVIOUS
  <2>2. QED
    BY <1>1, <2>1, SumScaled
<1>3. SumTo(g, n) \in Int
  BY SumLaw
<1>4. 1 * SumTo(g, n) = SumTo(g, n)
  BY ONLY <1>3
<1>5. QED
  BY <1>2, <1>4

\* A sum that is reduced at every term is congruent to the sum.
LEMMA ReducedSums ==
  ASSUME NEW q \in Nat \ {0}, NEW n \in Nat, NEW f, Terms(f, n), NEW z,
         z[0] = 0, \A k \in 0 .. n : k # 0 => z[k] = (z[k - 1] + f[k - 1]) % q
  PROVE  z[n] \in 0 .. q - 1 /\ Same(z[n], SumTo(f, n), q)
<1> DEFINE T == {k \in 0 .. n : z[k] \in 0 .. q - 1 /\ Same(z[k], SumTo(f, k), q)}
<1>1. /\ SumTo(f, 0) = 0
      /\ \A m \in 0 .. n : /\ SumTo(f, m) \in Int
                           /\ m # n => SumTo(f, m + 1) = SumTo(f, m) + f[m]
  BY SumLaw
<1>2. 0 \in T
  <2>1. Same(0, 0, q)
    BY SameReflexive
  <2>2. QED
    BY <1>1, <2>1
<1>3. ASSUME NEW k \in 0 .. n, k # n, k \in T
      PROVE  k + 1 \in T
  <2>1. k + 1 \in 0 .. n /\ k + 1 # 0 /\ (k + 1) - 1 = k /\ k \in 0 .. n - 1
    BY <1>3
  <2>2. PICK x \in Int, y \in Int, s \in Int : x = z[k] /\ y = f[k] /\ s = SumTo(f, k)
    BY <1>1, <1>3, <2>1 DEF Terms
  <2>3. z[k + 1] = (x + y) % q /\ SumTo(f, k + 1) = s + y
    BY <1>1, <1>3, <2>1, <2>2
  <2>4. PICK u \in Int, v \in Int : u = x + y /\ v = s + y
    OBVIOUS
  <2>5. Same(x, s, q) /\ Same(y, y, q)
    BY <1>3, <2>2, SameReflexive
  <2>6. Same(u, v, q)
    BY ONLY <2>4, <2>5, q \in Nat, x \in Int, s \in Int, y \in Int, SameSum
  <2>7. Same(u % q, u, q) /\ u % q \in 0 .. q - 1 /\ u % q \in Int
    <3>1. Same(u % q, u, q)
      BY SameMod
    <3>2. u % q \in 0 .. q - 1
      BY ONLY q \in Nat \ {0}, u \in Int, DivMod
    <3>3. u % q \in Int
      BY <3>2
    <3>4. QED
      BY <3>1, <3>2, <3>3
  <2>8. Same(u % q, v, q)
    BY ONLY <2>6, <2>7, q \in Nat, u \in Int, v \in Int, SameTransitive
  <2>9. QED
    BY <2>1, <2>3, <2>4, <2>7, <2>8
<1> HIDE DEF T
<1>4. \A k \in 0 .. n : k \in T
  BY <1>2, <1>3, Induction
<1>5. n \in 0 .. n
  OBVIOUS
<1>6. QED
  BY <1>4, <1>5 DEF T
-----------------------------------------------------------------------------
(* Finite sets                                                             *)

Sets == INSTANCE FiniteSetTheorems

\* Arrays of numbers below q are finitely many.
LEMMA FiniteArrays ==
  ASSUME NEW S, Sets!IsFiniteSet(S), NEW T, Sets!IsFiniteSet(T)
  PROVE  Sets!IsFiniteSet([S -> T])
<1> DEFINE graph == [f \in [S -> T] |-> {<<i, f[i]>> : i \in S}]
<1>1. Sets!IsFiniteSet(SUBSET (S \X T))
  BY Sets!FS_Product, Sets!FS_SUBSET
<1>2. graph \in Sets!Injection([S -> T], SUBSET (S \X T))
  <2>1. graph \in [[S -> T] -> SUBSET (S \X T)]
    OBVIOUS
  <2>2. ASSUME NEW f \in [S -> T], NEW g \in [S -> T], graph[f] = graph[g]
        PROVE  f = g
    <3>1. ASSUME NEW i \in S
          PROVE  f[i] = g[i]
      <4>1. <<i, f[i]>> \in graph[f]
        OBVIOUS
      <4>2. <<i, f[i]>> \in {<<j, g[j]>> : j \in S}
        BY <2>2, <4>1
      <4>3. QED
        BY <4>2
    <3>2. QED
      BY <3>1
  <2>3. QED
    BY <2>1, <2>2 DEF Sets!Injection, Sets!IsInjective
<1>3. QED
  BY <1>1, <1>2, Sets!FS_Injection

\* The greatest of n numbers, by a loop that keeps the greater.
LEMMA GreatestOf ==
  ASSUME NEW n \in Nat, n >= 1, NEW f, \A i \in 0 .. n - 1 : f[i] \in Nat, NEW y, y[0] = 0,
         \A k \in 0 .. n : k # 0 => y[k] = IF f[k - 1] > y[k - 1] THEN f[k - 1] ELSE y[k - 1]
  PROVE  /\ \A i \in 0 .. n - 1 : f[i] <= y[n]
         /\ \E i \in 0 .. n - 1 : y[n] = f[i]
<1> DEFINE T == {k \in 0 .. n : /\ y[k] \in Nat
                                /\ \A i \in 0 .. k - 1 : f[i] <= y[k]
                                /\ y[k] = 0 \/ \E i \in 0 .. k - 1 : y[k] = f[i]}
<1>1. 0 \in T
  OBVIOUS
<1>2. ASSUME NEW k \in 0 .. n, k # n, k \in T
      PROVE  k + 1 \in T
  <2>1. k + 1 \in 0 .. n /\ k + 1 # 0 /\ (k + 1) - 1 = k /\ k \in 0 .. n - 1
    BY <1>2
  <2>2. PICK u \in Nat, v \in Nat : u = y[k] /\ v = f[k]
    BY <1>2, <2>1
  <2>3. y[k + 1] = IF v > u THEN v ELSE u
    BY <2>1, <2>2
  <2>4. \A i \in 0 .. k : i \in 0 .. k - 1 \/ i = k
    BY <2>1
  <2>5. \A i \in 0 .. k - 1 : f[i] <= u /\ f[i] \in Nat
    BY <1>2, <2>1, <2>2
  <2>6. \A i \in 0 .. k : f[i] <= y[k + 1]
    BY <2>2, <2>3, <2>4, <2>5
  <2>7. y[k + 1] = 0 \/ \E i \in 0 .. k : y[k + 1] = f[i]
    <3>1. CASE v > u
      BY <2>1, <2>2, <2>3, <3>1
    <3>2. CASE ~(v > u)
      <4>1. y[k + 1] = y[k]
        BY <2>2, <2>3, <3>2
      <4>2. \A i \in 0 .. k - 1 : i \in 0 .. k
        BY <2>1
      <4>3. QED
        BY <1>2, <4>1, <4>2
    <3>3. QED
      BY <3>1, <3>2
  <2>8. y[k + 1] \in Nat
    BY <2>3
  <2>9. QED
    BY <2>1, <2>6, <2>7, <2>8
<1> HIDE DEF T
<1>3. \A k \in 0 .. n : k \in T
  BY <1>1, <1>2, Induction
<1>4. n \in T
  BY <1>3
<1>5. /\ y[n] \in Nat
      /\ \A i \in 0 .. n - 1 : f[i] <= y[n]
      /\ y[n] = 0 \/ \E i \in 0 .. n - 1 : y[n] = f[i]
  BY <1>4 DEF T
<1>6. y[n] = 0 => y[n] = f[0]
  <2>1. 0 \in 0 .. n - 1
    OBVIOUS
  <2>2. QED
    BY <1>5, <2>1
<1>7. 0 \in 0 .. n - 1
  OBVIOUS
<1>8. QED
  BY <1>5, <1>6, <1>7
-----------------------------------------------------------------------------
(* Sums of rows, of columns and in another order                           *)

\* Modulo 0, congruent is equal.
LEMMA SameExact ==
  ASSUME NEW x \in Int, NEW y \in Int
  PROVE  Same(x, y, 0) <=> x = y
<1>1. \A k \in Int : 0 * k = 0
  OBVIOUS
<1>2. y + 0 = y
  OBVIOUS
<1>3. ASSUME Same(x, y, 0)
      PROVE  x = y
  <2>1. PICK k \in Int : x = y + 0 * k
    BY <1>3 DEF Same
  <2>2. QED
    BY <1>1, <1>2, <2>1
<1>4. ASSUME x = y
      PROVE  Same(x, y, 0)
  <2>1. x = y + 0 * 0
    BY <1>1, <1>2, <1>4
  <2>2. QED
    BY <2>1 DEF Same
<1>5. QED
  BY <1>3, <1>4

\* Equal terms have equal sums.
LEMMA SumEqual ==
  ASSUME NEW n \in Nat, NEW g, NEW h, Terms(g, n), \A i \in 0 .. n - 1 : h[i] = g[i]
  PROVE  Terms(h, n) /\ SumTo(h, n) = SumTo(g, n) /\ SumTo(g, n) \in Int
<1>1. Terms(h, n)
  BY DEF Terms
<1>2. n \in 0 .. n /\ 0 \in Nat
  OBVIOUS
<1>3. SumTo(g, n) \in Int
  BY ONLY <1>2, n \in Nat, Terms(g, n), SumLaw
<1>4. SumTo(h, n) \in Int
  BY ONLY <1>1, <1>2, n \in Nat, SumLaw
<1>5. \A i \in 0 .. n - 1 : Same(h[i], g[i], 0)
  BY SameExact DEF Terms
<1>6. Same(SumTo(h, n), SumTo(g, n), 0)
  BY ONLY <1>1, <1>2, <1>5, n \in Nat, Terms(g, n), SumSame
<1>7. QED
  BY <1>1, <1>3, <1>4, <1>6, SameExact

\* The terms of h are those of f and x times those of g.
Combines(h, f, x, g, n) == \A i \in 0 .. n - 1 : h[i] = f[i] + x * g[i]

\* The sum of a combination, exactly.
LEMMA SumLinear ==
  ASSUME NEW n \in Nat, NEW f, NEW g, NEW h, Terms(f, n), Terms(g, n), NEW x \in Int,
         Combines(h, f, x, g, n)
  PROVE  /\ Terms(h, n) /\ SumTo(h, n) = SumTo(f, n) + x * SumTo(g, n)
         /\ SumTo(f, n) \in Int /\ SumTo(g, n) \in Int /\ SumTo(h, n) \in Int
<1>1. \A i \in 0 .. n - 1 : /\ f[i] \in Int /\ g[i] \in Int /\ f[i] + x * g[i] \in Int
                            /\ h[i] = f[i] + x * g[i]
  BY DEF Terms, Combines
<1>2. Terms(h, n)
  BY <1>1 DEF Terms
<1>3. n \in 0 .. n /\ 0 \in Nat
  OBVIOUS
<1>4. SumTo(f, n) \in Int /\ SumTo(g, n) \in Int /\ SumTo(h, n) \in Int
  <2>1. SumTo(f, n) \in Int
    BY ONLY <1>3, n \in Nat, Terms(f, n), SumLaw
  <2>2. SumTo(g, n) \in Int
    BY ONLY <1>3, n \in Nat, Terms(g, n), SumLaw
  <2>3. SumTo(h, n) \in Int
    BY ONLY <1>2, <1>3, n \in Nat, SumLaw
  <2>4. QED
    BY <2>1, <2>2, <2>3
<1>5. \A i \in 0 .. n - 1 : Same(h[i], f[i] + x * g[i], 0)
  BY <1>1, SameExact
<1>6. Same(SumTo(h, n), SumTo(f, n) + x * SumTo(g, n), 0)
  BY ONLY <1>2, <1>3, <1>5, n \in Nat, x \in Int, Terms(f, n), Terms(g, n), SumCombined
<1>7. SumTo(f, n) + x * SumTo(g, n) \in Int
  BY ONLY <1>4, x \in Int
<1>8. QED
  BY <1>2, <1>4, <1>6, <1>7, SameExact

\* A sum of which all terms but one are zero.
LEMMA SumSingle ==
  ASSUME NEW n \in Nat, NEW f, Terms(f, n), NEW k \in 0 .. n - 1,
         \A i \in 0 .. n - 1 : i # k => f[i] = 0
  PROVE  SumTo(f, n) = f[k]
<1> DEFINE T == {m \in 0 .. n : SumTo(f, m) = IF m <= k THEN 0 ELSE f[k]}
<1>1. 0 \in T
  <2>1. SumTo(f, 0) = 0
    BY SumLaw
  <2>2. QED
    BY <2>1
<1>2. ASSUME NEW m \in 0 .. n, m # n, m \in T
      PROVE  m + 1 \in T
  <2>1. m \in 0 .. n - 1 /\ m + 1 \in 0 .. n /\ f[m] \in Int /\ f[k] \in Int
    BY <1>2 DEF Terms
  <2>2. SumTo(f, m + 1) = SumTo(f, m) + f[m]
    BY ONLY <1>2, n \in Nat, Terms(f, n), SumLaw
  <2>3. CASE m = k
    <3>1. SumTo(f, m) = 0 /\ ~(m + 1 <= k)
      BY <1>2, <2>3
    <3>2. SumTo(f, m + 1) = f[k]
      BY <2>1, <2>2, <2>3, <3>1
    <3>3. QED
      BY <2>1, <3>1, <3>2
  <2>4. CASE m # k
    <3>1. f[m] = 0
      BY <2>1, <2>4
    <3>2. SumTo(f, m) \in Int /\ (m <= k <=> m + 1 <= k)
      BY <1>2, <2>1, <2>4
    <3>3. SumTo(f, m + 1) = SumTo(f, m)
      BY <2>2, <3>1, <3>2
    <3>4. QED
      BY <1>2, <2>1, <3>2, <3>3
  <2>5. QED
    BY <2>3, <2>4
<1>3. \A m \in 0 .. n : m \in T
  <2> HIDE DEF T
  <2>1. QED
    BY <1>1, <1>2, Induction
<1>4. n \in 0 .. n /\ ~(n <= k)
  OBVIOUS
<1>5. QED
  BY <1>3, <1>4

\* Rows of integers.
Rows(f, n, m) == \A i \in 0 .. n - 1 : Terms(f[i], m)

\* Rows first or columns first, the sum is the same.
LEMMA SumExchanged ==
  ASSUME NEW n \in Nat, NEW m \in Nat, NEW f, Rows(f, n, m)
  PROVE  SumTo([i \in 0 .. n - 1 |-> SumTo(f[i], m)], n)
           = SumTo([j \in 0 .. m - 1 |-> SumTo([i \in 0 .. n - 1 |-> f[i][j]], n)], m)
<1> DEFINE r == [i \in 0 .. n - 1 |-> SumTo(f[i], m)]
           c(k) == [j \in 0 .. m - 1 |-> SumTo([i \in 0 .. n - 1 |-> f[i][j]], k)]
           T == {k \in 0 .. n : Terms(c(k), m) /\ SumTo(r, k) = SumTo(c(k), m)}
<1>0. n \in 0 .. n /\ m \in 0 .. m /\ 0 \in 0 .. n
  OBVIOUS
<1>1. Terms(r, n)
  <2>1. \A i \in 0 .. n - 1 : SumTo(f[i], m) \in Int
    BY <1>0, SumLaw DEF Rows
  <2>2. QED
    BY <2>1 DEF Terms
<1>2. ASSUME NEW j \in 0 .. m - 1
      PROVE  Terms([i \in 0 .. n - 1 |-> f[i][j]], n)
  BY DEF Rows, Terms
<1>3. ASSUME NEW j \in 0 .. m - 1
      PROVE  /\ c(0)[j] = 0
             /\ \A k \in 0 .. n : /\ c(k)[j] \in Int
                                  /\ k # n => c(k + 1)[j] = c(k)[j] + f[k][j]
  <2>1. PICK g : g = [i \in 0 .. n - 1 |-> f[i][j]] /\ Terms(g, n)
    BY <1>2
  <2>2. /\ SumTo(g, 0) = 0
        /\ \A k \in 0 .. n : /\ SumTo(g, k) \in Int
                             /\ k # n => SumTo(g, k + 1) = SumTo(g, k) + g[k]
    BY ONLY <2>1, n \in Nat, SumLaw
  <2>3. \A k \in 0 .. n : k # n => g[k] = f[k][j]
    BY <2>1
  <2>4. \A k : c(k)[j] = SumTo(g, k)
    BY <2>1
  <2> HIDE DEF c
  <2>5. QED
    BY <2>2, <2>3, <2>4
<1> HIDE DEF c
<1>4. 0 \in T
  <2>1. SumTo(r, 0) = 0
    BY <1>1, SumLaw
  <2>2. Terms(c(0), m) /\ \A j \in 0 .. m - 1 : c(0)[j] = 0
    BY <1>3 DEF Terms
  <2>3. SumTo(c(0), m) = 0
    <3>1. PICK d : d = c(0)
      OBVIOUS
    <3>2. Terms(d, m) /\ \A j \in 0 .. m - 1 : d[j] = 0
      BY <2>2, <3>1
    <3>3. PICK x \in Int : x = -1
      OBVIOUS
    <3>4. Combines(d, d, x, d, m)
      BY <3>2, <3>3 DEF Combines
    <3>5. Terms(d, m)
      BY <3>2
    <3>6. SumTo(d, m) = SumTo(d, m) + x * SumTo(d, m)
      BY ONLY <3>4, <3>5, m \in Nat, x \in Int, SumLinear
    <3>7. SumTo(d, m) \in Int
      BY ONLY <1>0, <3>5, m \in Nat, SumLaw
    <3>8. QED
      BY <3>1, <3>3, <3>6, <3>7
  <2>4. QED
    BY <1>0, <2>1, <2>2, <2>3
<1>5. ASSUME NEW k \in 0 .. n, k # n, k \in T
      PROVE  k + 1 \in T
  <2>1. k \in 0 .. n - 1 /\ k + 1 \in 0 .. n
    BY <1>5
  <2>2. SumTo(r, k + 1) = SumTo(r, k) + r[k] /\ r[k] = SumTo(f[k], m)
    <3> HIDE DEF r
    <3>1. SumTo(r, k + 1) = SumTo(r, k) + r[k]
      BY <1>1, <1>5, SumLaw
    <3>2. QED
      BY <2>1, <3>1 DEF r
  <2>3. Terms(f[k], m)
    BY <2>1 DEF Rows
  <2>4. \A j \in 0 .. m - 1 : c(k + 1)[j] = c(k)[j] + 1 * f[k][j]
    <3>1. ASSUME NEW j \in 0 .. m - 1
          PROVE  c(k + 1)[j] = c(k)[j] + 1 * f[k][j]
      <4>1. c(k + 1)[j] = c(k)[j] + f[k][j]
        BY <1>3, <1>5
      <4>2. f[k][j] \in Int
        BY <2>3 DEF Terms
      <4>3. 1 * f[k][j] = f[k][j]
        BY <4>2
      <4>4. QED
        BY <4>1, <4>3
    <3>2. QED
      BY <3>1
  <2>5. Terms(c(k), m) /\ SumTo(r, k) = SumTo(c(k), m)
    BY <1>5
  <2>6. /\ Terms(c(k + 1), m) /\ SumTo(c(k + 1), m) = SumTo(c(k), m) + 1 * SumTo(f[k], m)
        /\ SumTo(f[k], m) \in Int
    <3>1. PICK d, e, g : d = c(k) /\ e = c(k + 1) /\ g = f[k]
      OBVIOUS
    <3>2. Terms(d, m) /\ Terms(g, m)
      BY <2>3, <2>5, <3>1
    <3>3. PICK x \in Int : x = 1
      OBVIOUS
    <3>4. Combines(e, d, x, g, m)
      BY <2>4, <3>1, <3>3 DEF Combines
    <3>5. SumTo(e, m) = SumTo(d, m) + x * SumTo(g, m)
      BY ONLY <3>2, <3>4, m \in Nat, x \in Int, SumLinear
    <3>6. Terms(e, m)
      BY <1>3, <2>1, <3>1 DEF Terms
    <3>7. SumTo(g, m) \in Int
      BY ONLY <1>0, <3>2, m \in Nat, SumLaw
    <3>8. QED
      BY <3>1, <3>3, <3>5, <3>6, <3>7
  <2>7. SumTo(r, k + 1) = SumTo(c(k + 1), m)
    <3>1. 1 * SumTo(f[k], m) = SumTo(f[k], m)
      BY <2>6
    <3>2. QED
      BY <2>2, <2>5, <2>6, <3>1
  <2>8. QED
    BY <2>1, <2>6, <2>7
<1>6. n \in T
  <2> HIDE DEF T
  <2>1. \A k \in 0 .. n : k \in T
    BY <1>4, <1>5, Induction
  <2>2. QED
    BY <1>0, <2>1
<1>7. QED
  BY <1>6 DEF c
\* p puts n places in another order, and the terms of g are those of f in that order.
Reorders(p, g, f, n) ==
  /\ p \in [0 .. n - 1 -> 0 .. n - 1]
  /\ \A j \in 0 .. n - 1 : \E i \in 0 .. n - 1 : p[i] = j
  /\ \A i, j \in 0 .. n - 1 : p[i] = p[j] => i = j
  /\ \A i \in 0 .. n - 1 : g[i] = f[p[i]]

\* A sum does not depend on the order of its terms.
LEMMA SumPermuted ==
  ASSUME NEW n \in Nat, NEW f, Terms(f, n), NEW p, NEW g, Reorders(p, g, f, n)
  PROVE  Terms(g, n) /\ SumTo(g, n) = SumTo(f, n)
<1>0. /\ p \in [0 .. n - 1 -> 0 .. n - 1]
      /\ \A j \in 0 .. n - 1 : \E i \in 0 .. n - 1 : p[i] = j
      /\ \A i, j \in 0 .. n - 1 : p[i] = p[j] => i = j
      /\ \A i \in 0 .. n - 1 : g[i] = f[p[i]]
  BY DEF Reorders
<1> DEFINE cell == [i \in 0 .. n - 1 |-> [j \in 0 .. n - 1 |-> IF p[i] = j THEN f[j] ELSE 0]]
           rowSums == [i \in 0 .. n - 1 |-> SumTo(cell[i], n)]
           columnSums == [j \in 0 .. n - 1 |-> SumTo([i \in 0 .. n - 1 |-> cell[i][j]], n)]
<1>1. \A i, j \in 0 .. n - 1 : cell[i][j] = (IF p[i] = j THEN f[j] ELSE 0) /\ cell[i][j] \in Int
  BY DEF Terms
<1> HIDE DEF cell
<1>2. Rows(cell, n, n)
  BY <1>1 DEF Rows, Terms
<1>3. SumTo(rowSums, n) = SumTo(columnSums, n)
  BY <1>2, SumExchanged
<1>4. ASSUME NEW i \in 0 .. n - 1
      PROVE  rowSums[i] = g[i] /\ g[i] \in Int
  <2>1. PICK k \in 0 .. n - 1 : k = p[i] /\ g[i] = f[k]
    BY <1>0
  <2>2. PICK h : h = cell[i]
    OBVIOUS
  <2>3. Terms(h, n) /\ \A j \in 0 .. n - 1 : j # k => h[j] = 0
    BY <1>1, <1>2, <2>1, <2>2 DEF Rows
  <2>4. SumTo(h, n) = h[k]
    BY ONLY <2>3, n \in Nat, k \in 0 .. n - 1, SumSingle
  <2>5. h[k] = f[k] /\ h[k] \in Int
    BY <1>1, <2>1, <2>2
  <2>6. QED
    BY <2>1, <2>2, <2>4, <2>5
<1>5. ASSUME NEW j \in 0 .. n - 1
      PROVE  columnSums[j] = f[j]
  <2>1. PICK k \in 0 .. n - 1 : p[k] = j
    BY <1>0
  <2>2. PICK h : h = [i \in 0 .. n - 1 |-> cell[i][j]]
    OBVIOUS
  <2>3. \A i \in 0 .. n - 1 : /\ h[i] = (IF p[i] = j THEN f[j] ELSE 0) /\ h[i] \in Int
                              /\ i # k => p[i] # j
    <3>1. ASSUME NEW i \in 0 .. n - 1
          PROVE  h[i] = (IF p[i] = j THEN f[j] ELSE 0) /\ h[i] \in Int
      <4>1. h[i] = cell[i][j]
        BY ONLY <2>2, <3>1
      <4>2. QED
        BY ONLY <1>1, <1>5, <3>1, <4>1
    <3>2. ASSUME NEW i \in 0 .. n - 1, i # k
          PROVE  p[i] # j
      BY ONLY <1>0, <2>1, <3>2
    <3>3. QED
      BY ONLY <3>1, <3>2
  <2>4. Terms(h, n) /\ \A i \in 0 .. n - 1 : i # k => h[i] = 0
    <3>1. Terms(h, n)
      BY ONLY <2>3 DEF Terms
    <3>2. \A i \in 0 .. n - 1 : i # k => h[i] = 0
      BY ONLY <2>3
    <3>3. QED
      BY <3>1, <3>2
  <2>5. SumTo(h, n) = h[k]
    BY ONLY <2>4, n \in Nat, k \in 0 .. n - 1, SumSingle
  <2>6. h[k] = f[j]
    BY ONLY <2>1, <2>3, k \in 0 .. n - 1, Zenon
  <2>7. QED
    BY <2>2, <2>5, <2>6
<1> HIDE DEF rowSums, columnSums
<1>6. Terms(g, n)
  BY <1>4 DEF Terms
<1>7. SumTo(rowSums, n) = SumTo(g, n)
  BY <1>4, <1>6, SumEqual
<1>8. SumTo(columnSums, n) = SumTo(f, n)
  BY <1>5, SumEqual
<1>9. QED
  BY <1>3, <1>6, <1>7, <1>8
-----------------------------------------------------------------------------
(* Odd factors, and powers of roots of -1                                  *)

\* An odd factor of a multiple of a power of two is dropped.
LEMMA OddCancels ==
  ASSUME NEW n \in Nat, NEW e \in Nat, e % 2 = 1, NEW x \in Int, NEW t \in Int, e * x = TwoTo(n) * t
  PROVE  \E s \in Int : x = TwoTo(n) * s
<1> DEFINE T == {m \in 0 .. n : \A y, u \in Int : e * y = TwoTo(m) * u => \E s \in Int : y = TwoTo(m) * s}
<1>1. PICK a \in Nat : e = 2 * a + 1
  <2>1. PICK z \in Nat, d \in {0, 1} : z = e \div 2 /\ d = e % 2 /\ e = 2 * z + d
    BY HalfOf
  <2>2. QED
    BY <2>1
<1>2. 0 \in T
  <2>1. \A y \in Int : y = TwoTo(0) * y
    BY TwoToStep
  <2>2. QED
    BY <2>1
<1>3. ASSUME NEW m \in 0 .. n, m # n, m \in T
      PROVE  m + 1 \in T
  <2>1. PICK p \in Nat : p = TwoTo(m) /\ p >= 1 /\ TwoTo(m + 1) = p * 2
    BY TwoToStep
  <2>2. ASSUME NEW y \in Int, NEW u \in Int, e * y = (p * 2) * u
        PROVE  \E s \in Int : y = (p * 2) * s
    <3>1. PICK v \in Int : v = 2 * u
      OBVIOUS
    <3>2. e * y = p * v
      BY ONLY <2>2, <3>1, p \in Nat, u \in Int, v \in Int
    <3>3. PICK s \in Int : y = p * s
      BY <1>3, <2>1, <3>2
    <3>4. p * (e * s) = p * v
      BY ONLY <3>2, <3>3, e \in Nat, p \in Nat, s \in Int, v \in Int
    <3>5. e * s = v
      <4>1. PICK w \in Int : w = e * s
        OBVIOUS
      <4>2. p * w = p * v
        BY <3>4, <4>1
      <4>3. w = v
        BY ONLY <2>1, <4>2, p \in Nat, v \in Int, w \in Int
      <4>4. QED
        BY <4>1, <4>3
    <3>6. PICK b \in Int : b = a * s
      OBVIOUS
    <3>7. e * s = 2 * b + s
      BY ONLY <1>1, <3>6, a \in Nat, s \in Int
    <3>8. s = 2 * (u - b)
      BY ONLY <3>1, <3>5, <3>7, u \in Int, b \in Int, s \in Int
    <3>9. y = (p * 2) * (u - b) /\ u - b \in Int
      BY ONLY <3>3, <3>8, p \in Nat, u \in Int, b \in Int
    <3>10. QED
      BY <3>9
  <2>3. m + 1 \in 0 .. n
    BY <1>3
  <2>4. QED
    BY <2>1, <2>2, <2>3
<1>4. \A m \in 0 .. n : m \in T
  <2> HIDE DEF T
  <2>1. QED
    BY <1>2, <1>3, Induction
<1>5. n \in 0 .. n
  OBVIOUS
<1>6. QED
  BY <1>4, <1>5

\* A map of an interval into itself that takes no value twice takes each.
LEMMA InjectionCovers ==
  ASSUME NEW n \in Nat, NEW f \in [0 .. n - 1 -> 0 .. n - 1],
         \A i, j \in 0 .. n - 1 : f[i] = f[j] => i = j
  PROVE  \A j \in 0 .. n - 1 : \E i \in 0 .. n - 1 : f[i] = j
<1> DEFINE S == 0 .. n - 1
<1>1. Sets!IsFiniteSet(S)
  <2>1. 0 \in Int /\ n - 1 \in Int
    OBVIOUS
  <2>2. QED
    BY <2>1, Sets!FS_Interval
<1> HIDE DEF S
<1>2. f \in Sets!Injection(S, S)
  BY DEF S, Sets!Injection, Sets!IsInjective
<1>3. f \in Sets!Surjection(S, S)
  BY <1>1, <1>2, Sets!FS_Injection
<1>4. QED
  BY <1>3 DEF S, Sets!Surjection

\* A power of a power.
LEMMA PowerOfPower ==
  ASSUME NEW b \in Nat, NEW m \in Nat, NEW n \in Nat
  PROVE  PowerOf(b, m * n) = PowerOf(PowerOf(b, m), n)
<1> DEFINE T == {k \in 0 .. n : PowerOf(b, m * k) = PowerOf(PowerOf(b, m), k)}
<1>1. PICK c \in Nat : c = PowerOf(b, m)
  BY PowerOfStep
<1>2. 0 \in T
  <2>1. m * 0 = 0 /\ 0 \in 0 .. n
    OBVIOUS
  <2>2. PowerOf(b, 0) = 1 /\ PowerOf(c, 0) = 1
    BY PowerOfStep
  <2>3. QED
    BY <1>1, <2>1, <2>2
<1>3. ASSUME NEW k \in 0 .. n, k # n, k \in T
      PROVE  k + 1 \in T
  <2>1. PICK x \in Nat, y \in Nat : x = m * k /\ y = m * (k + 1) /\ k \in Nat
    OBVIOUS
  <2>2. y = x + m
    BY ONLY <2>1, m \in Nat, k \in Nat
  <2>3. PowerOf(b, y) = PowerOf(b, x) * c
    BY <1>1, <2>2, PowerOfSum
  <2>4. PowerOf(c, k + 1) = PowerOf(c, k) * c
    BY <2>1, PowerOfStep
  <2>5. PowerOf(b, x) = PowerOf(c, k)
    BY <1>1, <1>3, <2>1
  <2>6. PowerOf(b, m * (k + 1)) = PowerOf(c, k + 1)
    BY <2>1, <2>3, <2>4, <2>5
  <2>7. QED
    BY <1>1, <1>3, <2>6
<1>4. \A k \in 0 .. n : k \in T
  <2> HIDE DEF T
  <2>1. QED
    BY <1>2, <1>3, Induction
<1>5. QED
  BY <1>4

\* At a root of X^m + 1, exponents count modulo 2 m.
LEMMA PowerOfTurn ==
  ASSUME NEW q \in Nat, NEW b \in Nat, NEW m \in Nat, Same(PowerOf(b, m), -1, q), NEW w \in Nat
  PROVE  Same(PowerOf(b, m * w), IF w % 2 = 0 THEN 1 ELSE -1, q)
<1>1. PICK c \in Nat : c = PowerOf(b, m)
  BY PowerOfStep
<1>2. PowerOf(b, m * w) = PowerOf(c, w)
  BY <1>1, PowerOfPower
<1>3. PICK z \in Nat, d \in {0, 1} : z = w \div 2 /\ d = w % 2 /\ w = 2 * z + d
  BY HalfOf
<1>4. c * c \in Nat /\ -1 \in Int
  OBVIOUS
<1>5. Same(c * c, 1, q)
  <2>1. Same(c * c, (-1) * (-1), q)
    BY ONLY <1>1, <1>4, q \in Nat, c \in Nat, Same(PowerOf(b, m), -1, q), SameProduct
  <2>2. QED
    BY <2>1
<1>6. PICK p \in Nat : p = PowerOf(c, 2 * z) /\ Same(p, 1, q)
  <2>1. PowerOf(c, 2 * z) = PowerOf(c * c, z)
    BY PowerOfSquare
  <2>2. Same(PowerOf(c * c, z), PowerOf(1, z), q)
    BY ONLY <1>4, <1>5, q \in Nat, z \in Nat, 1 \in Nat, PowerSame
  <2>3. PowerOf(1, z) = 1 /\ PowerOf(c * c, z) \in Nat
    BY <1>4, PowerOfUnit, PowerOfStep
  <2>4. QED
    BY <2>1, <2>2, <2>3
<1>7. CASE d = 0
  BY <1>2, <1>3, <1>6, <1>7
<1>8. CASE d = 1
  <2>1. PowerOf(c, w) = p * c
    BY <1>3, <1>6, <1>8, PowerOfStep
  <2>2. Same(p * c, 1 * (-1), q)
    BY <1>1, <1>4, <1>6, SameProduct
  <2>3. QED
    BY <1>2, <1>3, <1>8, <2>1, <2>2
<1>9. QED
  BY <1>3, <1>7, <1>8

\* So exponents that differ by a multiple of 2 m give the same.
LEMMA PowerOfPeriod ==
  ASSUME NEW q \in Nat, NEW b \in Nat, NEW m \in Nat, Same(PowerOf(b, m), -1, q),
         NEW x \in Nat, NEW y \in Nat, Same(x, y, 2 * m)
  PROVE  Same(PowerOf(b, x), PowerOf(b, y), q)
<1>1. ASSUME NEW u \in Nat, NEW k \in Nat
      PROVE  Same(PowerOf(b, u + (2 * m) * k), PowerOf(b, u), q)
  <2>1. PICK w \in Nat, v \in Nat : w = 2 * k /\ v = m * w
    OBVIOUS
  <2>2. (2 * m) * k = v /\ w % 2 = 0
    BY ONLY <2>1, m \in Nat, k \in Nat, w \in Nat
  <2>3. Same(PowerOf(b, v), 1, q)
    BY <2>1, <2>2, PowerOfTurn
  <2>4. PowerOf(b, u + v) = PowerOf(b, u) * PowerOf(b, v)
    BY PowerOfSum
  <2>5. PICK p \in Nat, r \in Nat : p = PowerOf(b, u) /\ r = PowerOf(b, v)
    BY PowerOfStep
  <2>6. Same(p, p, q)
    BY SameReflexive
  <2>7. Same(p * r, p * 1, q)
    BY <2>3, <2>5, <2>6, SameProduct
  <2>8. p * 1 = p
    OBVIOUS
  <2>9. QED
    BY ONLY <2>2, <2>4, <2>5, <2>7, <2>8
<1>2. PICK k \in Int : x = y + (2 * m) * k
  BY DEF Same
<1>3. CASE k >= 0
  <2>1. k \in Nat
    BY <1>3
  <2>2. Same(PowerOf(b, y + (2 * m) * k), PowerOf(b, y), q)
    BY <1>1, <2>1
  <2>3. QED
    BY ONLY <1>2, <2>2
<1>4. CASE k < 0
  <2>1. PICK l \in Nat : l = -k
    BY <1>4
  <2>2. y = x + (2 * m) * l
    <3>1. (2 * m) * k = -((2 * m) * l)
      BY ONLY <2>1, k \in Int, l \in Nat, m \in Nat
    <3>2. (2 * m) * l \in Int
      OBVIOUS
    <3>3. QED
      BY <1>2, <3>1, <3>2
  <2>3. Same(PowerOf(b, y), PowerOf(b, x), q)
    BY <1>1, <2>2
  <2>4. PowerOf(b, x) \in Int /\ PowerOf(b, y) \in Int
    BY PowerOfStep
  <2>5. QED
    BY <2>3, <2>4, SameSymmetric
<1>5. QED
  BY <1>3, <1>4
=============================================================================
