------------------------- MODULE PolynomialsProofs --------------------------
(***************************************************************************)
(* Registers hold polynomials of their moduli and stand for elements of the*)
(* ring Z_Q[X]/(X^N + 1), whatever sequence of loads, conversions and      *)
(* operations made them, and an automorphism permutes the values of a      *)
(* polynomial under the transform, as the recovered tables say: for every  *)
(* ring dimension, word and chain of moduli.                               *)
(*                                                                         *)
(* The argument, in the order of the sections: the Euclidean loop ends     *)
(* with the inverse of what it was given; the remainder theorem for two    *)
(* moduli. Each operation on the stripes leaves a polynomial: Held(p) says *)
(* that p is one of the chain, and PolyInv that every register holds one,  *)
(* or, where a record of other words was decoded, one of its shape.        *)
(* Denotes(p, e) says that every word of p means what it should of the     *)
(* element e: its coefficient, or the remainder at the leaf of the heap    *)
(* where it stands, so its value at a root. A word-wise operation combines *)
(* what words mean; the transform reaches every array of reduced words, so *)
(* what stands for an element in the NTT domain is the transform of what   *)
(* stands for it in the other; two residues settle one number below the    *)
(* product. RingInv adds to PolyInv that every register stands for its     *)
(* element, and every operation of Polynomials is, under it, the operation *)
(* of the ring.                                                            *)
(*                                                                         *)
(* The constants of the heap are powers of the root, with exponents that   *)
(* no modulus enters; those of the last level are the odd numbers below 2N,*)
(* each once, so that an odd factor puts them in another order (Turn). At a*)
(* root the image of a polynomial has the value of the polynomial at a     *)
(* power of the root, hence the transform of the image is that of the      *)
(* polynomial in the order of Turn. TablesInv says that what is matched so *)
(* far agrees with Turn.                                                   *)
(***************************************************************************)
EXTENDS TransformProofs, Polynomials, AutomorphTables
-----------------------------------------------------------------------------
(* The extended Euclidean loop                                             *)

\* try_mod_inverse runs its rounds from the numbers it was given, t and newT at the
\* coefficients of r and newR.
Euclid(s, a, m) ==
  /\ Same(s.t * a, s.r, m) /\ Same(s.newT * a, s.newR, m)
  /\ s \in [t : Int, newT : Int, r : Nat, newR : Nat]

\* A round keeps that, and makes newR smaller.
LEMMA EuclidKeeps ==
  ASSUME NEW a \in Nat, NEW m \in Nat, NEW s, Euclid(s, a, m)
  PROVE  /\ Euclid(EuclidRound(s), a, m)
         /\ s.newR # 0 => EuclidRound(s).newR < s.newR
         /\ s.newR = 0 => EuclidRound(s).newR = 0
<1>1. PICK t \in Int, u \in Int, r \in Nat, v \in Nat : s = [t |-> t, newT |-> u, r |-> r, newR |-> v]
  BY DEF Euclid
<1>2. CASE v = 0
  BY <1>1, <1>2 DEF EuclidRound
<1>3. CASE v # 0
  <2>1. PICK d \in Nat, w \in Nat : d = r \div v /\ w < v /\ r = v * d + w
    <3>1. r = v * (r \div v) + (r % v) /\ r % v \in 0 .. v - 1 /\ r \div v \in Int
      BY <1>3, DivMod
    <3>2. r \div v \in Nat
      BY <1>3
    <3>3. QED
      BY <1>3, <3>1, <3>2
  <2>2. r - d * v = w
    BY ONLY <2>1, r \in Nat, v \in Nat, d \in Nat, w \in Nat
  <2>3. EuclidRound(s) = [t |-> u, newT |-> t - d * u, r |-> v, newR |-> w]
    BY ONLY <1>1, <1>3, <2>1, <2>2 DEF EuclidRound
  <2>4. Same(t * a, r, m) /\ Same(u * a, v, m)
    BY <1>1 DEF Euclid
  <2>5. PICK j \in Int : t * a = r + m * j
    BY <2>4 DEF Same
  <2>6. PICK k \in Int : u * a = v + m * k
    BY <2>4 DEF Same
  <2>7. (t - d * u) * a = w + m * (j - d * k)
    <3>1. (t - d * u) * a = t * a - d * (u * a)
      BY ONLY t \in Int, u \in Int, a \in Nat, d \in Nat
    <3>2. d * (v + m * k) = v * d + m * (d * k)
      BY ONLY m \in Nat, v \in Nat, k \in Int, d \in Nat
    <3>3. (t - d * u) * a = (r + m * j) - (v * d + m * (d * k))
      BY ONLY <2>5, <2>6, <3>1, <3>2
    <3>4. PICK x \in Int : x = d * k
      OBVIOUS
    <3>5. PICK y \in Int : y = v * d
      OBVIOUS
    <3>6. (r + m * j) - (y + m * x) = w + m * (j - x)
      BY ONLY <2>1, <3>5, m \in Nat, r \in Nat, w \in Nat, x \in Int, j \in Int, y \in Int
    <3>7. QED
      BY ONLY <3>3, <3>4, <3>5, <3>6
  <2>8. j - d * k \in Int /\ t - d * u \in Int
    OBVIOUS
  <2>9. Same((t - d * u) * a, w, m)
    BY <2>7, <2>8 DEF Same
  <2>10. QED
    BY <1>1, <1>3, <2>1, <2>3, <2>4, <2>8, <2>9 DEF Euclid
<1>4. QED
  BY <1>2, <1>3

\* The rounds of try_mod_inverse, until newR is zero.
LEMMA EuclidRounds ==
  ASSUME NEW a \in Nat, NEW m \in Nat
  PROVE  \E s : /\ Euclid(s, a, m) /\ s.newR = 0
                /\ TryModInverse(a, m)
                     = IF s.r # 1 THEN NoInverse ELSE IF s.t < 0 THEN s.t + m ELSE s.t
<1> DEFINE S == {s \in [t : Int, newT : Int, r : Nat, newR : Nat] : Euclid(s, a, m)}
           s0 == [t |-> 0, newT |-> 1, r |-> m, newR |-> a]
           G == [i \in 0 .. a |-> [s \in S |-> EuclidRound(s)]]
           F(g) == [i \in 0 .. a |-> IF i = 0 THEN s0 ELSE EuclidRound(g[i - 1])]
           Answer(e) == IF e.r # 1 THEN NoInverse ELSE IF e.t < 0 THEN e.t + m ELSE e.t
<1>1. s0 \in S
  <2>1. 0 * a = m + m * (-1) /\ 1 * a = a + m * 0
    OBVIOUS
  <2>2. Same(0 * a, m, m) /\ Same(1 * a, a, m)
    BY <2>1 DEF Same
  <2>3. QED
    BY <2>2 DEF Euclid
<1>2. ASSUME NEW s \in S
      PROVE  EuclidRound(s) \in S
  BY EuclidKeeps DEF Euclid
<1> HIDE DEF S, s0
<1>3. Recurs(S, a, s0, G)
  BY <1>1, <1>2 DEF Recurs
<1>4. PICK f : Solves(f, S, a, s0, G)
  <2> HIDE DEF G
  <2>1. QED
    BY ONLY <1>3, RecursionExists, Zenon
<1>5. f = F(f)
  <2>1. ASSUME NEW i \in 0 .. a, i # 0
        PROVE  f[i] = EuclidRound(f[i - 1])
    <3>1. i - 1 \in 0 .. a
      BY <2>1
    <3>2. f[i - 1] \in S /\ f[i] = G[i][f[i - 1]]
      BY <1>4, <2>1, <3>1 DEF Solves
    <3>3. QED
      BY <3>2
  <2>2. \A i \in 0 .. a : f[i] = IF i = 0 THEN s0 ELSE EuclidRound(f[i - 1])
    BY <1>4, <2>1 DEF Solves
  <2>3. f = [i \in 0 .. a |-> f[i]]
    BY <1>4 DEF Solves
  <2>4. QED
    BY <2>2, <2>3
<1>6. TryModInverse(a, m) = Answer((CHOOSE y : y = F(y))[a])
  BY Zenon DEF TryModInverse, s0
<1>7. PICK y : y = F(y) /\ TryModInverse(a, m) = Answer(y[a])
  <2> HIDE DEF F, Answer
  <2>1. QED
    BY <1>5, <1>6, Zenon
<1>8. Solves(y, S, a, s0, G)
  <2>1. y = [i \in 0 .. a |-> y[i]] /\ y[0] = s0
    BY <1>7
  <2>2. ASSUME NEW i \in 0 .. a, i # 0, y[i - 1] \in S
        PROVE  y[i] = G[i][y[i - 1]]
    <3>1. y[i] = EuclidRound(y[i - 1])
      BY <1>7, <2>2
    <3>2. QED
      BY <2>2, <3>1
  <2> HIDE DEF G, F
  <2>3. QED
    BY <1>3, <2>1, <2>2, RecursionSolved
<1>9. \A i \in 0 .. a : y[i] \in S
  BY <1>8 DEF Solves
<1>10. ASSUME NEW i \in 0 .. a, i # 0
       PROVE  y[i] = EuclidRound(y[i - 1])
  BY <1>7, <1>10
<1> DEFINE T == {i \in 0 .. a : y[i].newR <= a - i}
<1>11. 0 \in T
  BY <1>7 DEF s0
<1>12. ASSUME NEW i \in 0 .. a, i # a, i \in T
       PROVE  i + 1 \in T
  <2>1. i + 1 \in 0 .. a /\ i + 1 # 0 /\ (i + 1) - 1 = i /\ a - i > 0
    BY <1>12
  <2>2. y[i + 1] = EuclidRound(y[i]) /\ y[i] \in S /\ y[i + 1] \in S
    BY <1>9, <1>10, <2>1
  <2>3. Euclid(y[i], a, m) /\ y[i].newR \in Nat /\ y[i + 1].newR \in Nat
    BY <2>2 DEF S
  <2>4. y[i].newR <= a - i
    BY <1>12
  <2>5. y[i].newR # 0 => y[i + 1].newR < y[i].newR
    BY <2>2, <2>3, EuclidKeeps
  <2>6. y[i].newR = 0 => y[i + 1].newR = 0
    BY <2>2, <2>3, EuclidKeeps
  <2>7. y[i + 1].newR <= a - (i + 1)
    BY <2>1, <2>3, <2>4, <2>5, <2>6
  <2>8. QED
    BY <2>1, <2>7
<1> HIDE DEF T
<1>13. \A i \in 0 .. a : i \in T
  BY <1>11, <1>12, Induction
<1>14. a \in 0 .. a
  OBVIOUS
<1>15. y[a].newR <= 0 /\ y[a] \in S
  BY <1>9, <1>13, <1>14 DEF T
<1>16. Euclid(y[a], a, m) /\ y[a].newR = 0
  BY <1>15 DEF S
<1>17. QED
  BY <1>7, <1>16

\* try_mod_inverse: what it returns is an inverse.
LEMMA TryModInverseInverts ==
  ASSUME NEW a \in Nat, NEW m \in Nat, m >= 2, TryModInverse(a, m) # NoInverse
  PROVE  TryModInverse(a, m) \in Int /\ (a * TryModInverse(a, m)) % m = 1
<1>1. PICK s : /\ Euclid(s, a, m) /\ s.newR = 0
               /\ TryModInverse(a, m)
                    = IF s.r # 1 THEN NoInverse ELSE IF s.t < 0 THEN s.t + m ELSE s.t
  BY EuclidRounds
<1>2. PICK t \in Int : t = s.t
  BY <1>1 DEF Euclid
<1>3. s.r = 1 /\ Same(t * a, 1, m)
  BY <1>1, <1>2 DEF Euclid
<1>4. PICK k \in Int : t * a = 1 + m * k
  BY <1>3 DEF Same
<1>5. PICK x \in Int : x = TryModInverse(a, m) /\ (x = t \/ x = t + m)
  BY <1>1, <1>2, <1>3
<1>6. \E j \in Int : a * x = m * j + 1
  <2>1. CASE x = t
    <3>1. a * x = m * k + 1
      BY ONLY <1>4, <2>1, a \in Nat, m \in Nat, k \in Int, t \in Int
    <3>2. QED
      BY <3>1
  <2>2. CASE x = t + m
    <3>1. a * (t + m) = t * a + m * a
      BY ONLY a \in Nat, m \in Nat, t \in Int
    <3>2. m * (k + a) = m * k + m * a
      BY ONLY a \in Nat, m \in Nat, k \in Int
    <3>3. a * x = m * (k + a) + 1
      BY ONLY <1>4, <2>2, <3>1, <3>2, m * k \in Int, m * a \in Int
    <3>4. QED
      BY <3>3
  <2>3. QED
    BY <1>5, <2>1, <2>2
<1>7. PICK j \in Int : a * x = m * j + 1
  BY <1>6
<1>8. 1 \in 0 .. m - 1 /\ m \in Nat \ {0} /\ a * x \in Int
  OBVIOUS
<1>9. (a * x) % m = 1
  BY ONLY <1>7, <1>8, j \in Int, DivModUnique
<1>10. QED
  BY <1>5, <1>9
-----------------------------------------------------------------------------
(* The remainder theorem for two moduli                                    *)

\* crt_compose_2 gives back the number whose remainders it is given.
LEMMA ComposeReads ==
  ASSUME NEW p \in Nat, NEW q \in Nat, p >= 2, q >= 2, NEW inv \in Int, (p * inv) % q = 1,
         NEW v \in 0 .. p * q - 1
  PROVE  CrtCompose(v % p, v % q, p, q, inv) = v
<1>1. p \in Nat \ {0} /\ q \in Nat \ {0} /\ v \in Int /\ p * q \in Nat
  OBVIOUS
<1>2. PICK a \in 0 .. p - 1, k \in Int : a = v % p /\ v = p * k + a
  BY ONLY <1>1, DivMod
<1>3. k \in 0 .. q - 1
  <2>1. k >= 0
    <3>1. ASSUME k <= -1
          PROVE  FALSE
      <4>1. p * k <= p * (-1)
        BY ONLY <3>1, p \in Nat, k \in Int
      <4>2. QED
        BY ONLY <1>2, <4>1, p \in Nat, k \in Int, v \in 0 .. p * q - 1, p * k \in Int, a \in 0 .. p - 1
    <3>2. QED
      BY <3>1
  <2>2. k <= q - 1
    <3>1. ASSUME k >= q
          PROVE  FALSE
      <4>1. p * k >= p * q
        BY ONLY <3>1, p \in Nat, k \in Int, q \in Nat
      <4>2. QED
        BY ONLY <1>1, <1>2, <4>1, v \in 0 .. p * q - 1, p * k \in Int, a \in 0 .. p - 1
    <3>2. QED
      BY <3>1
  <2>3. QED
    BY ONLY <2>1, <2>2, k \in Int, q \in Nat
<1>4. PICK b \in 0 .. q - 1, e \in Int : b = v % q /\ v = q * e + b
  BY ONLY <1>1, DivMod
<1>5. PICK c \in 0 .. q - 1, f \in Int : c = a % q /\ a = q * f + c
  <2>1. a \in Int
    BY <1>2
  <2>2. QED
    BY ONLY <1>1, <2>1, DivMod
<1>6. PICK d \in Int, g \in Int : /\ d = (IF b >= c THEN b - c ELSE b + q - c)
                               /\ d = b - c + q * g
  <2>1. b - c = b - c + q * 0 /\ b + q - c = b - c + q * 1
    BY ONLY q \in Nat, b \in 0 .. q - 1, c \in 0 .. q - 1
  <2>2. QED
    BY ONLY <2>1, q \in Nat, b \in 0 .. q - 1, c \in 0 .. q - 1
<1>7. d = p * k + q * (f - e + g)
  <2>1. q * (f - e + g) = q * f - q * e + q * g
    BY ONLY q \in Nat, f \in Int, e \in Int, g \in Int
  <2>2. PICK x \in Int, y \in Int, z \in Int, w \in Int : x = q * f /\ y = q * e /\ z = q * g /\ w = p * k
    OBVIOUS
  <2>3. a \in Int /\ b \in Int /\ c \in Int
    BY ONLY p \in Nat, q \in Nat, a \in 0 .. p - 1, b \in 0 .. q - 1, c \in 0 .. q - 1
  <2>4. w + a = y + b /\ a = x + c /\ d = b - c + z
    BY ONLY <1>2, <1>4, <1>5, <1>6, <2>2
  <2>5. d = w + (x - y + z)
    BY ONLY <2>3, <2>4, d \in Int, x \in Int, y \in Int, z \in Int, w \in Int
  <2>6. QED
    BY ONLY <2>1, <2>2, <2>5
<1>8. PICK h \in Int : p * inv = q * h + 1
  <2>1. PICK x \in Int : x = p * inv
    OBVIOUS
  <2>2. x = q * (x \div q) + (x % q) /\ x \div q \in Int
    BY ONLY <1>1, x \in Int, DivMod
  <2>3. QED
    BY <2>1, <2>2
<1>9. PICK j \in Int : d * inv = q * j + k
  <2> DEFINE j == h * k + (f - e + g) * inv
  <2>1. j \in Int
    OBVIOUS
  <2>2. d * inv = (p * inv) * k + q * ((f - e + g) * inv)
    <3>1. PICK w \in Int : w = f - e + g
      OBVIOUS
    <3>2. (p * k + q * w) * inv = (p * inv) * k + q * (w * inv)
      BY ONLY p \in Nat, k \in Int, q \in Nat, w \in Int, inv \in Int
    <3>3. QED
      BY ONLY <1>7, <3>1, <3>2
  <2>3. (q * h + 1) * k = q * (h * k) + k
    BY ONLY q \in Nat, h \in Int, k \in Int
  <2>4. q * (h * k) + q * ((f - e + g) * inv) = q * j
    <3>1. PICK w \in Int : w = (f - e + g) * inv
      OBVIOUS
    <3>2. PICK z \in Int : z = h * k
      OBVIOUS
    <3>3. q * z + q * w = q * (z + w)
      BY ONLY q \in Nat, z \in Int, w \in Int
    <3>4. QED
      BY ONLY <3>1, <3>2, <3>3
  <2>5. PICK x \in Int, y \in Int : x = q * (h * k) /\ y = q * ((f - e + g) * inv)
    OBVIOUS
  <2>6. d * inv = x + k + y /\ x + y = q * j
    BY ONLY <1>8, <2>2, <2>3, <2>4, <2>5
  <2> HIDE DEF j
  <2>7. d * inv = q * j + k
    BY ONLY <2>1, <2>6, x \in Int, y \in Int, k \in Int, q \in Nat
  <2>8. QED
    BY <2>1, <2>7
<1>10. (d * inv) % q = k
  <2>1. PICK x \in Int : x = d * inv
    OBVIOUS
  <2>2. x = q * j + k
    BY <1>9, <2>1
  <2>3. x % q = k
    BY ONLY <1>1, <1>3, <2>2, x \in Int, j \in Int, DivModUnique
  <2>4. QED
    BY <2>1, <2>3
<1>11. CrtCompose(a, b, p, q, inv) = a + p * ((d * inv) % q)
  BY ONLY <1>5, <1>6 DEF CrtCompose
<1>12. QED
  BY ONLY <1>1, <1>2, <1>4, <1>10, <1>11, a \in 0 .. p - 1, k \in Int, p \in Nat, p * k \in Int

\* crt_modulus of one modulus or two is their product, if that is a word.
LEMMA CrtModulusIsProduct ==
  ASSUME NEW ms \in Seq(Words), Len(ms) \in 1 .. 2, Len(ms) = 2 => ms[1] * ms[2] < Word
  PROVE  CrtModulus(ms) = IF Len(ms) = 1 THEN ms[1] ELSE ms[1] * ms[2]
<1> DEFINE n == Len(ms)
           Capped(s, k) == IF s * ms[k] < Word THEN s * ms[k] ELSE Word - 1
           G == [i \in 0 .. n |-> [s \in Nat |-> IF i = 0 THEN 1 ELSE Capped(s, i)]]
           F(g) == [k \in 0 .. Len(ms) |->
                      IF k = 0 THEN 1
                      ELSE IF g[k - 1] * ms[k] < Word THEN g[k - 1] * ms[k] ELSE Word - 1]
<1>1. Word \in Nat /\ Word > 0 /\ Words = 0 .. Word - 1 /\ n \in 1 .. 2
  BY WordFacts
<1>2. \A k \in 1 .. n : ms[k] \in Words
  OBVIOUS
<1>3. ASSUME NEW s \in Nat, NEW k \in 0 .. n
      PROVE  (IF k = 0 THEN 1 ELSE Capped(s, k)) \in Nat
  <2>1. CASE k = 0
    BY <2>1
  <2>2. CASE k # 0
    <3>1. ms[k] \in Nat
      BY <1>1, <1>2, <2>2
    <3>2. s * ms[k] \in Nat /\ Word - 1 \in Nat
      BY <1>1, <3>1
    <3>3. QED
      BY <2>2, <3>2
  <2>3. QED
    BY <2>1, <2>2
<1>4. Recurs(Nat, n, 1, G)
  <2>1. n \in Nat /\ 1 \in Nat
    BY <1>1
  <2>2. G \in [0 .. n -> [Nat -> Nat]]
    BY <1>3
  <2> HIDE DEF G, n
  <2>3. QED
    BY <2>1, <2>2 DEF Recurs
<1>5. PICK f : Solves(f, Nat, n, 1, G)
  <2> HIDE DEF G, n
  <2>1. QED
    BY ONLY <1>4, RecursionExists, Zenon
<1>6. f = F(f)
  <2>1. ASSUME NEW i \in 0 .. n, i # 0
        PROVE  f[i] = Capped(f[i - 1], i)
    <3>1. i - 1 \in 0 .. n
      BY <1>1, <2>1
    <3>2. f[i - 1] \in Nat /\ f[i] = G[i][f[i - 1]]
      BY <1>5, <2>1, <3>1 DEF Solves
    <3>3. QED
      BY <2>1, <3>2
  <2>2. \A i \in 0 .. n : f[i] = IF i = 0 THEN 1 ELSE Capped(f[i - 1], i)
    BY <1>5, <2>1 DEF Solves
  <2>3. f = [i \in 0 .. n |-> f[i]]
    BY <1>5 DEF Solves
  <2>4. QED
    BY <2>2, <2>3
<1>7. CrtModulus(ms) = (CHOOSE y : y = F(y))[Len(ms)]
  BY Zenon DEF CrtModulus
<1>8. PICK y : y = F(y) /\ CrtModulus(ms) = y[Len(ms)]
  <2> HIDE DEF F
  <2>1. QED
    BY <1>6, <1>7, Zenon
<1>9. 0 \in 0 .. n /\ 1 \in 0 .. n
  <2> HIDE DEF n
  <2>1. QED
    BY ONLY <1>1
<1>10. \A k \in 0 .. n : y[k] = IF k = 0 THEN 1
                                ELSE IF y[k - 1] * ms[k] < Word THEN y[k - 1] * ms[k] ELSE Word - 1
  <2> HIDE DEF n
  <2>1. QED
    BY <1>8 DEF n
<1>11. y[0] = 1
  BY <1>9, <1>10
<1>12. y[1] = ms[1]
  <2>1. ms[1] \in 0 .. Word - 1
    BY <1>1, <1>2
  <2>2. 1 - 1 = 0 /\ 1 # 0 /\ 1 * ms[1] = ms[1] /\ ms[1] < Word
    BY ONLY <1>1, <2>1
  <2>3. y[1] = IF y[1 - 1] * ms[1] < Word THEN y[1 - 1] * ms[1] ELSE Word - 1
    BY <1>9, <1>10, <2>2
  <2>4. QED
    BY ONLY <1>11, <2>2, <2>3
<1>13. CASE n = 1
  BY <1>8, <1>12, <1>13
<1>14. CASE n = 2
  <2>1. 2 \in 0 .. n /\ 2 - 1 = 1 /\ 2 # 0
    BY <1>14
  <2>2. y[2] = IF y[1] * ms[2] < Word THEN y[1] * ms[2] ELSE Word - 1
    BY ONLY <1>10, <2>1
  <2>3. y[2] = ms[1] * ms[2]
    BY <1>12, <1>14, <2>2
  <2>4. QED
    BY <1>8, <1>14, <2>3
<1>15. QED
  BY <1>1, <1>13, <1>14

\* TryFrom<PolyWire>: a record of two moduli that is let in composes what it splits.
LEMMA LetInComposes ==
  ASSUME NEW w, IsRecord(w), w.moduli \in Seq(Words), Decodes(w), Len(w.moduli) = 2
  PROVE  w.q = w.moduli[1] * w.moduli[2] /\ \A v \in 0 .. w.q - 1 :
           CrtCompose(v % w.moduli[1], v % w.moduli[2], w.moduli[1], w.moduli[2], w.inv) = v
<1>1. [w EXCEPT !.ntt = FALSE] # EmptyPoly
  <2>1. PICK d, ms, v, m, f, c :
          w = [dim |-> d, moduli |-> ms, inv |-> v, q |-> m, ntt |-> f, coeffs |-> c]
    BY DEF IsRecord
  <2>2. ms # <<>>
    BY <2>1
  <2>3. [w EXCEPT !.ntt = FALSE].moduli = ms
    BY <2>1
  <2>4. EmptyPoly.moduli = <<>>
    BY DEF EmptyPoly
  <2>5. QED
    BY <2>2, <2>3, <2>4
<1>2. PICK p, q : p = w.moduli[1] /\ q = w.moduli[2]
  OBVIOUS
<1>3. p \in Nat /\ q \in Nat /\ p >= 2 /\ q >= 2
  BY <1>1, <1>2, WordFacts DEF Decodes
<1>4. p * q < Word /\ w.q = CrtModulus(w.moduli) /\ w.inv = TryModInverse(p, q) /\ w.inv # NoInverse
  BY <1>1, <1>2 DEF Decodes
<1>5. w.q = p * q
  BY <1>2, <1>4, CrtModulusIsProduct
<1>6. w.inv \in Int /\ (p * w.inv) % q = 1
  BY <1>3, <1>4, TryModInverseInverts
<1>7. QED
  BY <1>2, <1>3, <1>5, <1>6, ComposeReads
-----------------------------------------------------------------------------
(* Polynomials of the chain                                                *)

\* The words of a polynomial, and the modulus of each.
Places == 0 .. N * Len(Chain) - 1
ModulusAt(i) == Chain[i \div N + 1]

\* A polynomial of the chain, in whichever domain and of any words, and one of reduced words.
Shaped(p) ==
  /\ IsRecord(p) /\ p.dim = N /\ p.moduli = Chain /\ p.q = CrtModulus(Chain)
  /\ p.inv = IF Len(Chain) = 2 THEN TryModInverse(Chain[1], Chain[2]) ELSE 0
  /\ DOMAIN p.coeffs = Places
Held(p) ==
  /\ IsRecord(p) /\ p.dim = N /\ p.moduli = Chain /\ p.q = CrtModulus(Chain)
  /\ p.inv = IF Len(Chain) = 2 THEN TryModInverse(Chain[1], Chain[2]) ELSE 0
  /\ DOMAIN p.coeffs = Places
  /\ \A i \in Places : p.coeffs[i] \in 0 .. ModulusAt(i) - 1

\* What ChainAssumption says of the moduli.
LEMMA ChainFacts ==
  ASSUME ChainAssumption
  PROVE  /\ Chain \in Seq(NttModuli) /\ Chain \in Seq(Words) /\ Len(Chain) \in 1 .. 2
         /\ DOMAIN Chain = 1 .. Len(Chain)
         /\ \A m \in 1 .. Len(Chain) : /\ Chain[m] \in NttModuli /\ Chain[m] \in Moduli
                                       /\ Chain[m] \in Nat /\ Chain[m] >= 3 /\ Chain[m] <= Word
<1>1. Chain \in Seq(NttModuli) /\ Len(Chain) \in 1 .. 2
  BY DEF ChainAssumption, ModuliAccepted, MaxModuli
<1>2. \A m \in 1 .. Len(Chain) : Chain[m] \in NttModuli
  BY <1>1
<1>3. ASSUME NEW q \in NttModuli
      PROVE  q \in Moduli /\ q \in Nat /\ q >= 3 /\ q <= Word /\ q \in Words
  <2>1. q \in Moduli
    BY DEF NttModuli
  <2>2. q \in Nat /\ q >= 3 /\ 4 * q <= Word /\ Word \in Nat
    BY <2>1, ModulusFacts
  <2>3. q \in 0 .. Word - 1
    BY <2>2
  <2>4. QED
    BY <2>1, <2>2, <2>3 DEF Words
<1>4. Chain \in Seq(Words)
  BY <1>1, <1>3
<1>5. QED
  BY <1>1, <1>2, <1>3, <1>4

\* One stripe behind the other.
LEMMA PlaceFacts ==
  ASSUME ChainAssumption
  PROVE  /\ \A i \in Places : i \div N + 1 \in 1 .. Len(Chain) /\ i % N \in Idx
         /\ \A m \in 1 .. Len(Chain), j \in Idx :
              LET i == (m - 1) * N + j IN i \in Places /\ i \div N + 1 = m /\ i % N = j
<1>1. PICK L \in 1 .. 2 : L = Len(Chain)
  BY ChainFacts
<1>2. N \in Nat /\ N >= 2 /\ N \in Nat \ {0}
  BY Dimension
<1>3. ASSUME NEW i \in 0 .. N * L - 1
      PROVE  i \div N + 1 \in 1 .. L /\ i % N \in 0 .. N - 1
  <2>1. PICK k \in Int, r \in 0 .. N - 1 : k = i \div N /\ r = i % N /\ i = N * k + r
    <3>1. i \in Int
      BY <1>2
    <3>2. QED
      BY ONLY <1>2, <3>1, DivMod
  <2>2. k >= 0
    <3>1. ASSUME k <= -1
          PROVE  FALSE
      <4>1. N * k <= N * (-1)
        BY ONLY <1>2, <3>1, k \in Int
      <4>2. N * k \in Int
        BY ONLY <1>2, k \in Int
      <4>3. i >= 0 /\ i \in Int
        BY ONLY <1>2, L \in 1 .. 2, i \in 0 .. N * L - 1
      <4>4. QED
        BY ONLY <1>2, <2>1, <4>1, <4>2, <4>3, r \in 0 .. N - 1
    <3>2. QED
      BY <3>1
  <2>3. k < L
    <3>1. ASSUME k >= L
          PROVE  FALSE
      <4>1. N * k >= N * L
        BY ONLY <1>2, <3>1, k \in Int, L \in 1 .. 2
      <4>2. N * k \in Int /\ N * L \in Int
        BY ONLY <1>2, k \in Int, L \in 1 .. 2
      <4>3. QED
        BY ONLY <1>2, <2>1, <4>1, <4>2, r \in 0 .. N - 1, i \in 0 .. N * L - 1
    <3>2. QED
      BY <3>1
  <2>4. QED
    BY ONLY <2>1, <2>2, <2>3, k \in Int, r \in 0 .. N - 1, L \in 1 .. 2
<1>4. ASSUME NEW m \in 1 .. L, NEW j \in 0 .. N - 1
      PROVE  /\ (m - 1) * N + j \in 0 .. N * L - 1
             /\ ((m - 1) * N + j) \div N = m - 1 /\ ((m - 1) * N + j) % N = j
  <2>1. PICK k \in 0 .. 1 : k = m - 1 /\ k < L
    OBVIOUS
  <2>2. k * N + j = N * k + j /\ k * N + j \in Int
    BY ONLY <1>2, k \in 0 .. 1, j \in 0 .. N - 1
  <2>3. (k * N + j) \div N = k /\ (k * N + j) % N = j
    <3>1. PICK a \in Int : a = k * N + j
      BY <2>2
    <3>2. a = N * k + j /\ k \in Int
      BY <2>2, <3>1
    <3>3. a % N = j /\ a \div N = k
      BY ONLY <1>2, <3>2, a \in Int, j \in 0 .. N - 1, DivModUnique
    <3>4. QED
      BY <3>1, <3>3
  <2>4. k * N + j \in 0 .. N * L - 1
    <3>1. CASE k = 0
      <4>1. N * L >= N
        BY ONLY <1>2, L \in 1 .. 2
      <4>2. QED
        BY ONLY <1>2, <3>1, <4>1, j \in 0 .. N - 1, L \in 1 .. 2
    <3>2. CASE k = 1
      <4>1. N * L = N + N
        BY ONLY <1>2, <2>1, <3>2, L \in 1 .. 2
      <4>2. QED
        BY ONLY <1>2, <3>2, <4>1, j \in 0 .. N - 1
    <3>3. QED
      BY <3>1, <3>2
  <2>5. QED
    BY <2>1, <2>3, <2>4
<1>5. ASSUME NEW m \in 1 .. L, NEW j \in 0 .. N - 1
      PROVE  ((m - 1) * N + j) \div N + 1 = m
  BY <1>4
<1>6. QED
  BY <1>1, <1>3, <1>4, <1>5 DEF Places, Idx

\* The modulus of a place.
LEMMA PlaceModulus ==
  ASSUME ChainAssumption, NEW i \in Places
  PROVE  /\ ModulusAt(i) \in NttModuli /\ ModulusAt(i) \in Moduli /\ ModulusAt(i) \in Nat
         /\ ModulusAt(i) >= 3 /\ ModulusAt(i) <= Word /\ i % N \in Idx
BY ChainFacts, PlaceFacts DEF ModulusAt

\* Other words, reduced, make another polynomial of the chain, and so does another domain.
LEMMA HeldWith ==
  ASSUME NEW p, Held(p), NEW c, DOMAIN c = Places,
         \A i \in Places : c[i] \in 0 .. ModulusAt(i) - 1
  PROVE  Held([p EXCEPT !.coeffs = c])
<1>1. PICK d, ms, v, m, f, e :
        p = [dim |-> d, moduli |-> ms, inv |-> v, q |-> m, ntt |-> f, coeffs |-> e]
  BY DEF Held, IsRecord
<1>2. [p EXCEPT !.coeffs = c]
        = [dim |-> d, moduli |-> ms, inv |-> v, q |-> m, ntt |-> f, coeffs |-> c]
  BY <1>1
<1>3. d = N /\ ms = Chain /\ m = CrtModulus(Chain)
      /\ v = IF Len(Chain) = 2 THEN TryModInverse(Chain[1], Chain[2]) ELSE 0
  BY <1>1 DEF Held
<1>4. Held([dim |-> d, moduli |-> ms, inv |-> v, q |-> m, ntt |-> f, coeffs |-> c])
  BY <1>3 DEF Held, IsRecord
<1>5. QED
  BY <1>2, <1>4

\* So does its domain: the words are reduced in either.
LEMMA HeldFlag ==
  ASSUME NEW p, Held(p), NEW b
  PROVE  Held([p EXCEPT !.ntt = b])
<1>1. PICK d, ms, v, m, f, e :
        p = [dim |-> d, moduli |-> ms, inv |-> v, q |-> m, ntt |-> f, coeffs |-> e]
  BY DEF Held, IsRecord
<1>2. [p EXCEPT !.ntt = b]
        = [dim |-> d, moduli |-> ms, inv |-> v, q |-> m, ntt |-> b, coeffs |-> e]
  BY <1>1
<1>3. /\ d = N /\ ms = Chain /\ m = CrtModulus(Chain)
      /\ v = IF Len(Chain) = 2 THEN TryModInverse(Chain[1], Chain[2]) ELSE 0
      /\ DOMAIN e = Places /\ \A i \in Places : e[i] \in 0 .. ModulusAt(i) - 1
  BY <1>1 DEF Held
<1>4. Held([dim |-> d, moduli |-> ms, inv |-> v, q |-> m, ntt |-> b, coeffs |-> e])
  BY <1>3 DEF Held, IsRecord
<1>5. QED
  BY <1>2, <1>4

\* The shape is what is left of it without its words.
LEMMA HeldShaped ==
  ASSUME NEW p
  PROVE  /\ Held(p) => Shaped(p)
         /\ Shaped(p) /\ (\A i \in Places : p.coeffs[i] \in 0 .. ModulusAt(i) - 1) => Held(p)
BY DEF Held, Shaped

\* Any words and any domain keep it.
LEMMA ShapedWith ==
  ASSUME NEW p, Shaped(p), NEW c, DOMAIN c = Places, NEW b
  PROVE  Shaped([p EXCEPT !.coeffs = c, !.ntt = b])
<1>1. PICK d, ms, v, m, f, e :
        p = [dim |-> d, moduli |-> ms, inv |-> v, q |-> m, ntt |-> f, coeffs |-> e]
  BY DEF Shaped, IsRecord
<1>2. [p EXCEPT !.coeffs = c, !.ntt = b]
        = [dim |-> d, moduli |-> ms, inv |-> v, q |-> m, ntt |-> b, coeffs |-> c]
  <2>1. PICK x : x = [p EXCEPT !.coeffs = c]
    OBVIOUS
  <2>2. x = [dim |-> d, moduli |-> ms, inv |-> v, q |-> m, ntt |-> f, coeffs |-> c]
    BY <1>1, <2>1
  <2>3. [x EXCEPT !.ntt = b]
          = [dim |-> d, moduli |-> ms, inv |-> v, q |-> m, ntt |-> b, coeffs |-> c]
    BY <2>2
  <2>4. [p EXCEPT !.coeffs = c, !.ntt = b] = [x EXCEPT !.ntt = b]
    BY <2>1, Zenon
  <2>5. QED
    BY <2>3, <2>4
<1>3. d = N /\ ms = Chain /\ m = CrtModulus(Chain)
      /\ v = IF Len(Chain) = 2 THEN TryModInverse(Chain[1], Chain[2]) ELSE 0
  BY <1>1 DEF Shaped
<1>4. Shaped([dim |-> d, moduli |-> ms, inv |-> v, q |-> m, ntt |-> b, coeffs |-> c])
  BY <1>3 DEF Shaped, IsRecord
<1>5. QED
  BY <1>2, <1>4

\* Poly builds a polynomial of the chain around reduced words.
LEMMA HeldPoly ==
  ASSUME NEW c, DOMAIN c = Places, \A i \in Places : c[i] \in 0 .. ModulusAt(i) - 1
  PROVE  Held(Poly(c, N, Chain))
BY DEF Held, Poly, IsRecord

\* One stripe is reduced by its own modulus.
LEMMA LimbReduced ==
  ASSUME ChainAssumption, NEW p, Held(p), NEW m \in 1 .. Len(Chain)
  PROVE  Chain[m] \in NttModuli /\ Limb(p, m) \in [Idx -> 0 .. Chain[m] - 1]
<1>1. ASSUME NEW j \in Idx
      PROVE  p.coeffs[(m - 1) * N + j] \in 0 .. Chain[m] - 1
  <2>1. PICK i \in Places : i = (m - 1) * N + j /\ i \div N + 1 = m
    BY PlaceFacts
  <2>2. p.coeffs[i] \in 0 .. Chain[i \div N + 1] - 1
    BY DEF Held, ModulusAt
  <2>3. QED
    BY <2>1, <2>2
<1>2. QED
  BY <1>1, ChainFacts DEF Limb

\* to_ntt and from_ntt.
LEMMA ConversionsHeld ==
  ASSUME ChainAssumption, NEW p, Held(p)
  PROVE  Held(ToNtt(p)) /\ Held(FromNtt(p))
<1>1. ASSUME NEW s, \A m \in 1 .. Len(Chain) : s[m] \in [Idx -> 0 .. Chain[m] - 1], NEW b
      PROVE  Held([WithLimbs(p, s) EXCEPT !.ntt = b])
  <2> DEFINE c == [i \in DOMAIN p.coeffs |-> s[i \div N + 1][i % N]]
  <2>1. DOMAIN c = Places /\ \A i \in Places : c[i] = s[i \div N + 1][i % N]
    BY DEF Held
  <2>2. ASSUME NEW i \in Places
        PROVE  c[i] \in 0 .. ModulusAt(i) - 1
    <3>1. PICK m \in 1 .. Len(Chain), j \in Idx : m = i \div N + 1 /\ j = i % N
      BY PlaceFacts
    <3>2. s[m][j] \in 0 .. Chain[m] - 1
      BY <1>1
    <3>3. QED
      BY <2>1, <3>1, <3>2 DEF ModulusAt
  <2>3. WithLimbs(p, s) = [p EXCEPT !.coeffs = c]
    BY DEF WithLimbs
  <2> HIDE DEF c
  <2>4. Held(WithLimbs(p, s))
    BY ONLY Held(p), <2>1, <2>2, <2>3, HeldWith
  <2>5. QED
    BY ONLY <2>4, HeldFlag
<1>2. Limbs(p) = 1 .. Len(Chain) /\ p.moduli = Chain
  BY ChainFacts DEF Held, Limbs
<1>3. Held(ToNtt(p))
  <2> DEFINE s == [m \in Limbs(p) |-> Forward(Limb(p, m), p.moduli[m])]
  <2>1. ASSUME NEW m \in 1 .. Len(Chain)
        PROVE  s[m] \in [Idx -> 0 .. Chain[m] - 1]
    <3>1. Chain[m] \in NttModuli /\ Limb(p, m) \in [Idx -> 0 .. Chain[m] - 1]
      BY LimbReduced
    <3>2. \A j \in Idx : Limb(p, m)[j] \in 0 .. Word - 1
      BY <3>1, ChainFacts, WordFacts
    <3>3. Forward(Limb(p, m), Chain[m]) \in [Idx -> 0 .. Chain[m] - 1]
      BY ONLY <3>1, <3>2, ForwardReduced
    <3>4. s[m] = Forward(Limb(p, m), Chain[m])
      BY <1>2
    <3>5. QED
      BY <3>3, <3>4
  <2>2. ToNtt(p) = p \/ ToNtt(p) = [WithLimbs(p, s) EXCEPT !.ntt = TRUE]
    BY DEF ToNtt
  <2> HIDE DEF s
  <2>3. Held([WithLimbs(p, s) EXCEPT !.ntt = TRUE])
    BY ONLY <1>1, <2>1, Zenon
  <2>4. QED
    BY <2>2, <2>3
<1>4. Held(FromNtt(p))
  <2> DEFINE s == [m \in Limbs(p) |-> Inverse(Limb(p, m), p.moduli[m])]
  <2>1. ASSUME NEW m \in 1 .. Len(Chain)
        PROVE  s[m] \in [Idx -> 0 .. Chain[m] - 1]
    <3>1. Chain[m] \in NttModuli /\ Limb(p, m) \in [Idx -> 0 .. Chain[m] - 1]
      BY LimbReduced
    <3>2. Inverse(Limb(p, m), Chain[m]) \in [Idx -> 0 .. Chain[m] - 1]
      BY ONLY <3>1, InverseReduced
    <3>3. s[m] = Inverse(Limb(p, m), Chain[m])
      BY <1>2
    <3>4. QED
      BY <3>2, <3>3
  <2>2. FromNtt(p) = p \/ FromNtt(p) = [WithLimbs(p, s) EXCEPT !.ntt = FALSE]
    BY DEF FromNtt
  <2> HIDE DEF s
  <2>3. Held([WithLimbs(p, s) EXCEPT !.ntt = FALSE])
    BY ONLY <1>1, <2>1, Zenon
  <2>4. QED
    BY <2>2, <2>3
<1>5. QED
  BY <1>3, <1>4

\* Words at the same place of two polynomials.
LEMMA WordsAt ==
  ASSUME ChainAssumption, NEW p, Held(p), NEW i \in Places
  PROVE  \E q \in Moduli, x \in Nat :
           /\ x \in 0 .. q - 1
           /\ q = ModulusAt(i) /\ q = p.moduli[i \div N + 1] /\ x = p.coeffs[i]
           /\ q \in Nat /\ q > 0
<1>1. ModulusAt(i) \in Moduli /\ ModulusAt(i) \in Nat /\ ModulusAt(i) > 0
  BY PlaceModulus
<1>2. p.coeffs[i] \in 0 .. ModulusAt(i) - 1 /\ ModulusAt(i) = p.moduli[i \div N + 1]
  BY DEF Held, ModulusAt
<1>3. QED
  BY <1>1, <1>2

\* Add, Sub, Neg and the pointwise product.
LEMMA WordWiseHeld ==
  ASSUME ChainAssumption, NEW p, Held(p), NEW r, Held(r)
  PROVE  /\ Held(PolyAdd(p, r)) /\ Held(PolySub(p, r)) /\ Held(PolyNegate(p))
         /\ Held(MulNttDomain(p, r))
         /\ \A b : Held([MulNttDomain(p, r) EXCEPT !.ntt = b])
<1>1. DOMAIN p.coeffs = Places
  BY DEF Held
<1>2. Held(PolyAdd(p, r))
  <2> DEFINE c == [i \in DOMAIN p.coeffs |-> AddMod(p.coeffs[i], r.coeffs[i], p.moduli[i \div N + 1])]
  <2>1. DOMAIN c = Places /\ \A i \in Places : c[i] = AddMod(p.coeffs[i], r.coeffs[i], p.moduli[i \div N + 1])
    BY <1>1
  <2>2. ASSUME NEW i \in Places
        PROVE  c[i] \in 0 .. ModulusAt(i) - 1
    <3>1. PICK q \in Moduli, x \in Nat :
            /\ x \in 0 .. q - 1
            /\ q = ModulusAt(i) /\ q = p.moduli[i \div N + 1] /\ x = p.coeffs[i]
      BY WordsAt
    <3>2. PICK y \in 0 .. q - 1 : y = r.coeffs[i]
      BY <3>1, WordsAt
    <3>3. AddMod(x, y, q) \in 0 .. q - 1
      BY <3>1, <3>2, SumReduces
    <3>4. QED
      BY <2>1, <3>1, <3>2, <3>3
  <2>3. PolyAdd(p, r) = [p EXCEPT !.coeffs = c]
    BY DEF WordWise, PolyAdd
  <2> HIDE DEF c
  <2>4. QED
    BY ONLY Held(p), <2>1, <2>2, <2>3, HeldWith
<1>3. Held(PolySub(p, r))
  <2> DEFINE c == [i \in DOMAIN p.coeffs |-> SubMod(p.coeffs[i], r.coeffs[i], p.moduli[i \div N + 1])]
  <2>1. DOMAIN c = Places /\ \A i \in Places : c[i] = SubMod(p.coeffs[i], r.coeffs[i], p.moduli[i \div N + 1])
    BY <1>1
  <2>2. ASSUME NEW i \in Places
        PROVE  c[i] \in 0 .. ModulusAt(i) - 1
    <3>1. PICK q \in Moduli, x \in Nat :
            /\ x \in 0 .. q - 1
            /\ q = ModulusAt(i) /\ q = p.moduli[i \div N + 1] /\ x = p.coeffs[i]
      BY WordsAt
    <3>2. PICK y \in 0 .. q - 1 : y = r.coeffs[i]
      BY <3>1, WordsAt
    <3>3. SubMod(x, y, q) \in 0 .. q - 1
      BY <3>1, <3>2, SumReduces
    <3>4. QED
      BY <2>1, <3>1, <3>2, <3>3
  <2>3. PolySub(p, r) = [p EXCEPT !.coeffs = c]
    BY DEF WordWise, PolySub
  <2> HIDE DEF c
  <2>4. QED
    BY ONLY Held(p), <2>1, <2>2, <2>3, HeldWith
<1>4. Held(PolyNegate(p))
  <2> DEFINE c == [i \in DOMAIN p.coeffs |-> NegMod(p.coeffs[i], p.moduli[i \div N + 1])]
  <2>1. DOMAIN c = Places /\ \A i \in Places : c[i] = NegMod(p.coeffs[i], p.moduli[i \div N + 1])
    BY <1>1
  <2>2. ASSUME NEW i \in Places
        PROVE  c[i] \in 0 .. ModulusAt(i) - 1
    <3>1. PICK q \in Moduli, x \in Nat :
            /\ x \in 0 .. q - 1
            /\ q = ModulusAt(i) /\ q = p.moduli[i \div N + 1] /\ x = p.coeffs[i]
      BY WordsAt
    <3>2. PICK y \in 0 .. q - 1 : y = r.coeffs[i]
      BY <3>1, WordsAt
    <3>3. NegMod(x, q) \in 0 .. q - 1
      BY <3>1, <3>2, SumReduces
    <3>4. QED
      BY <2>1, <3>1, <3>2, <3>3
  <2>3. PolyNegate(p) = [p EXCEPT !.coeffs = c]
    BY DEF WordWise, PolyNegate
  <2> HIDE DEF c
  <2>4. QED
    BY ONLY Held(p), <2>1, <2>2, <2>3, HeldWith
<1>5. Held(MulNttDomain(p, r)) /\ \A b : Held([MulNttDomain(p, r) EXCEPT !.ntt = b])
  <2> DEFINE c == [i \in DOMAIN p.coeffs |-> MontgomeryMul(p.coeffs[i], r.coeffs[i], p.moduli[i \div N + 1])]
  <2>1. DOMAIN c = Places /\ \A i \in Places : c[i] = MontgomeryMul(p.coeffs[i], r.coeffs[i], p.moduli[i \div N + 1])
    BY <1>1
  <2>2. ASSUME NEW i \in Places
        PROVE  c[i] \in 0 .. ModulusAt(i) - 1
    <3>1. PICK q \in Moduli, x \in Nat :
            /\ x \in 0 .. q - 1
            /\ q = ModulusAt(i) /\ q = p.moduli[i \div N + 1] /\ x = p.coeffs[i]
      BY WordsAt
    <3>2. PICK y \in 0 .. q - 1 : y = r.coeffs[i]
      BY <3>1, WordsAt
    <3>3. MontgomeryMul(x, y, q) \in 0 .. q - 1
      BY <3>1, <3>2, ProductReduces
    <3>4. QED
      BY <2>1, <3>1, <3>2, <3>3
  <2>3. MulNttDomain(p, r) = [p EXCEPT !.coeffs = c]
    BY DEF WordWise, MulNttDomain, PointMul
  <2> HIDE DEF c
  <2>4. Held(MulNttDomain(p, r))
    BY ONLY Held(p), <2>1, <2>2, <2>3, HeldWith
  <2>5. QED
    BY ONLY <2>4, HeldFlag
<1>6. QED
  BY <1>2, <1>3, <1>4, <1>5

\* mul_ntt, which converts its operands and converts back.
LEMMA MulNttHeld ==
  ASSUME ChainAssumption, NEW p, Held(p), NEW r, Held(r)
  PROVE  Held(MulNtt(p, r))
<1>1. PICK x, y : x = ToNtt(p) /\ y = ToNtt(r) /\ Held(x) /\ Held(y)
  BY ConversionsHeld
<1>2. Held([MulNttDomain(x, y) EXCEPT !.ntt = TRUE])
  BY <1>1, WordWiseHeld
<1>3. PICK z : z = [MulNttDomain(x, y) EXCEPT !.ntt = TRUE] /\ Held(z)
  BY <1>2
<1>4. QED
  BY <1>1, <1>3, ConversionsHeld DEF MulNtt

\* mul_acc_ntt_domain, and its form for three products, whose sum is below four moduli.
LEMMA MulAccHeld ==
  ASSUME ChainAssumption, NEW p, Held(p), NEW r, Held(r), NEW s, Held(s)
  PROVE  Held(MulAccNttDomain(p, r, s)) /\ Held(MulAcc3NttDomain(p, r, s))
<1>1. DOMAIN p.coeffs = Places
  BY DEF Held
<1>2. ASSUME NEW i \in Places
      PROVE  \E q \in Moduli, x \in Nat, y \in Nat :
               /\ x \in 0 .. q - 1 /\ y \in 0 .. q - 1
               /\ q = ModulusAt(i) /\ q = p.moduli[i \div N + 1] /\ x = p.coeffs[i]
               /\ y = PointMul(r, s, i, q) /\ q \in Nat /\ q > 0
  <2>1. PICK q \in Moduli, x \in Nat :
          /\ x \in 0 .. q - 1
          /\ q = ModulusAt(i) /\ q = p.moduli[i \div N + 1] /\ x = p.coeffs[i] /\ q \in Nat /\ q > 0
    BY WordsAt
  <2>2. PICK a \in 0 .. q - 1 : a = r.coeffs[i]
    BY <2>1, WordsAt
  <2>3. PICK b \in 0 .. q - 1 : b = s.coeffs[i]
    BY <2>1, WordsAt
  <2>4. PointMul(r, s, i, q) \in 0 .. q - 1
    BY <2>2, <2>3, ProductReduces DEF PointMul
  <2>5. QED
    BY <2>1, <2>4
<1>3. Held(MulAccNttDomain(p, r, s))
  <2> DEFINE w(i, q) == AddMod(p.coeffs[i], PointMul(r, s, i, q), q)
             c == [i \in DOMAIN p.coeffs |-> w(i, p.moduli[i \div N + 1])]
  <2>1. MulAccNttDomain(p, r, s) = [p EXCEPT !.coeffs = c]
    BY DEF WordWise, MulAccNttDomain
  <2>2. DOMAIN c = Places /\ \A i \in Places : c[i] = w(i, p.moduli[i \div N + 1])
    BY <1>1
  <2>3. ASSUME NEW i \in Places
        PROVE  c[i] \in 0 .. ModulusAt(i) - 1
    <3>1. PICK q \in Moduli, x \in Nat, y \in Nat :
            /\ x \in 0 .. q - 1 /\ y \in 0 .. q - 1
            /\ q = ModulusAt(i) /\ q = p.moduli[i \div N + 1] /\ x = p.coeffs[i]
            /\ y = PointMul(r, s, i, q)
      BY <1>2
    <3>2. AddMod(x, y, q) \in 0 .. q - 1
      BY <3>1, SumReduces
    <3>3. QED
      BY <2>2, <3>1, <3>2
  <2> HIDE DEF c
  <2>4. QED
    BY ONLY Held(p), <2>1, <2>2, <2>3, HeldWith
<1>4. Held(MulAcc3NttDomain(p, r, s))
  <2> DEFINE w(i, q) == CondSub(CondSub(CondSub(p.coeffs[i] + 3 * PointMul(r, s, i, q), q), q), q)
             c == [i \in DOMAIN p.coeffs |-> w(i, p.moduli[i \div N + 1])]
  <2>1. MulAcc3NttDomain(p, r, s) = [p EXCEPT !.coeffs = c]
    BY DEF WordWise, MulAcc3NttDomain
  <2>2. DOMAIN c = Places /\ \A i \in Places : c[i] = w(i, p.moduli[i \div N + 1])
    BY <1>1
  <2>3. ASSUME NEW i \in Places
        PROVE  c[i] \in 0 .. ModulusAt(i) - 1
    <3>1. PICK q \in Moduli, x \in Nat, y \in Nat :
            /\ x \in 0 .. q - 1 /\ y \in 0 .. q - 1
            /\ q = ModulusAt(i) /\ q = p.moduli[i \div N + 1] /\ x = p.coeffs[i]
            /\ y = PointMul(r, s, i, q) /\ q \in Nat /\ q > 0
      BY <1>2
    <3>2. PICK t \in Nat : t = x + 3 * y /\ t < 4 * q
      BY <3>1
    <3>3. CondSub(CondSub(CondSub(t, q), q), q) \in 0 .. q - 1
      <4>1. CondSub(CondSub(CondSub(Low64(t), q), q), q) \in 0 .. q - 1
        BY <3>2, ReduceFour
      <4>2. Low64(t) = t
        <5>1. t \in 0 .. Word - 1 /\ Word \in Nat \ {0}
          BY <3>2, ModulusFacts
        <5>2. QED
          BY <5>1, ModSmall DEF Low64
      <4>3. QED
        BY <4>1, <4>2
    <3>4. QED
      BY <2>2, <3>1, <3>2, <3>3
  <2> HIDE DEF c
  <2>4. QED
    BY ONLY Held(p), <2>1, <2>2, <2>3, HeldWith
<1>5. QED
  BY <1>3, <1>4

\* scalar_mul and set_coeff.
LEMMA ScalarsHeld ==
  ASSUME ChainAssumption, NEW p, Held(p), NEW k \in Nat, NEW n
  PROVE  Held(ScalarMul(p, k)) /\ Held(SetCoeff(p, n, k))
<1>1. DOMAIN p.coeffs = Places
  BY DEF Held
<1>2. Held(ScalarMul(p, k))
  <2> DEFINE w(i, q) == (p.coeffs[i] * (k % q)) % q
             c == [i \in DOMAIN p.coeffs |-> w(i, p.moduli[i \div N + 1])]
  <2>1. ScalarMul(p, k) = [p EXCEPT !.coeffs = c]
    BY DEF WordWise, ScalarMul
  <2>2. DOMAIN c = Places /\ \A i \in Places : c[i] = w(i, p.moduli[i \div N + 1])
    BY <1>1
  <2>3. ASSUME NEW i \in Places
        PROVE  c[i] \in 0 .. ModulusAt(i) - 1
    <3>1. PICK q \in Moduli, x \in Nat :
            /\ x \in 0 .. q - 1
            /\ q = ModulusAt(i) /\ q = p.moduli[i \div N + 1] /\ x = p.coeffs[i] /\ q \in Nat /\ q > 0
      BY WordsAt
    <3>2. PICK r \in Nat : r = k % q
      BY <3>1
    <3>3. PICK y \in Nat : y = x * r
      BY <3>1
    <3>4. y % q \in 0 .. q - 1
      BY ONLY <3>1, y \in Nat
    <3>5. QED
      BY <2>2, <3>1, <3>2, <3>3, <3>4
  <2> HIDE DEF c
  <2>4. QED
    BY ONLY Held(p), <2>1, <2>2, <2>3, HeldWith
<1>3. Held(SetCoeff(p, n, k))
  <2> DEFINE w(i, q) == IF i % p.dim = n THEN k % q ELSE p.coeffs[i]
             c == [i \in DOMAIN p.coeffs |-> w(i, p.moduli[i \div N + 1])]
  <2>1. SetCoeff(p, n, k) = [p EXCEPT !.coeffs = c]
    BY DEF WordWise, SetCoeff
  <2>2. DOMAIN c = Places /\ \A i \in Places : c[i] = w(i, p.moduli[i \div N + 1])
    BY <1>1
  <2>3. ASSUME NEW i \in Places
        PROVE  c[i] \in 0 .. ModulusAt(i) - 1
    <3>1. PICK q \in Moduli, x \in Nat :
            /\ x \in 0 .. q - 1
            /\ q = ModulusAt(i) /\ q = p.moduli[i \div N + 1] /\ x = p.coeffs[i] /\ q \in Nat /\ q > 0
      BY WordsAt
    <3>2. k % q \in 0 .. q - 1
      BY ONLY <3>1, k \in Nat
    <3>3. c[i] = k % q \/ c[i] = x
      BY <2>2, <3>1
    <3>4. QED
      BY <3>1, <3>2, <3>3
  <2> HIDE DEF c
  <2>4. QED
    BY ONLY Held(p), <2>1, <2>2, <2>3, HeldWith
<1>4. QED
  BY <1>2, <1>3

\* from_coeffs_moduli, from_crt_coeffs and sample_gaussian_moduli.
LEMMA LoadsHeld ==
  ASSUME ChainAssumption, PolyInputs
  PROVE  /\ \A g \in Given : Held(FromCoeffs(g, Chain))
         /\ \A g \in Given : Held(FromCrtCoeffs([i \in Range2(N, Len(Chain)) |-> g[i % N]], Chain))
         /\ \A v \in Vectors : Held(FromSamples(v, Chain))
<1>1. Range2(N, Len(Chain)) = Places
  BY DEF Range2, Places
<1>2. ASSUME NEW g \in Given, NEW i \in Places
      PROVE  g[i % N] % ModulusAt(i) \in 0 .. ModulusAt(i) - 1
  <2>1. PICK q \in Nat, x \in Nat : q = ModulusAt(i) /\ x = g[i % N] /\ q >= 3
    BY PlaceModulus, WordFacts DEF PolyInputs
  <2>2. x % q \in 0 .. q - 1
    BY ONLY <2>1, q \in Nat, x \in Nat
  <2>3. QED
    BY <2>1, <2>2
<1>3. ASSUME NEW g \in Given
      PROVE  Held(FromCoeffs(g, Chain))
  <2> DEFINE c == [i \in Range2(N, Len(Chain)) |-> CrtDecompose(g[i % N], Chain)[i \div N + 1]]
  <2>1. ASSUME NEW i \in Places
        PROVE  c[i] \in 0 .. ModulusAt(i) - 1
    <3>1. i \div N + 1 \in DOMAIN Chain
      BY ChainFacts, PlaceFacts
    <3>2. c[i] = g[i % N] % ModulusAt(i)
      BY <1>1, <3>1 DEF CrtDecompose, ModulusAt
    <3>3. QED
      BY <1>2, <3>2
  <2>2. DOMAIN c = Places
    BY <1>1
  <2>3. FromCoeffs(g, Chain) = Poly(c, N, Chain)
    BY DEF FromCoeffs
  <2> HIDE DEF c
  <2>4. QED
    BY <2>1, <2>2, <2>3, HeldPoly
<1>4. ASSUME NEW g \in Given
      PROVE  Held(FromCrtCoeffs([i \in Range2(N, Len(Chain)) |-> g[i % N]], Chain))
  <2> DEFINE f == [i \in Range2(N, Len(Chain)) |-> g[i % N]]
             c == [i \in DOMAIN f |-> f[i] % Chain[i \div N + 1]]
  <2>1. DOMAIN f = Places
    BY <1>1
  <2>2. ASSUME NEW i \in Places
        PROVE  c[i] \in 0 .. ModulusAt(i) - 1
    <3>1. c[i] = g[i % N] % ModulusAt(i)
      BY <1>1 DEF ModulusAt
    <3>2. QED
      BY <1>2, <3>1
  <2>3. DOMAIN c = Places
    BY <2>1
  <2>4. FromCrtCoeffs(f, Chain) = Poly(c, N, Chain)
    BY DEF FromCrtCoeffs
  <2> HIDE DEF c, f
  <2>5. Held(FromCrtCoeffs(f, Chain))
    BY <2>2, <2>3, <2>4, HeldPoly
  <2>6. QED
    BY <2>5 DEF f
<1>5. ASSUME NEW v \in Vectors
      PROVE  Held(FromSamples(v, Chain))
  <2> DEFINE c == [i \in Range2(N, Len(Chain)) |-> FromSigned(v[i % N], Chain[i \div N + 1])]
  <2>1. ASSUME NEW i \in Places
        PROVE  c[i] \in 0 .. ModulusAt(i) - 1
    <3>1. v[i % N] \in SignedWords /\ ModulusAt(i) \in Moduli
      BY PlaceModulus DEF PolyInputs
    <3>2. FromSigned(v[i % N], ModulusAt(i)) \in 0 .. ModulusAt(i) - 1
      BY <3>1, FromSignedReduces
    <3>3. QED
      BY <1>1, <3>2 DEF ModulusAt
  <2>2. DOMAIN c = Places
    BY <1>1
  <2>3. FromSamples(v, Chain) = Poly(c, N, Chain)
    BY DEF FromSamples
  <2> HIDE DEF c
  <2>4. QED
    BY <2>1, <2>2, <2>3, HeldPoly
<1>6. QED
  BY <1>3, <1>4, <1>5
-----------------------------------------------------------------------------
(* The registers                                                           *)

\* Every register holds a polynomial of the chain, of reduced words unless words past their
\* modulus went into it.
PolyInv ==
  /\ reg = [r \in Regs |-> reg[r]]
  /\ \A r \in Regs : Shaped(reg[r]) /\ (r \notin unreduced => Held(reg[r]))

\* What steps leave alone keeps the invariant.
LEMMA InvStays ==
  ASSUME PolyInv, UNCHANGED <<reg, unreduced>>
  PROVE  PolyInv'
BY DEF PolyInv, Shaped, Held, ModulusAt, Places

\* An operation that makes a polynomial of the chain keeps the invariant, and so does
\* the panic of its assertion.
LEMMA OperationKeeps ==
  ASSUME PolyInv, NEW r \in Regs, NEW p, NEW op, NEW by, NEW arg, NEW a
  PROVE  /\ Held(p) /\ Do(op, r, by, arg, p, a) => PolyInv'
         /\ Held(p) /\ Make(op, r, by, arg, p) => PolyInv'
         /\ Refuse(r) => PolyInv'
         /\ \A needed : (needed => Held(p)) /\ Asserting(needed, op, r, by, arg, p) => PolyInv'
<1>1. ASSUME NEW o, NEW b, NEW g, NEW x, NEW y, Held(y), Do(o, r, b, g, y, x)
      PROVE  PolyInv'
  <2>1. reg' = [reg EXCEPT ![r] = y] /\ unreduced' = unreduced \ {r}
    BY <1>1 DEF Do
  <2>2. /\ reg' = [s \in Regs |-> reg'[s]] /\ reg'[r] = y
        /\ \A s \in Regs : s # r => reg'[s] = reg[s]
    BY <2>1 DEF PolyInv
  <2>3. ASSUME NEW s \in Regs
        PROVE  Shaped(reg'[s]) /\ (s \notin unreduced' => Held(reg'[s]))
    <3>1. CASE s = r
      BY <1>1, <2>2, <3>1, HeldShaped
    <3>2. CASE s # r
      BY <2>1, <2>2, <3>2 DEF PolyInv
    <3>3. QED
      BY <3>1, <3>2
  <2>4. QED
    BY <2>2, <2>3 DEF PolyInv, Shaped, Held, ModulusAt, Places
<1>2. ASSUME NEW o, NEW b, NEW g, NEW y, Held(y), Make(o, r, b, g, y)
      PROVE  PolyInv'
  BY <1>1, <1>2 DEF Make
<1>3. ASSUME Refuse(r)
      PROVE  PolyInv'
  BY <1>3, InvStays DEF Refuse
<1>4. ASSUME NEW needed, needed => Held(p), Asserting(needed, op, r, by, arg, p)
      PROVE  PolyInv'
  BY <1>2, <1>3, <1>4 DEF Asserting
<1>5. QED
  BY <1>1, <1>2, <1>3, <1>4

\* So do words past their modulus, in a polynomial of the chain otherwise.
LEMMA UnreducedKeeps ==
  ASSUME PolyInv, NEW r \in Regs, NEW p, Shaped(p), HoldUnreduced(r, p)
  PROVE  PolyInv'
<1>1. reg' = [reg EXCEPT ![r] = p] /\ unreduced' = unreduced \cup {r}
  BY DEF HoldUnreduced
<1>2. /\ reg' = [s \in Regs |-> reg'[s]] /\ reg'[r] = p
      /\ \A s \in Regs : s # r => reg'[s] = reg[s]
  BY <1>1 DEF PolyInv
<1>3. ASSUME NEW s \in Regs
      PROVE  Shaped(reg'[s]) /\ (s \notin unreduced' => Held(reg'[s]))
  <2>1. CASE s = r
    BY <1>1, <1>2, <2>1
  <2>2. CASE s # r
    BY <1>1, <1>2, <2>2 DEF PolyInv
  <2>3. QED
    BY <2>1, <2>2
<1>4. QED
  BY <1>2, <1>3 DEF PolyInv, Shaped, Held, ModulusAt, Places

\* The registers are loaded with polynomials of the chain.
LEMMA InitKeeps ==
  ASSUME ChainAssumption, PolyInputs, PolyInit
  PROVE  PolyInv
<1>1. \A r \in Regs : Held(reg[r])
  BY LoadsHeld DEF PolyInit
<1>2. QED
  BY <1>1, HeldShaped DEF PolyInit, PolyInv

\* A record that fits the ring is a polynomial of the chain, and holds reduced words if it
\* came with such words.
LEMMA FitsHeld ==
  ASSUME ChainAssumption, PolyInputs, NEW w \in Wires, Fits(w)
  PROVE  Shaped(w) /\ (Canonical(w) => Held(w))
<1>1. IsRecord(w)
  BY DEF PolyInputs
<1>2. Decodes(w) /\ w.moduli = Chain /\ w.dim = N
  BY DEF Fits
<1>3. [w EXCEPT !.ntt = FALSE] # EmptyPoly
  <2>1. Chain # <<>>
    BY ChainFacts
  <2>2. [w EXCEPT !.ntt = FALSE].moduli = Chain
    <3>1. PICK d, ms, v, m, f, c :
            w = [dim |-> d, moduli |-> ms, inv |-> v, q |-> m, ntt |-> f, coeffs |-> c]
      BY <1>1 DEF IsRecord
    <3>2. QED
      BY <1>2, <3>1
  <2>3. EmptyPoly.moduli = <<>>
    BY DEF EmptyPoly
  <2>4. QED
    BY <2>1, <2>2, <2>3
<1>4. /\ DOMAIN w.coeffs = Places /\ w.q = CrtModulus(Chain)
      /\ w.inv = IF Len(Chain) = 2 THEN TryModInverse(Chain[1], Chain[2]) ELSE 0
  BY <1>2, <1>3 DEF Decodes, Range2, Places
<1>5. Shaped(w)
  BY <1>1, <1>2, <1>4 DEF Shaped
<1>6. Canonical(w) => \A i \in Places : w.coeffs[i] \in 0 .. ModulusAt(i) - 1
  BY <1>4 DEF Canonical, ModulusAt
<1>7. QED
  BY <1>5, <1>6, HeldShaped

\* Loading, sampling and decoding.
LEMMA LoadingKeeps ==
  ASSUME ChainAssumption, PolyInputs, PolyInv, NEW r \in Regs,
         LoadPoly(r) \/ LoadStripes(r) \/ LoadVectors(r) \/ Decode(r)
  PROVE  PolyInv'
<1>1. CASE LoadPoly(r)
  BY <1>1, LoadsHeld, OperationKeeps DEF LoadPoly
<1>2. CASE LoadStripes(r)
  <2>1. PICK g \in Given :
          Make("load", r, r, Reduced(g), FromCrtCoeffs([i \in Range2(N, Len(Chain)) |-> g[i % N]], Chain))
    BY <1>2 DEF LoadStripes
  <2>2. PICK p : p = FromCrtCoeffs([i \in Range2(N, Len(Chain)) |-> g[i % N]], Chain) /\ Held(p)
    BY LoadsHeld
  <2>3. QED
    BY <2>1, <2>2, OperationKeeps
<1>3. CASE LoadVectors(r)
  BY <1>3, LoadsHeld, OperationKeeps DEF LoadVectors
<1>4. CASE Decode(r)
  <2>1. PICK w \in Wires :
          \/ Fits(w) /\ Canonical(w) /\ \E e : Make("load", r, r, e, w)
          \/ Fits(w) /\ HoldUnreduced(r, w)
          \/ Refuse(r)
    BY <1>4 DEF Decode
  <2>2. CASE Fits(w) /\ Canonical(w) /\ \E e : Make("load", r, r, e, w)
    <3>1. Held(w)
      BY <2>2, FitsHeld
    <3>2. PICK e : Make("load", r, r, e, w)
      BY <2>2
    <3>3. QED
      BY ONLY <3>1, <3>2, PolyInv, r \in Regs, OperationKeeps
  <2>3. CASE Fits(w) /\ HoldUnreduced(r, w)
    BY <2>3, FitsHeld, UnreducedKeeps
  <2>4. CASE Refuse(r)
    BY ONLY <2>4, PolyInv, r \in Regs, OperationKeeps
  <2>5. QED
    BY <2>1, <2>2, <2>3, <2>4
<1>5. QED
  BY <1>1, <1>2, <1>3, <1>4

\* What arithmetic leaves of words past their modulus.
LEMMA LeftoverKeeps ==
  ASSUME PolyInputs, PolyInv, NEW r \in Regs, ComputeUnreduced(r)
  PROVE  PolyInv'
<1>1. CASE Refuse(r)
  BY ONLY <1>1, PolyInv, r \in Regs, OperationKeeps
<1>2. CASE \E words \in Leftover, ntt \in BOOLEAN :
             HoldUnreduced(r, [reg[r] EXCEPT !.coeffs = words, !.ntt = ntt])
  <2>1. PICK words \in Leftover, ntt \in BOOLEAN :
          HoldUnreduced(r, [reg[r] EXCEPT !.coeffs = words, !.ntt = ntt])
    BY <1>2
  <2>2. DOMAIN words = Places
    BY DEF PolyInputs, Range2, Places
  <2>3. Shaped([reg[r] EXCEPT !.coeffs = words, !.ntt = ntt])
    BY <2>2, ShapedWith DEF PolyInv
  <2>4. QED
    BY <2>1, <2>3, UnreducedKeeps
<1>3. QED
  BY <1>1, <1>2 DEF ComputeUnreduced

\* The operations on one register.
LEMMA UnaryKeeps ==
  ASSUME ChainAssumption, PolyInputs, PolyInv, NEW r \in Regs \ unreduced,
         \/ Convert(r) \/ NegatePoly(r) \/ ScalePoly(r) \/ Set(r)
         \/ Read(r) \/ Norm(r) \/ ReadRefused(r)
  PROVE  PolyInv'
<1>1. Held(reg[r])
  BY DEF PolyInv
<1>2. \A k \in Scalars : k \in Nat
  BY WordFacts DEF PolyInputs
<1>3. CASE Convert(r)
  BY <1>1, <1>3, ConversionsHeld, OperationKeeps DEF Convert
<1>4. CASE NegatePoly(r)
  BY <1>1, <1>4, WordWiseHeld, OperationKeeps DEF NegatePoly
<1>5. CASE ScalePoly(r)
  BY <1>1, <1>2, <1>5, ScalarsHeld, OperationKeeps DEF ScalePoly
<1>6. CASE Set(r)
  <2>1. PICK i \in Idx, k \in Scalars :
          \E e : Asserting(~reg[r].ntt, "set", r, r, e, SetCoeff(reg[r], i, k))
    BY <1>6 DEF Set
  <2>2. PICK e : Asserting(~reg[r].ntt, "set", r, r, e, SetCoeff(reg[r], i, k))
    BY <2>1
  <2>3. Held(SetCoeff(reg[r], i, k))
    BY <1>1, <1>2, ScalarsHeld
  <2>4. QED
    BY <2>2, <2>3, OperationKeeps
<1>7. CASE Read(r)
  BY <1>1, <1>7, OperationKeeps DEF Read
<1>8. CASE Norm(r)
  BY <1>1, <1>8, OperationKeeps DEF Norm
<1>9. CASE ReadRefused(r)
  BY <1>9, OperationKeeps DEF ReadRefused
<1>10. QED
  BY <1>3, <1>4, <1>5, <1>6, <1>7, <1>8, <1>9

\* The operations on two registers or three.
LEMMA BinaryKeeps ==
  ASSUME ChainAssumption, PolyInv, NEW r \in Regs \ unreduced, NEW s \in Regs \ unreduced,
         NEW t \in Regs \ unreduced,
         \/ AddPolys(r, s) \/ SubtractPolys(r, s) \/ AddInNtt(r, s)
         \/ MultiplyPolys(r, s) \/ MultiplyInNtt(r, s)
         \/ AccumulateProduct(r, s, t) \/ AccumulateThreeProducts(r, s, t)
  PROVE  PolyInv'
<1>1. Held(reg[r]) /\ Held(reg[s]) /\ Held(reg[t])
  BY DEF PolyInv
<1>2. /\ Held(PolyAdd(reg[r], reg[s])) /\ Held(PolySub(reg[r], reg[s]))
      /\ Held(MulNttDomain(reg[r], reg[s])) /\ Held(MulNtt(reg[r], reg[s]))
      /\ Held(MulAccNttDomain(reg[r], reg[s], reg[t])) /\ Held(MulAcc3NttDomain(reg[r], reg[s], reg[t]))
  BY <1>1, WordWiseHeld, MulNttHeld, MulAccHeld
<1>3. CASE AddPolys(r, s)
  BY <1>2, <1>3, OperationKeeps DEF AddPolys
<1>4. CASE SubtractPolys(r, s)
  BY <1>2, <1>4, OperationKeeps DEF SubtractPolys
<1>5. CASE AddInNtt(r, s)
  BY <1>2, <1>5, OperationKeeps DEF AddInNtt
<1>6. CASE MultiplyPolys(r, s)
  BY <1>2, <1>6, OperationKeeps DEF MultiplyPolys
<1>7. CASE MultiplyInNtt(r, s)
  BY <1>2, <1>7, OperationKeeps DEF MultiplyInNtt
<1>8. CASE AccumulateProduct(r, s, t)
  BY <1>2, <1>8, OperationKeeps DEF AccumulateProduct
<1>9. CASE AccumulateThreeProducts(r, s, t)
  BY <1>2, <1>9, OperationKeeps DEF AccumulateThreeProducts
<1>10. QED
  BY <1>3, <1>4, <1>5, <1>6, <1>7, <1>8, <1>9

\* Every step keeps the invariant.
LEMMA StepKeeps ==
  ASSUME ChainAssumption, PolyInputs, PolyInv, [PolyNext]_polyVars
  PROVE  PolyInv'
<1>1. CASE UNCHANGED polyVars
  BY <1>1, InvStays DEF polyVars
<1>2. CASE Operation
  BY <1>2, LoadingKeeps, LeftoverKeeps, UnaryKeeps, BinaryKeeps DEF Operation
<1>3. QED
  BY <1>1, <1>2 DEF PolyNext, Stop

\* A polynomial of the chain is one of its own moduli.
LEMMA HeldRepresents ==
  ASSUME ChainAssumption, PolyInv
  PROVE  Representation
<1>1. ASSUME NEW r \in Regs, NEW p, p = reg[r]
      PROVE  /\ DOMAIN p.coeffs = 0 .. p.dim * Len(p.moduli) - 1
             /\ r \notin unreduced =>
                  \A i \in DOMAIN p.coeffs : p.coeffs[i] \in 0 .. p.moduli[i \div p.dim + 1] - 1
             /\ \A m, n \in Limbs(p) : m # n => p.q = p.moduli[m] * p.moduli[n]
                                                /\ (p.moduli[1] * p.inv) % p.moduli[2] = 1
             /\ Limbs(p) = {1} => p.q = p.moduli[1]
  <2>1. Shaped(p) /\ (r \notin unreduced => Held(p))
    BY <1>1 DEF PolyInv
  <2>2. p.dim = N /\ p.moduli = Chain /\ Limbs(p) = 1 .. Len(Chain) /\ Len(Chain) \in 1 .. 2
    BY <2>1, ChainFacts DEF Shaped, Limbs
  <2>3. p.q = IF Len(Chain) = 1 THEN Chain[1] ELSE Chain[1] * Chain[2]
    <3>1. Chain \in Seq(Words) /\ (Len(Chain) = 2 => Chain[1] * Chain[2] < Word)
      BY ChainFacts DEF ChainAssumption
    <3>2. QED
      BY <2>1, <2>2, <3>1, CrtModulusIsProduct DEF Shaped
  <2>4. DOMAIN p.coeffs = 0 .. p.dim * Len(p.moduli) - 1
    BY <2>1, <2>2 DEF Shaped, Places
  <2>5. r \notin unreduced =>
          \A i \in DOMAIN p.coeffs : p.coeffs[i] \in 0 .. p.moduli[i \div p.dim + 1] - 1
    BY <2>1, <2>2 DEF Held, ModulusAt
  <2>6. ASSUME NEW m \in Limbs(p), NEW n \in Limbs(p), m # n
        PROVE  p.q = p.moduli[m] * p.moduli[n] /\ (p.moduli[1] * p.inv) % p.moduli[2] = 1
    <3>1. Len(Chain) = 2 /\ ((m = 1 /\ n = 2) \/ (m = 2 /\ n = 1))
      <4>1. PICK l \in 1 .. 2 : l = Len(Chain) /\ m \in 1 .. l /\ n \in 1 .. l
        BY <2>2
      <4>2. l = 2 /\ ((m = 1 /\ n = 2) \/ (m = 2 /\ n = 1))
        BY ONLY <2>6, <4>1, l \in 1 .. 2
      <4>3. QED
        BY <4>1, <4>2
    <3>2. PICK a \in Nat, b \in Nat : a = Chain[1] /\ b = Chain[2] /\ b >= 2
      BY <3>1, ChainFacts
    <3>3. a * b = b * a
      OBVIOUS
    <3>4. p.inv = TryModInverse(a, b) /\ TryModInverse(a, b) # NoInverse
      BY <2>1, <3>1, <3>2 DEF Shaped, ChainAssumption, ModuliAccepted
    <3>5. (a * p.inv) % b = 1
      BY <3>2, <3>4, TryModInverseInverts
    <3>6. QED
      BY <2>2, <2>3, <3>1, <3>2, <3>3, <3>5
  <2>7. Limbs(p) = {1} => p.q = p.moduli[1]
    <3>1. Limbs(p) = {1} => Len(Chain) # 2
      BY <2>2
    <3>2. QED
      BY <2>2, <2>3, <3>1
  <2>8. QED
    BY <2>4, <2>5, <2>6, <2>7
<1>2. QED
  BY <1>1 DEF Representation

\* The records that are let in compose what they split.
LEMMA WiresCompose ==
  ASSUME PolyInputs
  PROVE  DecodedComposes
BY LetInComposes DEF DecodedComposes, PolyInputs

\* RegistersSound: whatever operations follow each other, in whichever domains, and whatever
\* words decoded records hold, every register has a word for each coefficient and modulus
\* and the remaindering of its moduli; every word is below the modulus of its stripe in
\* every register that no unreduced record went into since it was last loaded; and
\* TryFrom<PolyWire> lets in only records whose two moduli compose, for every dimension,
\* every pair of moduli with a product of one word, and every record.
THEOREM RegistersAlwaysSound ==
  ASSUME ChainAssumption, PolyInputs
  PROVE  PolySpec => []RegistersSound
<1>1. PolyInit => PolyInv
  BY InitKeeps
<1>2. PolyInv /\ [PolyNext]_polyVars => PolyInv'
  BY StepKeeps
<1>3. PolyInv => RegistersSound
  BY HeldRepresents, WiresCompose DEF RegistersSound
<1>4. QED
  BY <1>1, <1>2, <1>3, PTL DEF PolySpec
-----------------------------------------------------------------------------
(* The transform reaches every array of reduced words                      *)

\* Words that hold the values of a reduced polynomial are transformed back to it.
LEMMA InverseRecovers ==
  ASSUME NEW q \in NttModuli, NEW c \in Arrays(q), NEW a \in Arrays(q),
         ForwardHolds("classical", c, N, a, q)
  PROVE  Inverse(c, q) = a
<1>1. N \in Nat /\ N >= 2
  BY Dimension
<1>2. ASSUME NEW x \in N .. 2 * N - 1
      PROVE  BlockHolds("classical", c, x, a, Length(x), q)
  <2>1. Length(x) = 1
    BY LeafLevel
  <2>2. BlockHolds("classical", c, x, a, 1, q)
    BY DEF ForwardHolds
  <2>3. QED
    BY <2>1, <2>2
<1>3. InverseHolds("classical", c, N, a, q)
  BY <1>2 DEF InverseHolds
<1>4. QED
  BY <1>3, InverseRestores

\* The transform takes the arrays of reduced words onto themselves: it is inverted, and they
\* are finitely many.
LEMMA TransformsCover ==
  ASSUME NEW q \in NttModuli, NEW c \in Arrays(q)
  PROVE  \E a \in Arrays(q) : ForwardHolds("classical", c, N, a, q)
<1> DEFINE S == Arrays(q)
           T == [a \in S |-> Forward(a, q)]
<1>1. q \in Nat /\ q >= 3 /\ 4 * q <= Word /\ Word \in Nat /\ N \in Nat
  BY RootModulus, ModulusFacts, Dimension
<1>2. ASSUME NEW a \in S
      PROVE  /\ Forward(a, q) \in S /\ ForwardHolds("classical", Forward(a, q), N, a, q)
             /\ Inverse(Forward(a, q), q) = a
  <2>1. \A j \in Idx : a[j] \in 0 .. q - 1
    BY DEF Arrays
  <2>2. \A j \in Idx : a[j] \in Words
    BY <1>1, <2>1 DEF Words
  <2>3. Forward(a, q) \in Arrays(q) /\ ForwardHolds("classical", Forward(a, q), N, a, q)
    BY <2>2, ForwardLeaves
  <2>4. QED
    BY <2>3, InverseRecovers
<1>3. Sets!IsFiniteSet(S)
  <2>1. Sets!IsFiniteSet(0 .. N - 1) /\ Sets!IsFiniteSet(0 .. q - 1)
    BY <1>1, Sets!FS_Interval
  <2>2. QED
    BY <2>1, FiniteArrays DEF Arrays, Idx
<1>4. T \in Sets!Injection(S, S)
  <2>1. T \in [S -> S]
    BY <1>2
  <2>2. ASSUME NEW a \in S, NEW b \in S, T[a] = T[b]
        PROVE  a = b
    <3>1. Forward(a, q) = Forward(b, q)
      BY <2>2
    <3>2. QED
      BY <1>2, <3>1
  <2> HIDE DEF T, S
  <2>3. QED
    BY <2>1, <2>2 DEF Sets!Injection, Sets!IsInjective
<1>5. T \in Sets!Surjection(S, S)
  <2> HIDE DEF T, S
  <2>1. QED
    BY <1>3, <1>4, Sets!FS_Injection
<1>6. PICK a \in S : T[a] = c
  <2> HIDE DEF T
  <2>1. QED
    BY <1>5 DEF Sets!Surjection
<1>7. QED
  BY <1>2, <1>6
-----------------------------------------------------------------------------
(* What a word should be                                                   *)

\* The value of a combination is the combination of the values.
LEMMA EvaluationCombined ==
  ASSUME NEW q \in Nat, NEW c \in Nat, NEW x \in Int,
         NEW e, \A i \in Idx : e[i] \in Nat, NEW a, \A i \in Idx : a[i] \in Nat,
         NEW b, \A i \in Idx : b[i] \in Nat,
         \A i \in Idx : Same(e[i], a[i] + x * b[i], q)
  PROVE  /\ Evaluation(e, c) \in Int /\ Evaluation(a, c) \in Int /\ Evaluation(b, c) \in Int
         /\ Same(Evaluation(e, c), Evaluation(a, c) + x * Evaluation(b, c), q)
<1>1. N \in Nat /\ Idx = 0 .. N - 1 /\ N \in 0 .. N
  BY Dimension DEF Idx
<1>2. PICK h, f, g : /\ h = [i \in Idx |-> e[i] * PowerOf(c, i)]
                     /\ f = [i \in Idx |-> a[i] * PowerOf(c, i)]
                     /\ g = [i \in Idx |-> b[i] * PowerOf(c, i)]
  OBVIOUS
<1>3. ASSUME NEW i \in 0 .. N - 1
      PROVE  /\ h[i] \in Int /\ f[i] \in Int /\ g[i] \in Int
             /\ Same(h[i], f[i] + x * g[i], q)
  <2>1. i \in Idx /\ i \in Nat
    BY <1>1
  <2>2. PICK p \in Nat, u \in Nat, v \in Nat, w \in Nat :
          p = PowerOf(c, i) /\ u = e[i] /\ v = a[i] /\ w = b[i]
    BY <2>1, PowerOfStep
  <2>3. h[i] = u * p /\ f[i] = v * p /\ g[i] = w * p
    BY <1>2, <2>1, <2>2
  <2>4. PICK y \in Int : y = v + x * w
    OBVIOUS
  <2>5. Same(u, y, q)
    BY <2>1, <2>2, <2>4
  <2>6. Same(p, p, q)
    BY SameReflexive
  <2>7. Same(u * p, y * p, q)
    BY ONLY <2>5, <2>6, q \in Nat, u \in Nat, y \in Int, p \in Nat, u \in Int, p \in Int, SameProduct
  <2>8. y * p = v * p + x * (w * p)
    BY ONLY <2>4, v \in Nat, w \in Nat, x \in Int, p \in Nat
  <2>9. u * p \in Int /\ v * p \in Int /\ w * p \in Int
    OBVIOUS
  <2>10. QED
    BY <2>3, <2>7, <2>8, <2>9
<1>4. Terms(h, N) /\ Terms(f, N) /\ Terms(g, N)
  BY <1>3 DEF Terms
<1>5. Same(SumTo(h, N), SumTo(f, N) + x * SumTo(g, N), q)
  BY ONLY <1>1, <1>3, <1>4, q \in Nat, x \in Int, SumCombined
<1>6. SumTo(h, N) \in Int /\ SumTo(f, N) \in Int /\ SumTo(g, N) \in Int
  BY <1>1, <1>4, SumLaw
<1>7. QED
  BY <1>2, <1>5, <1>6 DEF Evaluation

\* The form of a polynomial's words: those of evaluations are in Montgomery form.
Form(f) == IF f THEN "classical" ELSE "shoup"

\* What word j of a stripe of the element e means: a value of e, or a coefficient.
Wanted(e, j, f, q) == IF f THEN Remainder(e, 0, N + j, q) ELSE e[j]

\* What the words of a combination mean is the combination of what those of its parts do.
LEMMA WantedCombined ==
  ASSUME NEW q \in NttModuli, NEW x \in Int,
         NEW e, \A i \in Idx : e[i] \in Nat, NEW a, \A i \in Idx : a[i] \in Nat,
         NEW b, \A i \in Idx : b[i] \in Nat,
         \A i \in Idx : Same(e[i], a[i] + x * b[i], q), NEW j \in Idx, NEW f
  PROVE  /\ Wanted(e, j, f, q) \in Int /\ Wanted(a, j, f, q) \in Int /\ Wanted(b, j, f, q) \in Int
         /\ Same(Wanted(e, j, f, q), Wanted(a, j, f, q) + x * Wanted(b, j, f, q), q)
<1>1. q \in Nat /\ q \in Nat \ {0} /\ N \in Nat /\ Idx = 0 .. N - 1
  BY RootModulus, ModulusFacts, Dimension DEF Idx
<1>2. CASE ~f
  <2>1. e[j] \in Int /\ a[j] \in Int /\ b[j] \in Int
    BY <1>1
  <2>2. QED
    BY <1>2, <2>1 DEF Wanted
<1>3. CASE f
  <2>1. PICK k \in N .. 2 * N - 1 : k = N + j
    BY <1>1
  <2>2. PICK c \in Nat : c = Constant(k, q)
    <3>1. k \in 1 .. 2 * N - 1
      BY LeafLevel
    <3>2. Constant(k, q) \in 0 .. q - 1
      BY <3>1, ConstantFacts
    <3>3. QED
      BY <1>1, <3>2
  <2>3. PICK r \in Int, s \in Int, t \in Int, u \in Int, v \in Int, w \in Int :
          /\ r = Remainder(e, 0, k, q) /\ s = Remainder(a, 0, k, q) /\ t = Remainder(b, 0, k, q)
          /\ u = Evaluation(e, c) /\ v = Evaluation(a, c) /\ w = Evaluation(b, c)
          /\ Same(r, u, q) /\ Same(s, v, q) /\ Same(t, w, q)
    <3>1. \A y \in 0 .. q - 1 : y \in Int
      BY <1>1
    <3>2. /\ Remainder(e, 0, k, q) \in 0 .. q - 1 /\ Same(Remainder(e, 0, k, q), Evaluation(e, c), q)
          /\ Evaluation(e, c) \in Int
      BY <2>2, LeafEvaluates
    <3>3. /\ Remainder(a, 0, k, q) \in 0 .. q - 1 /\ Same(Remainder(a, 0, k, q), Evaluation(a, c), q)
          /\ Evaluation(a, c) \in Int
      BY <2>2, LeafEvaluates
    <3>4. /\ Remainder(b, 0, k, q) \in 0 .. q - 1 /\ Same(Remainder(b, 0, k, q), Evaluation(b, c), q)
          /\ Evaluation(b, c) \in Int
      BY <2>2, LeafEvaluates
    <3>5. QED
      BY <3>1, <3>2, <3>3, <3>4
  <2>4. Same(u, v + x * w, q)
    BY <1>1, <2>3, EvaluationCombined
  <2>5. PICK y \in Int, z \in Int, p \in Int, l \in Int :
          y = x * w /\ z = x * t /\ p = v + y /\ l = s + z
    OBVIOUS
  <2>6. Same(w, t, q) /\ Same(v, s, q) /\ Same(x, x, q)
    BY ONLY <1>1, <2>3, t \in Int, w \in Int, v \in Int, s \in Int, x \in Int, SameSymmetric, SameReflexive
  <2>7. Same(y, z, q)
    BY ONLY <1>1, <2>5, <2>6, x \in Int, w \in Int, t \in Int, SameProduct
  <2>8. Same(p, l, q)
    BY ONLY <1>1, <2>5, <2>6, <2>7, v \in Int, s \in Int, y \in Int, z \in Int, SameSum
  <2>9. Same(r, p, q)
    <3>1. Same(u, p, q)
      BY <2>4, <2>5
    <3>2. QED
      BY ONLY <1>1, <2>3, <3>1, r \in Int, u \in Int, p \in Int, SameTransitive
  <2>10. Same(r, l, q)
    BY ONLY <1>1, <2>8, <2>9, r \in Int, l \in Int, p \in Int, SameTransitive
  <2>11. Wanted(e, j, f, q) = r /\ Wanted(a, j, f, q) = s /\ Wanted(b, j, f, q) = t
    BY <1>3, <2>1, <2>3 DEF Wanted
  <2>12. QED
    BY <2>5, <2>10, <2>11
<1>4. QED
  BY <1>2, <1>3

\* Congruent elements have words of one meaning.
LEMMA WantedSame ==
  ASSUME NEW q \in NttModuli, NEW e, \A i \in Idx : e[i] \in Nat,
         NEW a, \A i \in Idx : a[i] \in Nat,
         \A i \in Idx : Same(e[i], a[i], q), NEW j \in Idx, NEW f
  PROVE  /\ Wanted(e, j, f, q) \in Int /\ Wanted(a, j, f, q) \in Int
         /\ Same(Wanted(e, j, f, q), Wanted(a, j, f, q), q)
<1>1. ASSUME NEW i \in Idx
      PROVE  Same(e[i], a[i] + 0 * a[i], q)
  <2>1. PICK y \in Nat : y = a[i]
    OBVIOUS
  <2>2. y + 0 * y = y
    OBVIOUS
  <2>3. QED
    BY <2>1, <2>2
<1>2. /\ Wanted(e, j, f, q) \in Int /\ Wanted(a, j, f, q) \in Int
      /\ Same(Wanted(e, j, f, q), Wanted(a, j, f, q) + 0 * Wanted(a, j, f, q), q)
  <2>1. 0 \in Int
    OBVIOUS
  <2>2. QED
    BY <1>1, <2>1, WantedCombined
<1>3. PICK y \in Int : y = Wanted(a, j, f, q)
  BY <1>2
<1>4. y + 0 * y = y
  OBVIOUS
<1>5. QED
  BY <1>2, <1>3, <1>4

\* And so the words of a multiple mean the multiple.
LEMMA WantedScaled ==
  ASSUME NEW q \in NttModuli, NEW x \in Int,
         NEW e, \A i \in Idx : e[i] \in Nat, NEW a, \A i \in Idx : a[i] \in Nat,
         \A i \in Idx : Same(e[i], x * a[i], q), NEW j \in Idx, NEW f
  PROVE  /\ Wanted(e, j, f, q) \in Int /\ Wanted(a, j, f, q) \in Int
         /\ Same(Wanted(e, j, f, q), x * Wanted(a, j, f, q), q)
<1>1. PICK x1 \in Int : x1 = x - 1
  OBVIOUS
<1>2. ASSUME NEW i \in Idx
      PROVE  Same(e[i], a[i] + x1 * a[i], q)
  <2>1. PICK y \in Nat : y = a[i]
    OBVIOUS
  <2>2. y + x1 * y = x * y
    BY ONLY <1>1, y \in Nat, x \in Int, x1 \in Int
  <2>3. QED
    BY <2>1, <2>2
<1>3. /\ Wanted(e, j, f, q) \in Int /\ Wanted(a, j, f, q) \in Int
      /\ Same(Wanted(e, j, f, q), Wanted(a, j, f, q) + x1 * Wanted(a, j, f, q), q)
  BY <1>2, WantedCombined
<1>4. PICK y \in Int : y = Wanted(a, j, f, q)
  BY <1>3
<1>5. y + x1 * y = x * y
  BY ONLY <1>1, y \in Int, x \in Int, x1 \in Int
<1>6. QED
  BY <1>3, <1>4, <1>5

\* The modulus of the ring is a multiple of every modulus of the chain.
LEMMA RingModulus ==
  ASSUME ChainAssumption
  PROVE  /\ CrtModulus(Chain) \in Nat \ {0} /\ CrtModulus(Chain) >= 3
         /\ \A m \in 1 .. Len(Chain) : \E h \in Nat : CrtModulus(Chain) = Chain[m] * h
         /\ Len(Chain) = 1 => CrtModulus(Chain) = Chain[1]
         /\ Len(Chain) = 2 => CrtModulus(Chain) = Chain[1] * Chain[2]
<1>1. CrtModulus(Chain) = IF Len(Chain) = 1 THEN Chain[1] ELSE Chain[1] * Chain[2]
  BY ChainFacts, CrtModulusIsProduct DEF ChainAssumption
<1>2. CASE Len(Chain) = 1
  <2>1. PICK p \in Nat : p = Chain[1] /\ p >= 3
    BY <1>2, ChainFacts
  <2>2. p = p * 1
    OBVIOUS
  <2>3. \A m \in 1 .. Len(Chain) : Chain[m] = p
    BY <1>2, <2>1
  <2>4. QED
    BY <1>1, <1>2, <2>1, <2>2, <2>3
<1>3. CASE Len(Chain) = 2
  <2>1. PICK p \in Nat, q \in Nat : p = Chain[1] /\ p >= 3 /\ q = Chain[2] /\ q >= 3
    BY <1>3, ChainFacts
  <2>2. p * q = q * p /\ p * q \in Nat
    OBVIOUS
  <2>3. p * q >= 3
    <3>1. PICK t \in Nat : q = 1 + t
      <4>1. q - 1 \in Nat /\ q = 1 + (q - 1)
        BY <2>1
      <4>2. QED
        BY <4>1
    <3>2. p * q = p + p * t /\ p * t \in Nat
      BY ONLY <3>1, p \in Nat, t \in Nat
    <3>3. QED
      BY ONLY <2>1, <3>2, p \in Nat
  <2>4. \A m \in 1 .. Len(Chain) : Chain[m] = p \/ Chain[m] = q
    BY <1>3, <2>1
  <2>5. CrtModulus(Chain) = p * q
    BY <1>1, <1>3, <2>1
  <2>6. \A m \in 1 .. Len(Chain) : \E h \in Nat : p * q = Chain[m] * h
    BY <2>2, <2>4
  <2>7. QED
    BY <1>3, <2>1, <2>2, <2>3, <2>5, <2>6
<1>4. Len(Chain) = 1 \/ Len(Chain) = 2
  <2>1. PICK l \in 1 .. 2 : l = Len(Chain)
    BY ChainFacts
  <2>2. QED
    BY <2>1
<1>5. QED
  BY ONLY <1>2, <1>3, <1>4

\* Numbers that are congruent in the ring are congruent in every stripe.
LEMMA SameInStripe ==
  ASSUME ChainAssumption, NEW x \in Int, NEW y \in Int, Same(x, y, CrtModulus(Chain)),
         NEW m \in 1 .. Len(Chain)
  PROVE  Same(x, y, Chain[m])
<1>1. PICK p \in Nat, h \in Nat : p = Chain[m] /\ CrtModulus(Chain) = p * h
  BY ChainFacts, RingModulus
<1>2. PICK k \in Int : x = y + (p * h) * k
  BY <1>1 DEF Same
<1>3. x = y + p * (h * k) /\ h * k \in Int
  BY ONLY <1>2, p \in Nat, h \in Nat, k \in Int, y \in Int
<1>4. QED
  BY <1>1, <1>3 DEF Same

\* A product in the ring is the negacyclic product of every stripe.
LEMMA TimesSums ==
  ASSUME ChainAssumption, NEW a, \A i \in Idx : a[i] \in Nat, NEW b, \A i \in Idx : b[i] \in Nat,
         NEW i \in Idx
  PROVE  /\ PolyRing!Times(a, b)[i] \in 0 .. CrtModulus(Chain) - 1
         /\ \A m \in 1 .. Len(Chain) :
              Same(PolyRing!Times(a, b)[i], Negacyclic(a, b, i, Chain[m]), Chain[m])
<1>1. N \in Nat /\ N >= 2 /\ Idx = 0 .. N - 1 /\ PolyRing!Idx = Idx
  BY Dimension DEF Idx, PolyRing!Idx
<1>2. PICK Q \in Nat \ {0} : Q = CrtModulus(Chain)
  BY RingModulus
<1>3. PICK f : f = [j \in Idx |-> a[j] * Turned(b, j, i)]
  OBVIOUS
<1>4. ASSUME NEW j \in Idx
      PROVE  /\ f[j] \in Int
             /\ f[j] = IF j <= i THEN a[j] * b[i - j] ELSE -(a[j] * b[N + i - j])
  <2>1. CASE j <= i
    <3>1. i - j \in Idx
      BY <1>1, <2>1
    <3>2. PICK x \in Nat, y \in Nat : x = a[j] /\ y = b[i - j]
      BY <3>1
    <3>3. f[j] = x * y
      BY <1>3, <2>1, <3>2 DEF Turned
    <3>4. x * y \in Int
      OBVIOUS
    <3>5. QED
      BY <2>1, <3>2, <3>3, <3>4
  <2>2. CASE ~(j <= i)
    <3>1. N + i - j \in Idx
      BY <1>1, <2>2
    <3>2. PICK x \in Nat, y \in Nat : x = a[j] /\ y = b[N + i - j]
      BY <3>1
    <3>3. f[j] = x * (-y)
      BY <1>3, <2>2, <3>2 DEF Turned
    <3>4. x * (-y) \in Int /\ x * (-y) = -(x * y)
      OBVIOUS
    <3>5. QED
      BY <2>2, <3>2, <3>3, <3>4
  <2>3. QED
    BY <2>1, <2>2
<1>5. Terms(f, N)
  BY <1>1, <1>4 DEF Terms
<1> DEFINE F(g) == [k \in 0 .. N |->
                      IF k = 0 THEN 0
                      ELSE (g[k - 1] + (IF k - 1 <= i THEN a[k - 1] * b[i - (k - 1)]
                                        ELSE -(a[k - 1] * b[N + i - (k - 1)]))) % CrtModulus(Chain)]
           G == [k \in 0 .. N |-> [s \in Int |-> IF k = 0 THEN s ELSE (s + f[k - 1]) % Q]]
<1>6. ASSUME NEW k \in 0 .. N, k # 0
      PROVE  /\ k - 1 \in Idx /\ f[k - 1] \in Int
             /\ f[k - 1] = IF k - 1 <= i THEN a[k - 1] * b[i - (k - 1)]
                           ELSE -(a[k - 1] * b[N + i - (k - 1)])
  <2>1. k - 1 \in Idx
    BY <1>1, <1>6
  <2>2. QED
    BY <1>4, <2>1
<1>7. Recurs(Int, N, 0, G)
  <2>1. ASSUME NEW k \in 0 .. N, NEW s \in Int
        PROVE  (IF k = 0 THEN s ELSE (s + f[k - 1]) % Q) \in Int
    <3>1. CASE k # 0
      <4>1. PICK t \in Int : t = s + f[k - 1]
        BY <1>6, <3>1
      <4>2. t % Q \in Int
        BY ONLY Q \in Nat \ {0}, t \in Int
      <4>3. QED
        BY <3>1, <4>1, <4>2
    <3>2. QED
      BY <3>1
  <2>2. G \in [0 .. N -> [Int -> Int]]
    BY <2>1
  <2>3. N \in Nat /\ 0 \in Int
    BY <1>1
  <2> HIDE DEF G
  <2>4. QED
    BY ONLY <2>2, <2>3 DEF Recurs
<1>8. PICK y : Solves(y, Int, N, 0, G)
  <2> HIDE DEF G
  <2>1. QED
    BY ONLY <1>7, RecursionExists, Zenon
<1>9. /\ y = [k \in 0 .. N |-> y[k]] /\ y[0] = 0
      /\ \A k \in 0 .. N : k # 0 => y[k - 1] \in Int /\ y[k] = G[k][y[k - 1]]
  <2> HIDE DEF G
  <2>1. QED
    BY ONLY <1>7, <1>8, SolvedSteps
<1>10. y = F(y)
  <2>1. ASSUME NEW k \in 0 .. N, k # 0
        PROVE  y[k] = (y[k - 1] + (IF k - 1 <= i THEN a[k - 1] * b[i - (k - 1)]
                                   ELSE -(a[k - 1] * b[N + i - (k - 1)]))) % CrtModulus(Chain)
    <3>1. y[k] = (y[k - 1] + f[k - 1]) % Q
      BY <1>9, <2>1
    <3>2. QED
      BY <1>2, <1>6, <2>1, <3>1
  <2>2. QED
    BY <1>9, <2>1
<1>11. PICK z : z = F(z) /\ PolyRing!Times(a, b)[i] = z[N]
  <2>1. PolyRing!Times(a, b)[i] = (CHOOSE s : s = F(s))[N]
    BY <1>1, Zenon DEF PolyRing!Times, PolyRing!SumBelow
  <2> HIDE DEF F
  <2>2. QED
    BY ONLY <1>10, <2>1, Zenon
<1>12. z[0] = 0
  BY <1>1, <1>11
<1>13. ASSUME NEW k \in 0 .. N, k # 0
       PROVE  z[k] = (z[k - 1] + f[k - 1]) % Q
  <2>1. z[k] = (z[k - 1] + (IF k - 1 <= i THEN a[k - 1] * b[i - (k - 1)]
                            ELSE -(a[k - 1] * b[N + i - (k - 1)]))) % CrtModulus(Chain)
    BY <1>11, <1>13
  <2>2. QED
    BY <1>2, <1>6, <1>13, <2>1
<1>14. z[N] \in 0 .. Q - 1 /\ Same(z[N], SumTo(f, N), Q)
  BY <1>1, <1>5, <1>12, <1>13, ReducedSums
<1>15. ASSUME NEW m \in 1 .. Len(Chain)
       PROVE  Same(z[N], Negacyclic(a, b, i, Chain[m]), Chain[m])
  <2>1. PICK q \in Moduli : q = Chain[m] /\ q \in Nat
    BY ChainFacts
  <2>2. PICK x \in Int, s \in Int : x = z[N] /\ s = SumTo(f, N) /\ Same(x, s, q)
    <3>1. SumTo(f, N) \in Int
      BY <1>1, <1>5, SumLaw
    <3>2. QED
      BY <1>2, <1>14, <2>1, <3>1, SameInStripe
  <2>3. /\ Terms(ProductTerms(a, b, i, q), N)
        /\ \A j \in Idx : Same(ProductTerms(a, b, i, q)[j], a[j] * Turned(b, j, i), q)
        /\ Negacyclic(a, b, i, q) \in 0 .. q - 1
        /\ Same(Negacyclic(a, b, i, q), SumTo(ProductTerms(a, b, i, q), N), q)
    BY ProductSums
  <2>4. PICK t : t = ProductTerms(a, b, i, q) /\ Terms(t, N)
    BY <2>3
  <2>5. \A j \in 0 .. N - 1 : Same(t[j], f[j], q)
    BY <1>1, <1>3, <2>3, <2>4
  <2>6. Same(SumTo(t, N), SumTo(f, N), q)
    BY ONLY <1>1, <1>5, <2>1, <2>4, <2>5, SumSame
  <2>7. PICK u \in Int, v \in Int : u = SumTo(t, N) /\ v = Negacyclic(a, b, i, q)
    <3>1. SumTo(t, N) \in Int
      BY <1>1, <2>4, SumLaw
    <3>2. \A l \in 0 .. q - 1 : l \in Int
      BY <2>1
    <3>3. QED
      BY <2>3, <3>1, <3>2
  <2>8. Same(u, s, q) /\ Same(v, u, q)
    BY <2>2, <2>3, <2>4, <2>6, <2>7
  <2>9. Same(v, s, q)
    BY ONLY <2>1, <2>8, u \in Int, v \in Int, s \in Int, SameTransitive
  <2>10. Same(s, v, q)
    BY ONLY <2>1, <2>9, v \in Int, s \in Int, SameSymmetric
  <2>11. Same(x, v, q)
    BY ONLY <2>1, <2>2, <2>10, x \in Int, v \in Int, s \in Int, SameTransitive
  <2>12. QED
    BY <2>1, <2>2, <2>7, <2>11
<1>16. QED
  BY <1>2, <1>11, <1>14, <1>15

\* Both forms are kernels of the modulus.
LEMMA FormPath ==
  ASSUME NEW q, NEW f
  PROVE  Form(f) \in Paths(q)
BY DEF Form, Paths, Kernels

\* A word that means the combination means what the word of the combination should.
LEMMA MeansWanted ==
  ASSUME NEW q \in NttModuli, NEW x \in Int,
         NEW e, \A i \in Idx : e[i] \in Nat, NEW a, \A i \in Idx : a[i] \in Nat,
         NEW b, \A i \in Idx : b[i] \in Nat,
         \A i \in Idx : Same(e[i], a[i] + x * b[i], q), NEW j \in Idx, NEW f,
         NEW w, Means(Form(f), w, Wanted(a, j, f, q) + x * Wanted(b, j, f, q), q)
  PROVE  Means(Form(f), w, Wanted(e, j, f, q), q)
<1>1. q \in Moduli /\ q \in Nat
  BY RootModulus, ModulusFacts
<1>2. PICK u \in Int, v \in Int, z \in Int :
        u = Wanted(e, j, f, q) /\ v = Wanted(a, j, f, q) /\ z = Wanted(b, j, f, q)
        /\ Same(u, v + x * z, q)
  <2>1. /\ Wanted(e, j, f, q) \in Int /\ Wanted(a, j, f, q) \in Int /\ Wanted(b, j, f, q) \in Int
        /\ Same(Wanted(e, j, f, q), Wanted(a, j, f, q) + x * Wanted(b, j, f, q), q)
    BY WantedCombined
  <2>2. QED
    BY <2>1
<1>3. PICK y \in Int : y = v + x * z
  OBVIOUS
<1>4. Same(u, y, q) /\ Means(Form(f), w, y, q)
  BY <1>2, <1>3
<1>5. Same(y, u, q)
  BY ONLY <1>1, <1>4, u \in Int, y \in Int, SameSymmetric
<1>6. QED
  BY <1>1, <1>2, <1>4, <1>5, MeansSame

\* The same for a multiple.
LEMMA MeansMultiple ==
  ASSUME NEW q \in NttModuli, NEW x \in Int,
         NEW e, \A i \in Idx : e[i] \in Nat, NEW a, \A i \in Idx : a[i] \in Nat,
         \A i \in Idx : Same(e[i], x * a[i], q), NEW j \in Idx, NEW f,
         NEW w, Means(Form(f), w, x * Wanted(a, j, f, q), q)
  PROVE  Means(Form(f), w, Wanted(e, j, f, q), q)
<1>1. q \in Moduli /\ q \in Nat
  BY RootModulus, ModulusFacts
<1>2. PICK u \in Int, v \in Int :
        u = Wanted(e, j, f, q) /\ v = Wanted(a, j, f, q) /\ Same(u, x * v, q)
  BY WantedScaled
<1>3. PICK y \in Int : y = x * v
  OBVIOUS
<1>4. Same(u, y, q) /\ Means(Form(f), w, y, q)
  BY <1>2, <1>3
<1>5. Same(y, u, q)
  BY ONLY <1>1, <1>4, u \in Int, y \in Int, SameSymmetric
<1>6. QED
  BY <1>1, <1>2, <1>4, <1>5, MeansSame

\* A word means what it should of every congruent array.
LEMMA MeansCongruent ==
  ASSUME NEW q \in NttModuli, NEW e, \A i \in Idx : e[i] \in Nat,
         NEW a, \A i \in Idx : a[i] \in Nat,
         \A i \in Idx : Same(e[i], a[i], q), NEW j \in Idx, NEW f, NEW w,
         Means(Form(f), w, Wanted(e, j, f, q), q)
  PROVE  Means(Form(f), w, Wanted(a, j, f, q), q)
<1>1. q \in Moduli
  BY RootModulus
<1>2. /\ Wanted(e, j, f, q) \in Int /\ Wanted(a, j, f, q) \in Int
      /\ Same(Wanted(e, j, f, q), Wanted(a, j, f, q), q)
  BY WantedSame
<1>3. QED
  BY <1>1, <1>2, MeansSame

\* Evaluations of the negacyclic product are products.
LEMMA WantedProduct ==
  ASSUME NEW q \in NttModuli, NEW a, \A i \in Idx : a[i] \in Nat, NEW b, \A i \in Idx : b[i] \in Nat,
         NEW e, \A i \in Idx : e[i] \in Nat, \A i \in Idx : Same(e[i], Negacyclic(a, b, i, q), q),
         NEW j \in Idx, NEW f, f
  PROVE  /\ Wanted(e, j, f, q) \in Int /\ Wanted(a, j, f, q) \in Int /\ Wanted(b, j, f, q) \in Int
         /\ Same(Wanted(e, j, f, q), Wanted(a, j, f, q) * Wanted(b, j, f, q), q)
<1>1. q \in Moduli /\ q \in Nat /\ N \in Nat /\ Idx = 0 .. N - 1
  BY RootModulus, ModulusFacts, Dimension DEF Idx
<1>2. PICK p : p = [x \in Idx |-> Negacyclic(a, b, x, q)]
  OBVIOUS
<1>3. \A i \in Idx : p[i] \in Nat /\ Same(e[i], p[i], q)
  <2>1. ASSUME NEW i \in Idx
        PROVE  p[i] \in Nat
    <3>1. Negacyclic(a, b, i, q) \in 0 .. q - 1
      BY <1>1, ProductSums
    <3>2. QED
      BY <1>1, <1>2, <3>1
  <2>2. QED
    BY <1>2, <2>1
<1>4. PICK u \in Int, v \in Int :
        u = Wanted(e, j, f, q) /\ v = Wanted(p, j, f, q) /\ Same(u, v, q)
  BY <1>3, WantedSame
<1>5. PICK x \in Int, y \in Int : x = Wanted(a, j, f, q) /\ y = Wanted(b, j, f, q)
  <2>1. ASSUME NEW c, \A i \in Idx : c[i] \in Nat
        PROVE  Wanted(c, j, f, q) \in Int
    <3>1. \A i \in Idx : Same(c[i], c[i], q)
      BY <1>1, <2>1, SameReflexive
    <3>2. QED
      BY <2>1, <3>1, WantedSame
  <2>2. QED
    BY <2>1
<1>6. PICK z \in Int : z = x * y
  OBVIOUS
<1>7. Same(v, z, q)
  <2>1. N + j \in N .. 2 * N - 1
    BY <1>1
  <2>2. Same(Remainder(p, 0, N + j, q), Remainder(a, 0, N + j, q) * Remainder(b, 0, N + j, q), q)
    BY <1>2, <2>1, LeafMultiplies
  <2>3. QED
    BY <1>4, <1>5, <1>6, <2>2 DEF Wanted
<1>8. Same(u, z, q)
  BY ONLY <1>1, <1>4, <1>7, u \in Int, v \in Int, z \in Int, SameTransitive
<1>9. QED
  BY <1>4, <1>5, <1>6, <1>8
-----------------------------------------------------------------------------
(* What polynomials stand for                                              *)

\* The polynomial p stands for the element e: in the form of p's domain every word means
\* what it should of e.
Denotes(p, e) ==
  /\ e \in PolyRing!Elements
  /\ \A i \in Places :
       Means(Form(p.ntt), p.coeffs[i], Wanted(e, i % N, p.ntt, ModulusAt(i)), ModulusAt(i))

\* The elements of the ring.
LEMMA ElementWords ==
  ASSUME ChainAssumption
  PROVE  /\ PolyRing!Elements = [Idx -> 0 .. CrtModulus(Chain) - 1]
         /\ \A e \in PolyRing!Elements : /\ e = [i \in Idx |-> e[i]]
                                         /\ \A i \in Idx : e[i] \in Nat /\ e[i] \in 0 .. CrtModulus(Chain) - 1
<1>1. PolyRing!Elements = [Idx -> 0 .. CrtModulus(Chain) - 1]
  BY DEF PolyRing!Elements, PolyRing!Idx, PolyRing!Residue, Idx
<1>2. PICK q \in Nat : q = CrtModulus(Chain)
  BY RingModulus
<1>3. QED
  BY <1>1, <1>2

\* Numbers that are reduced in the ring make an element, congruent to them in every stripe.
LEMMA ReducedElement ==
  ASSUME ChainAssumption, NEW f, \A i \in Idx : f[i] \in Int,
         NEW e, e = [i \in Idx |-> f[i] % CrtModulus(Chain)]
  PROVE  /\ e \in PolyRing!Elements
         /\ \A i \in Idx, m \in 1 .. Len(Chain) : Same(e[i], f[i], Chain[m])
<1>1. PICK Q \in Nat \ {0} : Q = CrtModulus(Chain)
  BY RingModulus
<1>2. ASSUME NEW i \in Idx
      PROVE  /\ e[i] \in 0 .. Q - 1
             /\ \A m \in 1 .. Len(Chain) : Same(e[i], f[i], Chain[m])
  <2>1. PICK x \in Int : x = f[i]
    OBVIOUS
  <2>2. x % Q \in 0 .. Q - 1
    BY ONLY Q \in Nat \ {0}, x \in Int, DivMod
  <2>3. Same(x % Q, x, Q)
    BY SameMod
  <2>4. x % Q \in Int
    BY <2>2
  <2>5. \A m \in 1 .. Len(Chain) : Same(x % Q, x, Chain[m])
    BY <1>1, <2>3, <2>4, SameInStripe
  <2>6. e[i] = x % Q
    BY <1>1, <2>1
  <2>7. QED
    BY <2>1, <2>2, <2>5, <2>6
<1>3. e \in [Idx -> 0 .. Q - 1]
  BY <1>2
<1>4. QED
  BY <1>1, <1>2, <1>3, ElementWords

\* The stripe of a place, and the word's place in it.
LEMMA PlaceStripe ==
  ASSUME ChainAssumption, NEW i \in Places
  PROVE  \E q \in NttModuli, m \in 1 .. Len(Chain), j \in Idx :
           q \in Moduli /\ q = ModulusAt(i) /\ q = Chain[m] /\ j = i % N
BY PlaceFacts, PlaceModulus DEF ModulusAt

\* The fields of a polynomial with other words, and of one in another domain.
LEMMA FieldsWith ==
  ASSUME NEW p, Held(p), NEW c, NEW b
  PROVE  /\ [p EXCEPT !.coeffs = c].coeffs = c /\ [p EXCEPT !.coeffs = c].ntt = p.ntt
         /\ [p EXCEPT !.ntt = b].coeffs = p.coeffs /\ [p EXCEPT !.ntt = b].ntt = b
         /\ [p EXCEPT !.coeffs = c].moduli = p.moduli
<1>1. PICK d, ms, v, m, f, e :
        p = [dim |-> d, moduli |-> ms, inv |-> v, q |-> m, ntt |-> f, coeffs |-> e]
  BY DEF Held, IsRecord
<1>2. QED
  BY <1>1

\* A polynomial with other words stands for what they mean.
LEMMA DenotesWith ==
  ASSUME NEW p, Held(p), NEW c, NEW e, e \in PolyRing!Elements,
         \A i \in Places :
           Means(Form(p.ntt), c[i], Wanted(e, i % N, p.ntt, ModulusAt(i)), ModulusAt(i))
  PROVE  Denotes([p EXCEPT !.coeffs = c], e)
<1>1. PICK r : r = [p EXCEPT !.coeffs = c]
  OBVIOUS
<1>2. r.coeffs = c /\ r.ntt = p.ntt
  BY <1>1, FieldsWith
<1>3. Denotes(r, e)
  BY <1>2 DEF Denotes
<1>4. QED
  BY <1>1, <1>3

\* What a word of a polynomial means, at its place.
LEMMA DenotedWord ==
  ASSUME ChainAssumption, NEW p, Held(p), NEW e, Denotes(p, e), NEW i \in Places,
         NEW q \in NttModuli, q = ModulusAt(i), NEW j \in Idx, j = i % N, NEW f, f = p.ntt
  PROVE  /\ p.moduli[i \div N + 1] = q /\ Wanted(e, j, f, q) \in Int
         /\ Means(Form(f), p.coeffs[i], Wanted(e, j, f, q), q)
<1>1. Means(Form(f), p.coeffs[i], Wanted(e, j, f, q), q) /\ p.moduli[i \div N + 1] = q
  BY DEF Denotes, Held, ModulusAt
<1>2. q \in Nat
  BY RootModulus, ModulusFacts
<1>3. \A l \in Idx : e[l] \in Nat
  BY ElementWords DEF Denotes
<1>4. \A l \in Idx : Same(e[l], e[l], q)
  BY <1>2, <1>3, SameReflexive
<1>5. Wanted(e, j, f, q) \in Int
  BY <1>3, <1>4, WantedSame
<1>6. QED
  BY <1>1, <1>5

\* Add and Sub.
LEMMA SumsDenote ==
  ASSUME ChainAssumption, NEW p, Held(p), NEW r, Held(r), p.ntt = r.ntt,
         NEW a, Denotes(p, a), NEW b, Denotes(r, b)
  PROVE  /\ Denotes(PolyAdd(p, r), PolyRing!Plus(a, b))
         /\ Denotes(PolySub(p, r), PolyRing!Minus(a, b))
<1>1. DOMAIN p.coeffs = Places
  BY DEF Held
<1>2. a \in PolyRing!Elements /\ b \in PolyRing!Elements
  BY DEF Denotes
<1>3. (\A i \in Idx : a[i] \in Nat) /\ (\A i \in Idx : b[i] \in Nat)
  BY <1>2, ElementWords
<1>4. PICK f : f = p.ntt /\ f = r.ntt
  OBVIOUS
<1>5. ASSUME NEW i \in Places, NEW q \in NttModuli, q \in Moduli, q = ModulusAt(i),
             NEW j \in Idx, j = i % N
      PROVE  /\ p.moduli[i \div N + 1] = q
             /\ Wanted(a, j, f, q) \in Int /\ Wanted(b, j, f, q) \in Int
             /\ Means(Form(f), AddMod(p.coeffs[i], r.coeffs[i], q),
                      Wanted(a, j, f, q) + 1 * Wanted(b, j, f, q), q)
             /\ Means(Form(f), SubMod(p.coeffs[i], r.coeffs[i], q),
                      Wanted(a, j, f, q) + (-1) * Wanted(b, j, f, q), q)
  <2>1. p.moduli[i \div N + 1] = q
    BY <1>4, <1>5, DenotedWord
  <2>2. PICK x \in Int, y \in Int : /\ x = Wanted(a, j, f, q) /\ y = Wanted(b, j, f, q)
                                    /\ Means(Form(f), p.coeffs[i], x, q)
                                    /\ Means(Form(f), r.coeffs[i], y, q)
    BY <1>4, <1>5, DenotedWord
  <2>3. x + y = x + 1 * y /\ x - y = x + (-1) * y
    OBVIOUS
  <2>4. /\ Means(Form(f), AddMod(p.coeffs[i], r.coeffs[i], q), x + y, q)
        /\ Means(Form(f), SubMod(p.coeffs[i], r.coeffs[i], q), x - y, q)
    BY ONLY <1>5, <2>2, FormPath, MeansCombined, x \in Int, y \in Int
  <2>5. QED
    BY <2>1, <2>2, <2>3, <2>4
<1>6. Denotes(PolyAdd(p, r), PolyRing!Plus(a, b))
  <2> DEFINE c == [i \in DOMAIN p.coeffs |-> AddMod(p.coeffs[i], r.coeffs[i], p.moduli[i \div N + 1])]
  <2>1. PolyAdd(p, r) = [p EXCEPT !.coeffs = c]
    BY DEF WordWise, PolyAdd
  <2>2. \A i \in Places : c[i] = AddMod(p.coeffs[i], r.coeffs[i], p.moduli[i \div N + 1])
    BY <1>1
  <2> HIDE DEF c
  <2>3. PICK g : g = [i \in Idx |-> a[i] + b[i]]
    OBVIOUS
  <2>4. PICK e : e = PolyRing!Plus(a, b) /\ e = [i \in Idx |-> g[i] % CrtModulus(Chain)]
    BY <2>3 DEF PolyRing!Plus, PolyRing!Idx, Idx
  <2>5. \A i \in Idx : g[i] \in Int /\ g[i] = a[i] + 1 * b[i]
    BY <1>3, <2>3
  <2>6. /\ e \in PolyRing!Elements
        /\ \A i \in Idx, m \in 1 .. Len(Chain) : Same(e[i], a[i] + 1 * b[i], Chain[m])
    BY <2>4, <2>5, ReducedElement
  <2>7. \A i \in Idx : e[i] \in Nat
    BY <2>6, ElementWords
  <2>8. ASSUME NEW i \in Places
        PROVE  Means(Form(p.ntt), c[i], Wanted(e, i % N, p.ntt, ModulusAt(i)), ModulusAt(i))
    <3>1. PICK q \in NttModuli, m \in 1 .. Len(Chain), j \in Idx :
            q \in Moduli /\ q = ModulusAt(i) /\ q = Chain[m] /\ j = i % N
      BY PlaceStripe
    <3>2. Means(Form(f), c[i], Wanted(a, j, f, q) + 1 * Wanted(b, j, f, q), q)
      <4>1. /\ p.moduli[i \div N + 1] = q
            /\ Means(Form(f), AddMod(p.coeffs[i], r.coeffs[i], q),
                     Wanted(a, j, f, q) + 1 * Wanted(b, j, f, q), q)
        BY <1>5, <3>1
      <4>2. c[i] = AddMod(p.coeffs[i], r.coeffs[i], q)
        BY <2>2, <4>1
      <4>3. QED
        BY ONLY <4>1, <4>2
    <3>3. \A l \in Idx : Same(e[l], a[l] + 1 * b[l], q)
      BY <2>6, <3>1
    <3>4. 1 \in Int
      OBVIOUS
    <3>5. Means(Form(f), c[i], Wanted(e, j, f, q), q)
      BY ONLY <1>3, <2>7, <3>2, <3>3, <3>4, q \in NttModuli, j \in Idx, MeansWanted
    <3>6. QED
      BY <1>4, <3>1, <3>5
  <2>9. QED
    BY <2>1, <2>4, <2>6, <2>8, DenotesWith
<1>7. Denotes(PolySub(p, r), PolyRing!Minus(a, b))
  <2> DEFINE c == [i \in DOMAIN p.coeffs |-> SubMod(p.coeffs[i], r.coeffs[i], p.moduli[i \div N + 1])]
  <2>1. PolySub(p, r) = [p EXCEPT !.coeffs = c]
    BY DEF WordWise, PolySub
  <2>2. \A i \in Places : c[i] = SubMod(p.coeffs[i], r.coeffs[i], p.moduli[i \div N + 1])
    BY <1>1
  <2> HIDE DEF c
  <2>3. PICK g : g = [i \in Idx |-> a[i] - b[i]]
    OBVIOUS
  <2>4. PICK e : e = PolyRing!Minus(a, b) /\ e = [i \in Idx |-> g[i] % CrtModulus(Chain)]
    BY <2>3 DEF PolyRing!Minus, PolyRing!Idx, Idx
  <2>5. \A i \in Idx : g[i] \in Int /\ g[i] = a[i] + (-1) * b[i]
    BY <1>3, <2>3
  <2>6. /\ e \in PolyRing!Elements
        /\ \A i \in Idx, m \in 1 .. Len(Chain) : Same(e[i], a[i] + (-1) * b[i], Chain[m])
    BY <2>4, <2>5, ReducedElement
  <2>7. \A i \in Idx : e[i] \in Nat
    BY <2>6, ElementWords
  <2>8. ASSUME NEW i \in Places
        PROVE  Means(Form(p.ntt), c[i], Wanted(e, i % N, p.ntt, ModulusAt(i)), ModulusAt(i))
    <3>1. PICK q \in NttModuli, m \in 1 .. Len(Chain), j \in Idx :
            q \in Moduli /\ q = ModulusAt(i) /\ q = Chain[m] /\ j = i % N
      BY PlaceStripe
    <3>2. Means(Form(f), c[i], Wanted(a, j, f, q) + (-1) * Wanted(b, j, f, q), q)
      <4>1. /\ p.moduli[i \div N + 1] = q
            /\ Means(Form(f), SubMod(p.coeffs[i], r.coeffs[i], q),
                     Wanted(a, j, f, q) + (-1) * Wanted(b, j, f, q), q)
        BY <1>5, <3>1
      <4>2. c[i] = SubMod(p.coeffs[i], r.coeffs[i], q)
        BY <2>2, <4>1
      <4>3. QED
        BY ONLY <4>1, <4>2
    <3>3. \A l \in Idx : Same(e[l], a[l] + (-1) * b[l], q)
      BY <2>6, <3>1
    <3>4. -1 \in Int
      OBVIOUS
    <3>5. Means(Form(f), c[i], Wanted(e, j, f, q), q)
      BY ONLY <1>3, <2>7, <3>2, <3>3, <3>4, q \in NttModuli, j \in Idx, MeansWanted
    <3>6. QED
      BY <1>4, <3>1, <3>5
  <2>9. QED
    BY <2>1, <2>4, <2>6, <2>8, DenotesWith
<1>8. QED
  BY <1>6, <1>7

\* A multiple of an element is an element, congruent to the multiple in every stripe.
LEMMA ScaledElement ==
  ASSUME ChainAssumption, NEW a, \A i \in Idx : a[i] \in Nat, NEW k \in Nat
  PROVE  /\ PolyRing!Scaled(a, k) \in PolyRing!Elements
         /\ \A i \in Idx, m \in 1 .. Len(Chain) :
              Same(PolyRing!Scaled(a, k)[i], k * a[i], Chain[m])
<1>1. PICK Q \in Nat \ {0} : Q = CrtModulus(Chain)
  BY RingModulus
<1>2. PICK r \in Nat : r = k % Q /\ Same(r, k, Q)
  BY ResidueOf
<1>3. PICK g : g = [i \in Idx |-> a[i] * r]
  OBVIOUS
<1>4. PICK e : e = PolyRing!Scaled(a, k) /\ e = [i \in Idx |-> g[i] % CrtModulus(Chain)]
  BY <1>1, <1>2, <1>3 DEF PolyRing!Scaled, PolyRing!Idx, Idx
<1>5. \A i \in Idx : g[i] \in Int
  BY <1>3
<1>6. e \in PolyRing!Elements /\ \A i \in Idx, m \in 1 .. Len(Chain) : Same(e[i], g[i], Chain[m])
  BY <1>4, <1>5, ReducedElement
<1>7. ASSUME NEW i \in Idx, NEW m \in 1 .. Len(Chain)
      PROVE  Same(e[i], k * a[i], Chain[m])
  <2>1. PICK q \in Nat : q = Chain[m]
    BY ChainFacts
  <2>2. PICK x \in Nat, y \in Int, z \in Int, u \in Int : x = a[i] /\ y = x * r /\ z = x * k /\ u = e[i]
    BY <1>6, ElementWords
  <2>3. Same(r, k, q)
    BY <1>1, <1>2, <2>1, SameInStripe
  <2>4. Same(x, x, q)
    BY SameReflexive
  <2>5. Same(y, z, q)
    BY ONLY <2>2, <2>3, <2>4, q \in Nat, x \in Int, r \in Int, k \in Int, x \in Nat, r \in Nat, k \in Nat, SameProduct
  <2>6. g[i] = y
    BY <1>3, <2>2
  <2>7. Same(u, y, q)
    BY <1>6, <2>1, <2>2, <2>6
  <2>8. Same(u, z, q)
    BY ONLY <2>5, <2>7, q \in Nat, u \in Int, y \in Int, z \in Int, SameTransitive
  <2>9. z = k * x
    BY ONLY <2>2, x \in Nat, k \in Nat
  <2>10. QED
    BY <2>1, <2>2, <2>8, <2>9
<1>8. QED
  BY <1>4, <1>6, <1>7

\* Neg and scalar_mul.
LEMMA MultiplesDenote ==
  ASSUME ChainAssumption, NEW p, Held(p), NEW a, Denotes(p, a), NEW k \in Nat
  PROVE  /\ Denotes(PolyNegate(p), PolyRing!Negated(a))
         /\ Denotes(ScalarMul(p, k), PolyRing!Scaled(a, k))
<1>1. DOMAIN p.coeffs = Places
  BY DEF Held
<1>2. a \in PolyRing!Elements
  BY DEF Denotes
<1>3. \A i \in Idx : a[i] \in Nat
  BY <1>2, ElementWords
<1>4. PICK f : f = p.ntt
  OBVIOUS
<1>5. ASSUME NEW i \in Places, NEW q \in NttModuli, q \in Moduli, q = ModulusAt(i),
             NEW j \in Idx, j = i % N
      PROVE  /\ p.moduli[i \div N + 1] = q
             /\ Means(Form(f), NegMod(p.coeffs[i], q), (-1) * Wanted(a, j, f, q), q)
             /\ Means(Form(f), (p.coeffs[i] * (k % q)) % q, k * Wanted(a, j, f, q), q)
  <2>1. p.moduli[i \div N + 1] = q
    BY <1>4, <1>5, DenotedWord
  <2>2. PICK x \in Int : x = Wanted(a, j, f, q) /\ Means(Form(f), p.coeffs[i], x, q)
    BY <1>4, <1>5, DenotedWord
  <2>3. /\ Means(Form(f), NegMod(p.coeffs[i], q), (-1) * x, q)
        /\ Means(Form(f), (p.coeffs[i] * (k % q)) % q, k * x, q)
    BY ONLY <1>5, <2>2, x \in Int, k \in Nat, NegMeans, ScalarMeans
  <2>4. QED
    BY <2>1, <2>2, <2>3
<1>6. ASSUME NEW e, e \in PolyRing!Elements, NEW x \in Int, NEW c,
             \A i \in Idx, m \in 1 .. Len(Chain) : Same(e[i], x * a[i], Chain[m]),
             \A i \in Places, q \in NttModuli, j \in Idx :
               q \in Moduli /\ q = ModulusAt(i) /\ j = i % N =>
                 Means(Form(f), c[i], x * Wanted(a, j, f, q), q)
      PROVE  Denotes([p EXCEPT !.coeffs = c], e)
  <2>1. \A i \in Idx : e[i] \in Nat
    BY <1>6, ElementWords
  <2>2. ASSUME NEW i \in Places
        PROVE  Means(Form(p.ntt), c[i], Wanted(e, i % N, p.ntt, ModulusAt(i)), ModulusAt(i))
    <3>1. PICK q \in NttModuli, m \in 1 .. Len(Chain), j \in Idx :
            q \in Moduli /\ q = ModulusAt(i) /\ q = Chain[m] /\ j = i % N
      BY PlaceStripe
    <3>2. Means(Form(f), c[i], x * Wanted(a, j, f, q), q)
      BY <1>6, <3>1
    <3>3. \A l \in Idx : Same(e[l], x * a[l], q)
      BY <1>6, <3>1
    <3>4. Means(Form(f), c[i], Wanted(e, j, f, q), q)
      BY ONLY <1>3, <2>1, <3>2, <3>3, x \in Int, q \in NttModuli, j \in Idx, MeansMultiple
    <3>5. QED
      BY <1>4, <3>1, <3>4
  <2>3. QED
    BY <1>6, <2>2, DenotesWith
<1>7. Denotes(PolyNegate(p), PolyRing!Negated(a))
  <2> DEFINE c == [i \in DOMAIN p.coeffs |-> NegMod(p.coeffs[i], p.moduli[i \div N + 1])]
  <2>1. PolyNegate(p) = [p EXCEPT !.coeffs = c]
    BY DEF WordWise, PolyNegate
  <2>2. \A i \in Places : c[i] = NegMod(p.coeffs[i], p.moduli[i \div N + 1])
    BY <1>1
  <2> HIDE DEF c
  <2>3. PICK g : g = [i \in Idx |-> -a[i]]
    OBVIOUS
  <2>4. PICK e : e = PolyRing!Negated(a) /\ e = [i \in Idx |-> g[i] % CrtModulus(Chain)]
    BY <2>3 DEF PolyRing!Negated, PolyRing!Idx, Idx
  <2>5. \A i \in Idx : g[i] \in Int /\ g[i] = (-1) * a[i]
    BY <1>3, <2>3
  <2>6. /\ e \in PolyRing!Elements
        /\ \A i \in Idx, m \in 1 .. Len(Chain) : Same(e[i], (-1) * a[i], Chain[m])
    BY <2>4, <2>5, ReducedElement
  <2>7. \A i \in Places, q \in NttModuli, j \in Idx :
          q \in Moduli /\ q = ModulusAt(i) /\ j = i % N =>
            Means(Form(f), c[i], (-1) * Wanted(a, j, f, q), q)
    BY <1>5, <2>2
  <2>8. PICK x \in Int : x = -1
    OBVIOUS
  <2>9. /\ \A i \in Idx, m \in 1 .. Len(Chain) : Same(e[i], x * a[i], Chain[m])
        /\ \A i \in Places, q \in NttModuli, j \in Idx :
             q \in Moduli /\ q = ModulusAt(i) /\ j = i % N =>
               Means(Form(f), c[i], x * Wanted(a, j, f, q), q)
    BY <2>6, <2>7, <2>8
  <2>10. Denotes([p EXCEPT !.coeffs = c], e)
    BY ONLY <1>6, <2>6, <2>9, x \in Int
  <2>11. QED
    BY <2>1, <2>4, <2>10
<1>8. Denotes(ScalarMul(p, k), PolyRing!Scaled(a, k))
  <2> DEFINE w(i, q) == (p.coeffs[i] * (k % q)) % q
             c == [i \in DOMAIN p.coeffs |-> w(i, p.moduli[i \div N + 1])]
  <2>1. ScalarMul(p, k) = [p EXCEPT !.coeffs = c]
    BY DEF WordWise, ScalarMul
  <2>2. \A i \in Places : c[i] = w(i, p.moduli[i \div N + 1])
    BY <1>1
  <2> HIDE DEF c
  <2>3. PICK e : e = PolyRing!Scaled(a, k)
    OBVIOUS
  <2>4. /\ e \in PolyRing!Elements
        /\ \A i \in Idx, m \in 1 .. Len(Chain) : Same(e[i], k * a[i], Chain[m])
    BY <1>3, <2>3, ScaledElement
  <2>5. \A i \in Places, q \in NttModuli, j \in Idx :
          q \in Moduli /\ q = ModulusAt(i) /\ j = i % N =>
            Means(Form(f), c[i], k * Wanted(a, j, f, q), q)
    BY <1>5, <2>2
  <2>6. k \in Int
    OBVIOUS
  <2>7. Denotes([p EXCEPT !.coeffs = c], e)
    BY ONLY <1>6, <2>4, <2>5, <2>6
  <2>8. QED
    BY <2>1, <2>3, <2>7
<1>9. QED
  BY <1>7, <1>8

\* Products in the ring are elements.
LEMMA TimesElement ==
  ASSUME ChainAssumption, NEW a, \A i \in Idx : a[i] \in Nat, NEW b, \A i \in Idx : b[i] \in Nat
  PROVE  PolyRing!Times(a, b) \in PolyRing!Elements
<1>1. PICK e : e = PolyRing!Times(a, b)
  OBVIOUS
<1>2. e = [i \in Idx |-> e[i]]
  BY <1>1 DEF PolyRing!Times, PolyRing!Idx, Idx
<1>3. \A i \in Idx : e[i] \in 0 .. CrtModulus(Chain) - 1
  BY <1>1, TimesSums
<1>4. e \in [Idx -> 0 .. CrtModulus(Chain) - 1]
  BY ONLY <1>2, <1>3
<1>5. QED
  BY <1>1, <1>4, ElementWords

\* In NTT domain the product of words is a word of the product.
LEMMA ProductWord ==
  ASSUME ChainAssumption, NEW r, Held(r), NEW s, Held(s), NEW a, Denotes(r, a), NEW b, Denotes(s, b),
         NEW f, f, r.ntt, s.ntt,
         NEW i \in Places, NEW q \in NttModuli, q \in Moduli, q = ModulusAt(i),
         NEW j \in Idx, j = i % N
  PROVE  /\ Wanted(PolyRing!Times(a, b), j, f, q) \in Int
         /\ Means(Form(f), PointMul(r, s, i, q), Wanted(PolyRing!Times(a, b), j, f, q), q)
<1>1. (\A l \in Idx : a[l] \in Nat) /\ (\A l \in Idx : b[l] \in Nat)
  BY ElementWords DEF Denotes
<1>2. PICK e : e = PolyRing!Times(a, b) /\ e \in PolyRing!Elements
  BY <1>1, TimesElement
<1>3. \A l \in Idx : e[l] \in Nat
  BY <1>2, ElementWords
<1>4. PICK m \in 1 .. Len(Chain) : q = Chain[m]
  BY PlaceStripe
<1>5. \A l \in Idx : Same(e[l], Negacyclic(a, b, l, q), q)
  BY <1>1, <1>2, <1>4, TimesSums
<1>6. PICK x \in Int, y \in Int, z \in Int :
        /\ x = Wanted(a, j, f, q) /\ y = Wanted(b, j, f, q) /\ z = Wanted(e, j, f, q)
        /\ Same(z, x * y, q)
  <2>1. /\ Wanted(e, j, f, q) \in Int /\ Wanted(a, j, f, q) \in Int /\ Wanted(b, j, f, q) \in Int
        /\ Same(Wanted(e, j, f, q), Wanted(a, j, f, q) * Wanted(b, j, f, q), q)
    BY <1>1, <1>3, <1>5, WantedProduct
  <2>2. QED
    BY <2>1
<1>7. Means("classical", r.coeffs[i], x, q) /\ Means("classical", s.coeffs[i], y, q)
  <2>1. /\ Means(Form(r.ntt), r.coeffs[i], Wanted(a, j, r.ntt, q), q)
        /\ Means(Form(s.ntt), s.coeffs[i], Wanted(b, j, s.ntt, q), q)
    BY DenotedWord
  <2>2. Form(r.ntt) = "classical" /\ Form(s.ntt) = "classical"
    BY DEF Form
  <2>3. Wanted(a, j, r.ntt, q) = x /\ Wanted(b, j, s.ntt, q) = y
    BY <1>6 DEF Wanted
  <2>4. QED
    BY <2>1, <2>2, <2>3
<1>8. Means("classical", MontgomeryMul(r.coeffs[i], s.coeffs[i], q), x * y, q)
  <2>1. "classical" \in Paths(q)
    BY ClassicalSteps
  <2>2. Means("classical", PathMul("classical", r.coeffs[i], s.coeffs[i], q), x * y, q)
    BY ONLY <1>7, <2>1, q \in Moduli, x \in Int, y \in Int, MeansCombined
  <2>3. QED
    BY <2>2, ClassicalPath
<1>9. PICK p \in Int : p = x * y
  OBVIOUS
<1>10. Same(p, z, q)
  <2>1. q \in Nat /\ Same(z, p, q)
    BY <1>6, <1>9, ModulusFacts
  <2>2. QED
    BY ONLY <2>1, z \in Int, p \in Int, SameSymmetric
<1>11. Means("classical", MontgomeryMul(r.coeffs[i], s.coeffs[i], q), z, q)
  BY <1>8, <1>9, <1>10, MeansSame
<1>12. Form(f) = "classical"
  BY DEF Form
<1>13. QED
  BY <1>2, <1>6, <1>11, <1>12 DEF PointMul

\* mul_ntt_domain: the words of a product.
LEMMA ProductDenotes ==
  ASSUME ChainAssumption, NEW r, Held(r), NEW s, Held(s), r.ntt, s.ntt,
         NEW a, Denotes(r, a), NEW b, Denotes(s, b)
  PROVE  /\ Denotes(MulNttDomain(r, s), PolyRing!Times(a, b))
         /\ Denotes([MulNttDomain(r, s) EXCEPT !.ntt = TRUE], PolyRing!Times(a, b))
<1>1. DOMAIN r.coeffs = Places
  BY DEF Held
<1>2. (\A l \in Idx : a[l] \in Nat) /\ (\A l \in Idx : b[l] \in Nat)
  BY ElementWords DEF Denotes
<1>3. PICK e : e = PolyRing!Times(a, b) /\ e \in PolyRing!Elements
  BY <1>2, TimesElement
<1> DEFINE c == [i \in DOMAIN r.coeffs |-> PointMul(r, s, i, r.moduli[i \div N + 1])]
<1>4. MulNttDomain(r, s) = [r EXCEPT !.coeffs = c]
  BY DEF WordWise, MulNttDomain
<1>5. \A i \in Places : c[i] = PointMul(r, s, i, r.moduli[i \div N + 1])
  BY <1>1
<1> HIDE DEF c
<1>6. ASSUME NEW f, f, NEW i \in Places
      PROVE  Means(Form(f), c[i], Wanted(e, i % N, f, ModulusAt(i)), ModulusAt(i))
  <2>1. PICK q \in NttModuli, m \in 1 .. Len(Chain), j \in Idx :
          q \in Moduli /\ q = ModulusAt(i) /\ q = Chain[m] /\ j = i % N
    BY PlaceStripe
  <2>2. Means(Form(f), PointMul(r, s, i, q), Wanted(e, j, f, q), q)
    BY <1>3, <1>6, <2>1, ProductWord
  <2>3. r.moduli[i \div N + 1] = q
    BY <2>1, DenotedWord
  <2>4. QED
    BY <1>5, <2>1, <2>2, <2>3
<1>7. Denotes([r EXCEPT !.coeffs = c], e)
  <2>1. \A i \in Places :
          Means(Form(r.ntt), c[i], Wanted(e, i % N, r.ntt, ModulusAt(i)), ModulusAt(i))
    BY <1>6
  <2>2. QED
    BY <1>3, <2>1, DenotesWith
<1>8. PICK p : p = [r EXCEPT !.coeffs = c]
  OBVIOUS
<1>9. PICK d : d = [p EXCEPT !.ntt = TRUE]
  OBVIOUS
<1>12. Held(p) /\ p.coeffs = c
  <2>1. Held([r EXCEPT !.coeffs = c])
    BY <1>4, WordWiseHeld
  <2>2. [r EXCEPT !.coeffs = c].coeffs = c
    BY FieldsWith
  <2>3. QED
    BY <1>8, <2>1, <2>2
<1>13. d.coeffs = c /\ d.ntt = TRUE
  <2>1. [p EXCEPT !.ntt = TRUE].coeffs = p.coeffs /\ [p EXCEPT !.ntt = TRUE].ntt = TRUE
    BY <1>12, FieldsWith
  <2>2. QED
    BY <1>9, <1>12, <2>1
<1>10. Denotes(d, e)
  BY <1>3, <1>6, <1>13 DEF Denotes
<1>11. QED
  BY <1>3, <1>4, <1>7, <1>8, <1>9, <1>10

\* mul_acc_ntt_domain and mul_acc3_ntt_domain.
LEMMA AccumulationsDenote ==
  ASSUME ChainAssumption, NEW p, Held(p), NEW r, Held(r), NEW s, Held(s), p.ntt, r.ntt, s.ntt,
         NEW d, Denotes(p, d), NEW a, Denotes(r, a), NEW b, Denotes(s, b)
  PROVE  /\ Denotes(MulAccNttDomain(p, r, s), PolyRing!Plus(d, PolyRing!Times(a, b)))
         /\ Denotes(MulAcc3NttDomain(p, r, s),
                    PolyRing!Plus(d, PolyRing!Scaled(PolyRing!Times(a, b), 3)))
<1>1. DOMAIN p.coeffs = Places
  BY DEF Held
<1>2. (\A l \in Idx : a[l] \in Nat) /\ (\A l \in Idx : b[l] \in Nat) /\ (\A l \in Idx : d[l] \in Nat)
  BY ElementWords DEF Denotes
<1>3. PICK t : t = PolyRing!Times(a, b) /\ t \in PolyRing!Elements /\ \A l \in Idx : t[l] \in Nat
  BY <1>2, TimesElement, ElementWords
<1>4. PICK Q \in Nat \ {0} : Q = CrtModulus(Chain)
  BY RingModulus
<1>5. Form(p.ntt) = "classical" /\ Form(TRUE) = "classical"
  BY DEF Form
<1>6. \A e, j, q : Wanted(e, j, p.ntt, q) = Wanted(e, j, TRUE, q)
  BY DEF Wanted
<1>7. ASSUME NEW i \in Places, NEW q \in NttModuli, q \in Moduli, q = ModulusAt(i),
             NEW j \in Idx, j = i % N
      PROVE  /\ p.moduli[i \div N + 1] = q
             /\ Means("classical", AddMod(p.coeffs[i], PointMul(r, s, i, q), q),
                      Wanted(d, j, TRUE, q) + 1 * Wanted(t, j, TRUE, q), q)
             /\ Means("classical",
                      CondSub(CondSub(CondSub(p.coeffs[i] + 3 * PointMul(r, s, i, q), q), q), q),
                      Wanted(d, j, TRUE, q) + 3 * Wanted(t, j, TRUE, q), q)
  <2>1. p.moduli[i \div N + 1] = q
    BY <1>7, DenotedWord
  <2>2. PICK x \in Int, y \in Int : /\ x = Wanted(d, j, TRUE, q) /\ y = Wanted(t, j, TRUE, q)
                                    /\ Means("classical", p.coeffs[i], x, q)
                                    /\ Means("classical", PointMul(r, s, i, q), y, q)
    <3>1. /\ Wanted(d, j, p.ntt, q) \in Int
          /\ Means(Form(p.ntt), p.coeffs[i], Wanted(d, j, p.ntt, q), q)
      BY <1>7, DenotedWord
    <3>2. /\ Wanted(t, j, TRUE, q) \in Int
          /\ Means(Form(TRUE), PointMul(r, s, i, q), Wanted(t, j, TRUE, q), q)
      BY <1>3, <1>7, ProductWord
    <3>3. QED
      BY <1>5, <1>6, <3>1, <3>2
  <2>3. x + y = x + 1 * y
    OBVIOUS
  <2>4. Means("classical", AddMod(p.coeffs[i], PointMul(r, s, i, q), q), x + y, q)
    BY ONLY <1>7, <2>2, ClassicalSteps, MeansCombined, x \in Int, y \in Int
  <2>5. Means("classical",
              CondSub(CondSub(CondSub(p.coeffs[i] + 3 * PointMul(r, s, i, q), q), q), q), x + 3 * y, q)
    BY ONLY <1>7, <2>2, TripleMeans, x \in Int, y \in Int
  <2>6. QED
    BY <2>1, <2>2, <2>3, <2>4, <2>5
<1>8. ASSUME NEW e, e \in PolyRing!Elements, NEW x \in Int, NEW c,
             \A i \in Idx, m \in 1 .. Len(Chain) : Same(e[i], d[i] + x * t[i], Chain[m]),
             \A i \in Places, q \in NttModuli, j \in Idx :
               q \in Moduli /\ q = ModulusAt(i) /\ j = i % N =>
                 Means("classical", c[i], Wanted(d, j, TRUE, q) + x * Wanted(t, j, TRUE, q), q)
      PROVE  Denotes([p EXCEPT !.coeffs = c], e)
  <2>1. \A i \in Idx : e[i] \in Nat
    BY <1>8, ElementWords
  <2>2. ASSUME NEW i \in Places
        PROVE  Means(Form(p.ntt), c[i], Wanted(e, i % N, p.ntt, ModulusAt(i)), ModulusAt(i))
    <3>1. PICK q \in NttModuli, m \in 1 .. Len(Chain), j \in Idx :
            q \in Moduli /\ q = ModulusAt(i) /\ q = Chain[m] /\ j = i % N
      BY PlaceStripe
    <3>2. Means(Form(TRUE), c[i], Wanted(d, j, TRUE, q) + x * Wanted(t, j, TRUE, q), q)
      BY <1>5, <1>8, <3>1
    <3>3. \A l \in Idx : Same(e[l], d[l] + x * t[l], q)
      BY <1>8, <3>1
    <3>4. Means(Form(TRUE), c[i], Wanted(e, j, TRUE, q), q)
      BY ONLY <1>2, <1>3, <2>1, <3>2, <3>3, x \in Int, q \in NttModuli, j \in Idx, MeansWanted
    <3>5. QED
      BY <1>5, <1>6, <3>1, <3>4
  <2>3. QED
    BY <1>8, <2>2, DenotesWith
<1>9. Denotes(MulAccNttDomain(p, r, s), PolyRing!Plus(d, PolyRing!Times(a, b)))
  <2> DEFINE w(i, q) == AddMod(p.coeffs[i], PointMul(r, s, i, q), q)
             c == [i \in DOMAIN p.coeffs |-> w(i, p.moduli[i \div N + 1])]
  <2>1. MulAccNttDomain(p, r, s) = [p EXCEPT !.coeffs = c]
    BY DEF WordWise, MulAccNttDomain
  <2>2. \A i \in Places : c[i] = w(i, p.moduli[i \div N + 1])
    BY <1>1
  <2> HIDE DEF c
  <2>3. PICK g : g = [i \in Idx |-> d[i] + t[i]]
    OBVIOUS
  <2>4. PICK e : e = PolyRing!Plus(d, t) /\ e = [i \in Idx |-> g[i] % CrtModulus(Chain)]
    BY <2>3 DEF PolyRing!Plus, PolyRing!Idx, Idx
  <2>5. \A i \in Idx : g[i] \in Int /\ g[i] = d[i] + 1 * t[i]
    BY <1>2, <1>3, <2>3
  <2>6. /\ e \in PolyRing!Elements
        /\ \A i \in Idx, m \in 1 .. Len(Chain) : Same(e[i], d[i] + 1 * t[i], Chain[m])
    BY <2>4, <2>5, ReducedElement
  <2>7. \A i \in Places, q \in NttModuli, j \in Idx :
          q \in Moduli /\ q = ModulusAt(i) /\ j = i % N =>
            Means("classical", c[i], Wanted(d, j, TRUE, q) + 1 * Wanted(t, j, TRUE, q), q)
    <3>1. SUFFICES ASSUME NEW i \in Places, NEW q \in NttModuli, NEW j \in Idx,
                          q \in Moduli, q = ModulusAt(i), j = i % N
                   PROVE  Means("classical", c[i],
                                Wanted(d, j, TRUE, q) + 1 * Wanted(t, j, TRUE, q), q)
      OBVIOUS
    <3>2. PICK y : y = Wanted(d, j, TRUE, q) + 1 * Wanted(t, j, TRUE, q)
      OBVIOUS
    <3>3. p.moduli[i \div N + 1] = q /\ Means("classical", w(i, q), y, q)
      BY <1>7, <3>1, <3>2
    <3>4. c[i] = w(i, q)
      BY <2>2, <3>3
    <3>5. QED
      BY <3>2, <3>3, <3>4
  <2>8. 1 \in Int
    OBVIOUS
  <2>9. Denotes([p EXCEPT !.coeffs = c], e)
    BY ONLY <1>8, <2>6, <2>7, <2>8
  <2>10. QED
    BY <1>3, <2>1, <2>4, <2>9
<1>10. Denotes(MulAcc3NttDomain(p, r, s),
               PolyRing!Plus(d, PolyRing!Scaled(PolyRing!Times(a, b), 3)))
  <2> DEFINE w(i, q) == CondSub(CondSub(CondSub(p.coeffs[i] + 3 * PointMul(r, s, i, q), q), q), q)
             c == [i \in DOMAIN p.coeffs |-> w(i, p.moduli[i \div N + 1])]
  <2>1. MulAcc3NttDomain(p, r, s) = [p EXCEPT !.coeffs = c]
    BY DEF WordWise, MulAcc3NttDomain
  <2>2. \A i \in Places : c[i] = w(i, p.moduli[i \div N + 1])
    BY <1>1
  <2> HIDE DEF c
  <2>3. 3 \in Nat
    OBVIOUS
  <2>4. PICK v : /\ v = PolyRing!Scaled(t, 3) /\ v \in PolyRing!Elements
                 /\ \A i \in Idx, m \in 1 .. Len(Chain) : Same(v[i], 3 * t[i], Chain[m])
    BY <1>3, <2>3, ScaledElement
  <2>5. \A i \in Idx : v[i] \in Nat
    BY <2>4, ElementWords
  <2>6. PICK g : g = [i \in Idx |-> d[i] + v[i]]
    OBVIOUS
  <2>7. PICK e : e = PolyRing!Plus(d, v) /\ e = [i \in Idx |-> g[i] % CrtModulus(Chain)]
    BY <2>6 DEF PolyRing!Plus, PolyRing!Idx, Idx
  <2>8. \A i \in Idx : g[i] \in Int
    BY <1>2, <2>5, <2>6
  <2>9. /\ e \in PolyRing!Elements
        /\ \A i \in Idx, m \in 1 .. Len(Chain) : Same(e[i], g[i], Chain[m])
    BY <2>7, <2>8, ReducedElement
  <2>10. ASSUME NEW i \in Idx, NEW m \in 1 .. Len(Chain)
         PROVE  Same(e[i], d[i] + 3 * t[i], Chain[m])
    <3>1. PICK q \in Nat : q = Chain[m]
      BY ChainFacts
    <3>2. PICK x \in Nat, y \in Nat, z \in Nat, u \in Nat : x = d[i] /\ y = v[i] /\ z = t[i] /\ u = e[i]
      BY <1>2, <1>3, <2>5, <2>9, ElementWords
    <3>3. PICK h \in Int, l \in Int, o \in Int : h = x + y /\ o = 3 * z /\ l = x + o
      OBVIOUS
    <3>4. Same(y, o, q) /\ Same(x, x, q)
      BY <2>4, <3>1, <3>2, <3>3, SameReflexive
    <3>5. Same(h, l, q)
      BY ONLY <3>3, <3>4, q \in Nat, x \in Int, y \in Int, o \in Int, x \in Nat, y \in Nat, SameSum
    <3>6. Same(u, h, q)
      BY <2>6, <2>9, <3>1, <3>2, <3>3
    <3>7. Same(u, l, q)
      BY ONLY <3>5, <3>6, q \in Nat, u \in Int, h \in Int, l \in Int, u \in Nat, SameTransitive
    <3>8. QED
      BY <3>1, <3>2, <3>3, <3>7
  <2>11. \A i \in Places, q \in NttModuli, j \in Idx :
           q \in Moduli /\ q = ModulusAt(i) /\ j = i % N =>
             Means("classical", c[i], Wanted(d, j, TRUE, q) + 3 * Wanted(t, j, TRUE, q), q)
    <3>1. SUFFICES ASSUME NEW i \in Places, NEW q \in NttModuli, NEW j \in Idx,
                          q \in Moduli, q = ModulusAt(i), j = i % N
                   PROVE  Means("classical", c[i],
                                Wanted(d, j, TRUE, q) + 3 * Wanted(t, j, TRUE, q), q)
      OBVIOUS
    <3>2. PICK y : y = Wanted(d, j, TRUE, q) + 3 * Wanted(t, j, TRUE, q)
      OBVIOUS
    <3>3. p.moduli[i \div N + 1] = q /\ Means("classical", w(i, q), y, q)
      BY <1>7, <3>1, <3>2
    <3>4. c[i] = w(i, q)
      BY <2>2, <3>3
    <3>5. QED
      BY <3>2, <3>3, <3>4
  <2>12. 3 \in Int
    OBVIOUS
  <2>13. Denotes([p EXCEPT !.coeffs = c], e)
    BY ONLY <1>8, <2>9, <2>10, <2>11, <2>12
  <2>14. QED
    BY <1>3, <2>1, <2>4, <2>7, <2>13
<1>11. QED
  BY <1>9, <1>10
-----------------------------------------------------------------------------
(* The conversions                                                         *)

\* A transform's words are those of the last level: each means a value of the polynomial.
LEMMA LeafWords ==
  ASSUME NEW q \in NttModuli, NEW c, NEW a, \A i \in Idx : a[i] \in Nat
  PROVE  ForwardHolds("classical", c, N, a, q) <=>
           \A j \in Idx : Means("classical", c[j], Wanted(a, j, TRUE, q), q)
<1>1. N \in Nat /\ N >= 2
  BY Dimension
<1>2. ASSUME NEW k \in N .. 2 * N - 1, NEW j \in Idx, k = N + j
      PROVE  BlockHolds("classical", c, k, a, 1, q) <=>
               Means("classical", c[j], Wanted(a, j, TRUE, q), q)
  <2>1. Length(k) = 1 /\ First(k) = j
    <3>1. Length(k) = 1 /\ First(k) = k - N
      BY LeafLevel
    <3>2. k - N = j
      BY <1>1, <1>2 DEF Idx
    <3>3. QED
      BY <3>1, <3>2
  <2>2. PICK x \in Int : x = Remainder(a, 0, k, q)
    BY LeafEvaluates
  <2>3. 1 * x = x /\ j + 0 = j
    BY <1>1 DEF Idx
  <2>4. 0 .. 1 - 1 = {0}
    OBVIOUS
  <2>5. BlockHolds("classical", c, k, a, 1, q) <=> Means("classical", c[j], x, q)
    BY <2>1, <2>2, <2>3, <2>4 DEF BlockHolds
  <2>6. Wanted(a, j, TRUE, q) = x
    BY <1>2, <2>2 DEF Wanted
  <2>7. QED
    BY <2>5, <2>6
<1>3. \A j \in Idx : N + j \in N .. 2 * N - 1
  BY <1>1 DEF Idx
<1>4. \A k \in N .. 2 * N - 1 : \E j \in Idx : k = N + j
  <2>1. \A k \in N .. 2 * N - 1 : k - N \in Idx /\ k = N + (k - N)
    BY <1>1 DEF Idx
  <2>2. QED
    BY <2>1
<1>5. ASSUME ForwardHolds("classical", c, N, a, q)
      PROVE  \A j \in Idx : Means("classical", c[j], Wanted(a, j, TRUE, q), q)
  <2>1. \A k \in N .. 2 * N - 1 : BlockHolds("classical", c, k, a, 1, q)
    BY <1>5 DEF ForwardHolds
  <2>2. QED
    BY <1>2, <1>3, <2>1
<1>6. ASSUME \A j \in Idx : Means("classical", c[j], Wanted(a, j, TRUE, q), q)
      PROVE  ForwardHolds("classical", c, N, a, q)
  <2>1. \A k \in N .. 2 * N - 1 : BlockHolds("classical", c, k, a, 1, q)
    BY <1>2, <1>4, <1>6
  <2>2. QED
    BY <2>1 DEF ForwardHolds
<1>7. QED
  BY <1>5, <1>6

\* The words of a stripe, of what stands for an element.
LEMMA LimbWords ==
  ASSUME ChainAssumption, NEW p, Held(p), NEW e, Denotes(p, e),
         NEW m \in 1 .. Len(Chain), NEW q, q = Chain[m]
  PROVE  /\ q \in NttModuli /\ Limb(p, m) \in Arrays(q)
         /\ \A j \in Idx : Means(Form(p.ntt), Limb(p, m)[j], Wanted(e, j, p.ntt, q), q)
<1>1. q \in NttModuli /\ Limb(p, m) \in Arrays(q)
  BY LimbReduced DEF Arrays
<1>2. ASSUME NEW j \in Idx
      PROVE  Means(Form(p.ntt), Limb(p, m)[j], Wanted(e, j, p.ntt, q), q)
  <2>1. PICK i \in Places : i = (m - 1) * N + j /\ i \div N + 1 = m /\ i % N = j
    BY PlaceFacts
  <2>2. Means(Form(p.ntt), p.coeffs[i], Wanted(e, i % N, p.ntt, ModulusAt(i)), ModulusAt(i))
    BY DEF Denotes
  <2>3. ModulusAt(i) = q /\ Limb(p, m)[j] = p.coeffs[i]
    BY <2>1 DEF ModulusAt, Limb
  <2>4. QED
    BY <2>1, <2>2, <2>3
<1>3. QED
  BY <1>1, <1>2

\* Stripes whose words mean what they should of an element make a polynomial that stands
\* for it.
LEMMA StripesDenote ==
  ASSUME ChainAssumption, NEW p, Held(p), NEW s, NEW b, NEW e, e \in PolyRing!Elements,
         \A m \in 1 .. Len(Chain), j \in Idx :
           Means(Form(b), s[m][j], Wanted(e, j, b, Chain[m]), Chain[m])
  PROVE  /\ Denotes([WithLimbs(p, s) EXCEPT !.ntt = b], e)
         /\ [WithLimbs(p, s) EXCEPT !.ntt = b].ntt = b
<1> DEFINE c == [i \in DOMAIN p.coeffs |-> s[i \div N + 1][i % N]]
<1>1. DOMAIN c = Places /\ \A i \in Places : c[i] = s[i \div N + 1][i % N]
  BY DEF Held
<1>2. WithLimbs(p, s) = [p EXCEPT !.coeffs = c]
  BY DEF WithLimbs
<1> HIDE DEF c
<1>3. ASSUME NEW i \in Places
      PROVE  Means(Form(b), c[i], Wanted(e, i % N, b, ModulusAt(i)), ModulusAt(i))
  <2>1. PICK m \in 1 .. Len(Chain), j \in Idx : m = i \div N + 1 /\ j = i % N
    BY PlaceFacts
  <2>2. Means(Form(b), s[m][j], Wanted(e, j, b, Chain[m]), Chain[m])
    OBVIOUS
  <2>3. c[i] = s[m][j] /\ ModulusAt(i) = Chain[m]
    BY <1>1, <2>1 DEF ModulusAt
  <2>4. QED
    BY <2>1, <2>2, <2>3
<1>4. ASSUME NEW i \in Places
      PROVE  c[i] \in 0 .. ModulusAt(i) - 1
  BY <1>3 DEF Means
<1>5. PICK r : r = [p EXCEPT !.coeffs = c]
  OBVIOUS
<1>6. PICK d : d = [r EXCEPT !.ntt = b]
  OBVIOUS
<1>7. Held(r) /\ r.coeffs = c
  <2>1. Held([p EXCEPT !.coeffs = c])
    BY ONLY Held(p), <1>1, <1>4, HeldWith
  <2>2. [p EXCEPT !.coeffs = c].coeffs = c
    BY FieldsWith
  <2>3. QED
    BY <1>5, <2>1, <2>2
<1>8. d.coeffs = c /\ d.ntt = b
  <2>1. [r EXCEPT !.ntt = b].coeffs = r.coeffs /\ [r EXCEPT !.ntt = b].ntt = b
    BY <1>7, FieldsWith
  <2>2. QED
    BY <1>6, <1>7, <2>1
<1>9. Denotes(d, e)
  BY <1>3, <1>8 DEF Denotes
<1>10. d = [WithLimbs(p, s) EXCEPT !.ntt = b]
  BY <1>2, <1>5, <1>6
<1>11. QED
  BY <1>8, <1>9, <1>10

\* An element of the ring in one stripe: reduced, and of the same meaning.
LEMMA StripeOf ==
  ASSUME ChainAssumption, NEW e \in PolyRing!Elements, NEW q \in NttModuli
  PROVE  \E a \in Arrays(q) : /\ a = [j \in Idx |-> e[j] % q]
                              /\ \A j \in Idx : /\ e[j] \in Nat /\ a[j] \in Nat
                                                /\ Same(a[j], e[j], q) /\ Same(e[j], a[j], q)
<1>1. q \in Nat \ {0}
  BY RootModulus, ModulusFacts
<1>2. ASSUME NEW j \in Idx
      PROVE  /\ e[j] \in Nat /\ e[j] % q \in 0 .. q - 1 /\ e[j] % q \in Nat
             /\ Same(e[j] % q, e[j], q) /\ Same(e[j], e[j] % q, q)
  <2>1. PICK x \in Nat : x = e[j]
    BY ElementWords
  <2>2. PICK y \in Nat : y = x % q /\ y \in 0 .. q - 1 /\ Same(y, x, q)
    BY <1>1, ResidueOf
  <2>3. Same(x, y, q)
    BY ONLY <1>1, <2>2, q \in Nat, x \in Int, y \in Int, x \in Nat, y \in Nat, SameSymmetric
  <2>4. QED
    BY <2>1, <2>2, <2>3
<1>3. PICK a : a = [j \in Idx |-> e[j] % q]
  OBVIOUS
<1>4. a \in Arrays(q)
  BY <1>2, <1>3 DEF Arrays
<1>5. \A j \in Idx : /\ e[j] \in Nat /\ a[j] \in Nat
                     /\ Same(a[j], e[j], q) /\ Same(e[j], a[j], q)
  BY <1>2, <1>3
<1>6. QED
  BY <1>3, <1>4, <1>5

\* to_ntt.
LEMMA ToNttDenotes ==
  ASSUME ChainAssumption, NEW p, Held(p), NEW e, Denotes(p, e)
  PROVE  Denotes(ToNtt(p), e) /\ ToNtt(p).ntt
<1>1. e \in PolyRing!Elements
  BY DEF Denotes
<1>2. CASE p.ntt
  BY <1>2 DEF ToNtt
<1>3. CASE ~p.ntt
  <2> DEFINE s == [m \in Limbs(p) |-> Forward(Limb(p, m), p.moduli[m])]
  <2>1. Limbs(p) = 1 .. Len(Chain) /\ p.moduli = Chain
    BY ChainFacts DEF Held, Limbs
  <2>2. \A m \in 1 .. Len(Chain) : s[m] = Forward(Limb(p, m), Chain[m])
    BY <2>1
  <2>3. ToNtt(p) = [WithLimbs(p, s) EXCEPT !.ntt = TRUE]
    BY <1>3 DEF ToNtt
  <2> HIDE DEF s
  <2>4. ASSUME NEW m \in 1 .. Len(Chain), NEW j \in Idx
        PROVE  Means(Form(TRUE), s[m][j], Wanted(e, j, TRUE, Chain[m]), Chain[m])
    <3>20. PICK q \in NttModuli : q = Chain[m]
      BY LimbWords
    <3>21. PICK l \in Arrays(q) : l = Limb(p, m)
      BY <3>20, LimbWords
    <3>1. q = Chain[m] /\ l = Limb(p, m)
      BY <3>20, <3>21
    <3>2. \A i \in Idx : Means(Form(p.ntt), l[i], Wanted(e, i, p.ntt, q), q)
      BY <3>1, LimbWords
    <3>3. \A i \in Idx : Same(l[i], e[i], q)
      BY <1>3, <3>2 DEF Form, Wanted, Means, Reads
    <3>4. q <= Word /\ q \in Nat /\ Word \in Nat
      BY <3>1, ChainFacts, WordFacts
    <3>5. \A i \in Idx : l[i] \in Words /\ l[i] \in Nat
      <4>1. \A i \in Idx : l[i] \in 0 .. q - 1
        BY DEF Arrays
      <4>2. QED
        BY <3>4, <4>1 DEF Words
    <3>6. ForwardHolds("classical", Forward(l, q), N, l, q)
      BY <3>5, ForwardLeaves
    <3>7. Means("classical", Forward(l, q)[j], Wanted(l, j, TRUE, q), q)
      BY <3>5, <3>6, LeafWords
    <3>8. Form(TRUE) = "classical"
      BY DEF Form
    <3>9. \A i \in Idx : e[i] \in Nat
      BY <1>1, ElementWords
    <3>12. Means(Form(TRUE), Forward(l, q)[j], Wanted(l, j, TRUE, q), q)
      BY <3>7, <3>8
    <3>10. Means(Form(TRUE), Forward(l, q)[j], Wanted(e, j, TRUE, q), q)
      BY ONLY <3>3, <3>5, <3>9, <3>12, q \in NttModuli, j \in Idx, MeansCongruent
    <3>11. QED
      BY <2>2, <3>1, <3>8, <3>10
  <2>5. /\ Denotes([WithLimbs(p, s) EXCEPT !.ntt = TRUE], e)
        /\ [WithLimbs(p, s) EXCEPT !.ntt = TRUE].ntt = TRUE
    BY <1>1, <2>4, StripesDenote
  <2>6. QED
    BY <2>3, <2>5
<1>4. QED
  BY <1>2, <1>3

\* from_ntt.
LEMMA FromNttDenotes ==
  ASSUME ChainAssumption, NEW p, Held(p), NEW e, Denotes(p, e)
  PROVE  Denotes(FromNtt(p), e) /\ ~FromNtt(p).ntt
<1>1. e \in PolyRing!Elements
  BY DEF Denotes
<1>2. CASE ~p.ntt
  BY <1>2 DEF FromNtt
<1>3. CASE p.ntt
  <2> DEFINE s == [m \in Limbs(p) |-> Inverse(Limb(p, m), p.moduli[m])]
  <2>1. Limbs(p) = 1 .. Len(Chain) /\ p.moduli = Chain
    BY ChainFacts DEF Held, Limbs
  <2>2. \A m \in 1 .. Len(Chain) : s[m] = Inverse(Limb(p, m), Chain[m])
    BY <2>1
  <2>3. FromNtt(p) = [WithLimbs(p, s) EXCEPT !.ntt = FALSE]
    BY <1>3 DEF FromNtt
  <2> HIDE DEF s
  <2>4. ASSUME NEW m \in 1 .. Len(Chain), NEW j \in Idx
        PROVE  Means(Form(FALSE), s[m][j], Wanted(e, j, FALSE, Chain[m]), Chain[m])
    <3>20. PICK q \in NttModuli : q = Chain[m]
      BY LimbWords
    <3>21. PICK c \in Arrays(q) : c = Limb(p, m)
      BY <3>20, LimbWords
    <3>1. q = Chain[m] /\ c = Limb(p, m)
      BY <3>20, <3>21
    <3>2. \A i \in Idx : Means(Form(p.ntt), c[i], Wanted(e, i, p.ntt, q), q)
      BY <3>1, LimbWords
    <3>3. \A i \in Idx : Means("classical", c[i], Wanted(e, i, TRUE, q), q)
      BY <1>3, <3>2 DEF Form, Wanted
    <3>4. PICK a \in Arrays(q) :
            \A i \in Idx : /\ e[i] \in Nat /\ a[i] \in Nat
                           /\ Same(a[i], e[i], q) /\ Same(e[i], a[i], q)
      BY <1>1, StripeOf
    <3>5. Form(TRUE) = "classical" /\ Form(FALSE) = "shoup"
      BY DEF Form
    <3>6. ASSUME NEW i \in Idx
          PROVE  Means("classical", c[i], Wanted(a, i, TRUE, q), q)
      <4>1. Means(Form(TRUE), c[i], Wanted(e, i, TRUE, q), q)
        BY <3>3, <3>5
      <4>2. Means(Form(TRUE), c[i], Wanted(a, i, TRUE, q), q)
        BY ONLY <3>4, <4>1, q \in NttModuli, i \in Idx, MeansCongruent
      <4>3. QED
        BY <3>5, <4>2
    <3>7. ForwardHolds("classical", c, N, a, q)
      BY <3>4, <3>6, LeafWords
    <3>8. Inverse(c, q) = a
      BY <3>7, InverseRecovers
    <3>9. a[j] \in 0 .. q - 1 /\ Same(a[j], e[j], q)
      BY <3>4 DEF Arrays
    <3>10. Means("shoup", a[j], e[j], q)
      BY <3>9 DEF Means, Reads
    <3>11. Wanted(e, j, FALSE, q) = e[j]
      BY DEF Wanted
    <3>12. QED
      BY <2>2, <3>1, <3>5, <3>8, <3>10, <3>11
  <2>5. /\ Denotes([WithLimbs(p, s) EXCEPT !.ntt = FALSE], e)
        /\ [WithLimbs(p, s) EXCEPT !.ntt = FALSE].ntt = FALSE
    BY <1>1, <2>4, StripesDenote
  <2>6. QED
    BY <2>3, <2>5
<1>4. QED
  BY <1>2, <1>3

\* mul_ntt, of operands in either domain.
LEMMA MulNttDenotes ==
  ASSUME ChainAssumption, NEW r, Held(r), NEW s, Held(s),
         NEW a, Denotes(r, a), NEW b, Denotes(s, b)
  PROVE  Denotes(MulNtt(r, s), PolyRing!Times(a, b))
<1>1. PICK u : u = ToNtt(r) /\ Held(u) /\ Denotes(u, a) /\ u.ntt
  BY ConversionsHeld, ToNttDenotes
<1>2. PICK v : v = ToNtt(s) /\ Held(v) /\ Denotes(v, b) /\ v.ntt
  BY ConversionsHeld, ToNttDenotes
<1>3. PICK w : w = [MulNttDomain(u, v) EXCEPT !.ntt = TRUE]
  OBVIOUS
<1>4. Held(w) /\ Denotes(w, PolyRing!Times(a, b))
  BY <1>1, <1>2, <1>3, WordWiseHeld, ProductDenotes
<1>5. Denotes(FromNtt(w), PolyRing!Times(a, b))
  BY <1>4, FromNttDenotes
<1>6. MulNtt(r, s) = FromNtt(w)
  BY <1>1, <1>2, <1>3 DEF MulNtt
<1>7. QED
  BY <1>5, <1>6
-----------------------------------------------------------------------------
(* Loads and reads                                                         *)

\* A polynomial built around words that are congruent to numbers stands for the element that
\* those numbers reduce to.
LEMMA PolyDenotes ==
  ASSUME ChainAssumption, NEW f, \A j \in Idx : f[j] \in Int,
         NEW c, \A i \in Places : /\ c[i] \in 0 .. ModulusAt(i) - 1
                                  /\ Same(c[i], f[i % N], ModulusAt(i))
  PROVE  Denotes(Poly(c, N, Chain), Reduced(f)) /\ ~Poly(c, N, Chain).ntt
<1>1. PICK e : e = Reduced(f) /\ e = [i \in Idx |-> f[i] % CrtModulus(Chain)]
  BY DEF Reduced
<1>2. /\ e \in PolyRing!Elements
      /\ \A i \in Idx, m \in 1 .. Len(Chain) : Same(e[i], f[i], Chain[m])
  BY <1>1, ReducedElement
<1>3. \A i \in Idx : e[i] \in Nat
  BY <1>2, ElementWords
<1>4. ASSUME NEW i \in Places
      PROVE  Means(Form(FALSE), c[i], Wanted(e, i % N, FALSE, ModulusAt(i)), ModulusAt(i))
  <2>1. PICK q \in NttModuli, m \in 1 .. Len(Chain), j \in Idx :
          q \in Moduli /\ q = ModulusAt(i) /\ q = Chain[m] /\ j = i % N
    BY PlaceStripe
  <2>2. PICK x \in Nat, y \in Int, z \in Nat : x = c[i] /\ y = f[j] /\ z = e[j]
    BY <1>3, <2>1, PlaceModulus
  <2>3. q \in Nat
    BY <2>1, ModulusFacts
  <2>4. Same(x, y, q) /\ Same(z, y, q)
    BY <1>2, <2>1, <2>2
  <2>5. Same(x, z, q)
    BY ONLY <2>3, <2>4, x \in Int, y \in Int, z \in Int, x \in Nat, z \in Nat, SameChain
  <2>6. x \in 0 .. q - 1
    BY <2>1, <2>2
  <2>7. Means(Form(FALSE), x, z, q)
    BY <2>5, <2>6 DEF Means, Reads, Form
  <2>8. Wanted(e, j, FALSE, q) = z
    BY <2>2 DEF Wanted
  <2>9. QED
    BY <2>1, <2>2, <2>7, <2>8
<1>5. PICK p : p = Poly(c, N, Chain)
  OBVIOUS
<1>8. p.coeffs = c /\ p.ntt = FALSE
  BY <1>5 DEF Poly
<1>6. Denotes(p, e)
  BY <1>2, <1>4, <1>8 DEF Denotes
<1>7. QED
  BY <1>1, <1>5, <1>6, <1>8

\* from_coeffs_moduli, from_crt_coeffs and sample_gaussian_moduli.
LEMMA LoadsDenote ==
  ASSUME ChainAssumption, PolyInputs
  PROVE  /\ \A g \in Given : /\ Denotes(FromCoeffs(g, Chain), Reduced(g))
                             /\ ~FromCoeffs(g, Chain).ntt
         /\ \A g \in Given :
              Denotes(FromCrtCoeffs([i \in Range2(N, Len(Chain)) |-> g[i % N]], Chain), Reduced(g))
         /\ \A v \in Vectors : Denotes(FromSamples(v, Chain), Reduced(v))
<1>1. Range2(N, Len(Chain)) = Places
  BY DEF Range2, Places
<1>2. ASSUME NEW g \in Given
      PROVE  /\ \A j \in Idx : g[j] \in Int
             /\ \A i \in Places : /\ g[i % N] % ModulusAt(i) \in 0 .. ModulusAt(i) - 1
                                  /\ Same(g[i % N] % ModulusAt(i), g[i % N], ModulusAt(i))
  <2>1. \A j \in Idx : g[j] \in Nat
    BY WordFacts DEF PolyInputs
  <2>2. ASSUME NEW i \in Places
        PROVE  /\ g[i % N] % ModulusAt(i) \in 0 .. ModulusAt(i) - 1
               /\ Same(g[i % N] % ModulusAt(i), g[i % N], ModulusAt(i))
    <3>1. PICK q \in Nat \ {0}, x \in Nat : q = ModulusAt(i) /\ x = g[i % N]
      BY <2>1, PlaceModulus
    <3>2. x % q \in 0 .. q - 1 /\ Same(x % q, x, q)
      BY ResidueOf
    <3>3. QED
      BY <3>1, <3>2
  <2>3. QED
    BY <2>1, <2>2
<1>3. ASSUME NEW g \in Given
      PROVE  Denotes(FromCoeffs(g, Chain), Reduced(g)) /\ ~FromCoeffs(g, Chain).ntt
  <2> DEFINE c == [i \in Range2(N, Len(Chain)) |-> CrtDecompose(g[i % N], Chain)[i \div N + 1]]
  <2>1. ASSUME NEW i \in Places
        PROVE  c[i] = g[i % N] % ModulusAt(i)
    <3>1. i \div N + 1 \in DOMAIN Chain
      BY ChainFacts, PlaceFacts
    <3>2. QED
      BY <1>1, <3>1 DEF CrtDecompose, ModulusAt
  <2>2. FromCoeffs(g, Chain) = Poly(c, N, Chain)
    BY DEF FromCoeffs
  <2> HIDE DEF c
  <2>3. \A i \in Places : c[i] \in 0 .. ModulusAt(i) - 1 /\ Same(c[i], g[i % N], ModulusAt(i))
    BY <1>2, <2>1
  <2>4. \A j \in Idx : g[j] \in Int
    BY <1>2
  <2>5. Denotes(Poly(c, N, Chain), Reduced(g)) /\ ~Poly(c, N, Chain).ntt
    BY ONLY ChainAssumption, <2>3, <2>4, PolyDenotes
  <2>6. QED
    BY <2>2, <2>5
<1>4. ASSUME NEW g \in Given
      PROVE  Denotes(FromCrtCoeffs([i \in Range2(N, Len(Chain)) |-> g[i % N]], Chain), Reduced(g))
  <2> DEFINE f == [i \in Range2(N, Len(Chain)) |-> g[i % N]]
             c == [i \in DOMAIN f |-> f[i] % Chain[i \div N + 1]]
  <2>1. \A i \in Places : c[i] = g[i % N] % ModulusAt(i)
    BY <1>1 DEF ModulusAt
  <2>2. FromCrtCoeffs(f, Chain) = Poly(c, N, Chain)
    BY DEF FromCrtCoeffs
  <2> HIDE DEF c, f
  <2>3. \A i \in Places : c[i] \in 0 .. ModulusAt(i) - 1 /\ Same(c[i], g[i % N], ModulusAt(i))
    BY <1>2, <2>1
  <2>4. \A j \in Idx : g[j] \in Int
    BY <1>2
  <2>5. Denotes(Poly(c, N, Chain), Reduced(g))
    BY ONLY ChainAssumption, <2>3, <2>4, PolyDenotes
  <2>6. Denotes(FromCrtCoeffs(f, Chain), Reduced(g))
    BY <2>2, <2>5
  <2>7. QED
    BY <2>6 DEF f
<1>5. ASSUME NEW v \in Vectors
      PROVE  Denotes(FromSamples(v, Chain), Reduced(v))
  <2> DEFINE c == [i \in Range2(N, Len(Chain)) |-> FromSigned(v[i % N], Chain[i \div N + 1])]
  <2>1. ASSUME NEW i \in Places
        PROVE  c[i] \in 0 .. ModulusAt(i) - 1 /\ Same(c[i], v[i % N], ModulusAt(i))
    <3>1. v[i % N] \in SignedWords /\ ModulusAt(i) \in Moduli
      BY PlaceModulus DEF PolyInputs
    <3>2. /\ FromSigned(v[i % N], ModulusAt(i)) \in 0 .. ModulusAt(i) - 1
          /\ Same(FromSigned(v[i % N], ModulusAt(i)), v[i % N], ModulusAt(i))
      BY <3>1, FromSignedReduces
    <3>3. c[i] = FromSigned(v[i % N], ModulusAt(i))
      BY <1>1 DEF ModulusAt
    <3>4. QED
      BY <3>2, <3>3
  <2>2. FromSamples(v, Chain) = Poly(c, N, Chain)
    BY DEF FromSamples
  <2> HIDE DEF c
  <2>3. \A j \in Idx : v[j] \in Int
    BY DEF PolyInputs, SignedWords
  <2>4. Denotes(Poly(c, N, Chain), Reduced(v))
    BY ONLY ChainAssumption, <2>1, <2>3, PolyDenotes
  <2>5. QED
    BY <2>2, <2>4
<1>6. QED
  BY <1>3, <1>4, <1>5

\* set_coeff.
LEMMA SetDenotes ==
  ASSUME ChainAssumption, NEW p, Held(p), ~p.ntt, NEW e, Denotes(p, e),
         NEW n \in Idx, NEW k \in Nat
  PROVE  Denotes(SetCoeff(p, n, k), [e EXCEPT ![n] = k % CrtModulus(Chain)])
<1>1. PICK Q \in Nat \ {0} : Q = CrtModulus(Chain)
  BY RingModulus
<1>2. PICK z \in Nat : z = k % Q /\ z \in 0 .. Q - 1 /\ Same(z, k, Q)
  BY ResidueOf
<1>3. e \in [Idx -> 0 .. Q - 1]
  BY <1>1, ElementWords DEF Denotes
<1>4. PICK d : d = [e EXCEPT ![n] = z]
  OBVIOUS
<1>5. /\ d \in [Idx -> 0 .. Q - 1]
      /\ d[n] = z /\ \A i \in Idx : i # n => d[i] = e[i]
  BY <1>2, <1>3, <1>4
<1>6. d \in PolyRing!Elements
  BY <1>1, <1>5, ElementWords
<1> DEFINE w(i, q) == IF i % p.dim = n THEN k % q ELSE p.coeffs[i]
           c == [i \in DOMAIN p.coeffs |-> w(i, p.moduli[i \div N + 1])]
<1>7. SetCoeff(p, n, k) = [p EXCEPT !.coeffs = c]
  BY DEF WordWise, SetCoeff
<1>8. p.dim = N /\ DOMAIN p.coeffs = Places
  BY DEF Held
<1>9. \A i \in Places : c[i] = IF i % N = n THEN k % ModulusAt(i) ELSE p.coeffs[i]
  BY <1>8 DEF Held, ModulusAt
<1> HIDE DEF c
<1>10. ASSUME NEW i \in Places
       PROVE  Means(Form(p.ntt), c[i], Wanted(d, i % N, p.ntt, ModulusAt(i)), ModulusAt(i))
  <2>1. PICK q \in NttModuli, m \in 1 .. Len(Chain), j \in Idx :
          q \in Moduli /\ q = ModulusAt(i) /\ q = Chain[m] /\ j = i % N
    BY PlaceStripe
  <2>2. Form(p.ntt) = "shoup" /\ Wanted(d, j, p.ntt, q) = d[j] /\ Wanted(e, j, p.ntt, q) = e[j]
    BY DEF Form, Wanted
  <2>3. CASE j = n
    <3>1. q \in Nat \ {0} /\ q \in Nat
      BY <2>1, ModulusFacts
    <3>2. PICK x \in Nat : x = k % q /\ x \in 0 .. q - 1 /\ Same(x, k, q)
      BY <3>1, ResidueOf
    <3>3. Same(z, k, q)
      BY <1>1, <1>2, <2>1, SameInStripe
    <3>4. Same(x, z, q)
      BY ONLY <3>1, <3>2, <3>3, x \in Int, k \in Int, z \in Int, x \in Nat, k \in Nat, z \in Nat, SameChain
    <3>5. Means("shoup", x, z, q)
      BY <3>2, <3>4 DEF Means, Reads
    <3>6. c[i] = x /\ d[j] = z
      BY <1>5, <1>9, <2>1, <2>3, <3>2
    <3>7. QED
      BY <2>1, <2>2, <3>5, <3>6
  <2>4. CASE j # n
    <3>1. c[i] = p.coeffs[i] /\ d[j] = e[j]
      BY <1>5, <1>9, <2>1, <2>4
    <3>2. Means(Form(p.ntt), p.coeffs[i], Wanted(e, j, p.ntt, q), q)
      BY <2>1 DEF Denotes
    <3>3. QED
      BY <2>1, <2>2, <3>1, <3>2
  <2>5. QED
    BY <2>3, <2>4
<1>11. Denotes([p EXCEPT !.coeffs = c], d)
  BY <1>6, <1>10, DenotesWith
<1>12. QED
  BY <1>1, <1>2, <1>4, <1>7, <1>11

\* The residues of the stripes settle a number below the modulus of the ring.
LEMMA StripesSettle ==
  ASSUME ChainAssumption, NEW v \in 0 .. CrtModulus(Chain) - 1, NEW u \in 0 .. CrtModulus(Chain) - 1,
         \A m \in 1 .. Len(Chain) : v % Chain[m] = u % Chain[m]
  PROVE  v = u
<1>1. CASE Len(Chain) = 1
  <2>1. PICK q \in Nat : q = Chain[1] /\ q = CrtModulus(Chain) /\ q >= 3
    BY <1>1, RingModulus, ChainFacts
  <2>5. 1 \in 1 .. Len(Chain)
    BY <1>1
  <2>2. v \in 0 .. q - 1 /\ u \in 0 .. q - 1 /\ v % q = u % q
    BY <2>1, <2>5
  <2>3. v % q = v /\ u % q = u
    BY ONLY <2>1, <2>2, q \in Nat, ModSmall
  <2>4. QED
    BY <2>2, <2>3
<1>2. CASE Len(Chain) = 2
  <2>1. PICK p \in Nat, q \in Nat : p = Chain[1] /\ q = Chain[2] /\ p >= 2 /\ q >= 2
    BY <1>2, ChainFacts
  <2>2. PICK inv \in Int : inv = TryModInverse(p, q) /\ (p * inv) % q = 1
    BY <1>2, <2>1, TryModInverseInverts DEF ChainAssumption, ModuliAccepted
  <2>3. v \in 0 .. p * q - 1 /\ u \in 0 .. p * q - 1
    BY <1>2, <2>1, RingModulus
  <2>4. v % p = u % p /\ v % q = u % q
    BY <1>2, <2>1
  <2>5. CrtCompose(v % p, v % q, p, q, inv) = v /\ CrtCompose(u % p, u % q, p, q, inv) = u
    BY ONLY <2>1, <2>2, <2>3, p \in Nat, q \in Nat, inv \in Int, ComposeReads
  <2>6. QED
    BY <2>4, <2>5
<1>3. QED
  BY <1>1, <1>2, ChainFacts

\* And any residues of them are those of a number below it.
LEMMA StripesMeet ==
  ASSUME ChainAssumption, NEW r, \A m \in 1 .. Len(Chain) : r[m] \in 0 .. Chain[m] - 1
  PROVE  \E v \in 0 .. CrtModulus(Chain) - 1 : \A m \in 1 .. Len(Chain) : v % Chain[m] = r[m]
<1>1. CASE Len(Chain) = 1
  <2>1. PICK q \in Nat : q = Chain[1] /\ q = CrtModulus(Chain) /\ q >= 3
    BY <1>1, RingModulus, ChainFacts
  <2>6. 1 \in 1 .. Len(Chain) /\ \A m \in 1 .. Len(Chain) : m = 1
    BY <1>1
  <2>2. PICK a \in 0 .. q - 1 : a = r[1]
    BY <2>1, <2>6
  <2>3. a % q = a
    BY ONLY <2>1, q \in Nat, a \in 0 .. q - 1, ModSmall
  <2>4. \A m \in 1 .. Len(Chain) : a % Chain[m] = r[m]
    BY <2>1, <2>2, <2>3, <2>6
  <2>5. QED
    BY <2>1, <2>4
<1>2. CASE Len(Chain) = 2
  <2>1. PICK p \in Nat, q \in Nat : p = Chain[1] /\ q = Chain[2] /\ p >= 2 /\ q >= 2
    BY <1>2, ChainFacts
  <2>2. PICK inv \in Int : inv = TryModInverse(p, q) /\ (p * inv) % q = 1
    BY <1>2, <2>1, TryModInverseInverts DEF ChainAssumption, ModuliAccepted
  <2>3. PICK a \in Nat, b \in Nat : a = r[1] /\ b = r[2] /\ a \in 0 .. p - 1 /\ b \in 0 .. q - 1
    BY <1>2, <2>1
  <2>4. PICK d \in Int : d = b - a
    OBVIOUS
  <2>5. PICK s \in Int : s = d * inv
    OBVIOUS
  <2>6. q \in Nat \ {0} /\ p \in Nat \ {0}
    BY <2>1
  <2>7. PICK t \in 0 .. q - 1 : t = s % q
    BY ONLY <2>6, s \in Int, DivMod
  <2>8. PICK w \in Nat : w = p * t
    BY ONLY p \in Nat, t \in 0 .. q - 1, q \in Nat
  <2>9. PICK v \in Nat : v = w + a
    OBVIOUS
  <2>10. v \in 0 .. p * q - 1
    <3>1. PICK l \in Nat : l = p * q
      OBVIOUS
    <3>2. w + p <= l
      <4>1. PICK g \in Nat : g = q - 1 - t /\ q = t + 1 + g
        BY ONLY t \in 0 .. q - 1, q \in Nat
      <4>2. p * q = p * t + p + p * g
        BY ONLY <4>1, p \in Nat, t \in 0 .. q - 1, g \in Nat, q \in Nat
      <4>3. PICK h \in Nat : h = p * g
        OBVIOUS
      <4>4. QED
        BY ONLY <2>8, <3>1, <4>2, <4>3, w \in Nat, l \in Nat, p \in Nat, h \in Nat
    <3>3. v \in 0 .. l - 1
      BY ONLY <2>3, <2>9, <3>2, w \in Nat, l \in Nat, p \in Nat, v \in Nat, a \in Nat
    <3>4. QED
      BY <3>1, <3>3
  <2>11. v % p = a
    <3>1. v = p * t + a /\ v \in Int /\ t \in Int
      BY ONLY <2>8, <2>9, v \in Nat, t \in 0 .. q - 1, q \in Nat
    <3>2. QED
      BY ONLY <2>3, <2>6, <3>1, DivModUnique
  <2>12. v % q = b
    <3>1. Same(t, s, q)
      BY <2>6, <2>7, SameMod
    <3>2. PICK o \in Int : o = p * inv
      OBVIOUS
    <3>3. Same(1, o, q)
      <4>1. Same(o % q, o, q)
        BY <2>6, SameMod
      <4>2. QED
        BY <2>2, <3>2, <4>1
    <3>4. PICK x \in Int, y \in Int : x = p * s /\ y = d * o /\ x = y
      <4>1. p * s = d * o
        BY ONLY <2>5, <3>2, p \in Nat, d \in Int, inv \in Int, s \in Int
      <4>2. p * s \in Int
        OBVIOUS
      <4>3. QED
        BY <4>1, <4>2
    <3>5. Same(w, x, q)
      <4>1. Same(p, p, q)
        BY SameReflexive
      <4>2. t \in Int /\ p \in Int
        OBVIOUS
      <4>3. QED
        BY ONLY <2>8, <3>1, <3>4, <4>1, <4>2, q \in Nat, s \in Int, SameProduct
    <3>6. Same(d, y, q)
      <4>1. Same(d, d, q)
        BY SameReflexive
      <4>2. Same(d * 1, d * o, q)
        BY ONLY <3>3, <4>1, q \in Nat, d \in Int, o \in Int, 1 \in Int, SameProduct
      <4>3. d * 1 = d
        OBVIOUS
      <4>4. QED
        BY <3>4, <4>2, <4>3
    <3>7. Same(w, d, q)
      BY ONLY <3>4, <3>5, <3>6, q \in Nat, w \in Int, w \in Nat, d \in Int, x \in Int, y \in Int, SameChain
    <3>8. Same(v, b, q)
      <4>1. Same(a, a, q)
        BY SameReflexive
      <4>2. d + a = b /\ a \in Int /\ w \in Int
        BY <2>4
      <4>3. Same(w + a, d + a, q)
        BY ONLY <3>7, <4>1, <4>2, q \in Nat, d \in Int, SameSum
      <4>4. QED
        BY <2>9, <4>2, <4>3
    <3>9. QED
      <4>1. v % q = b % q
        BY ONLY <2>6, <3>8, v \in Int, b \in Int, v \in Nat, b \in Nat, SameRemainders
      <4>2. b % q = b
        BY ONLY <2>3, <2>6, ModSmall
      <4>3. QED
        BY <4>1, <4>2
  <2>13. \A m \in 1 .. Len(Chain) : v % Chain[m] = r[m]
    BY <1>2, <2>1, <2>3, <2>11, <2>12
  <2>14. p * q = CrtModulus(Chain)
    BY <1>2, <2>1, RingModulus
  <2>15. QED
    BY <2>10, <2>13, <2>14
<1>3. QED
  BY <1>1, <1>2, ChainFacts

\* What a polynomial of coefficients stands for is what its residues settle.
LEMMA ElementSettled ==
  ASSUME ChainAssumption, NEW c, Held(c), ~c.ntt, NEW e, Denotes(c, e)
  PROVE  ElementOf(c) = e
<1>1. PICK Q \in Nat \ {0} : Q = CrtModulus(Chain) /\ c.q = Q
  BY RingModulus DEF Held
<1>2. Limbs(c) = 1 .. Len(Chain) /\ c.moduli = Chain
  BY ChainFacts DEF Held, Limbs
<1>3. e \in PolyRing!Elements
  BY DEF Denotes
<1>4. e = [i \in Idx |-> e[i]] /\ \A i \in Idx : e[i] \in 0 .. Q - 1 /\ e[i] \in Nat
  BY <1>1, <1>3, ElementWords
<1>5. ASSUME NEW i \in Idx, NEW m \in 1 .. Len(Chain)
      PROVE  Limb(c, m)[i] % Chain[m] = e[i] % Chain[m]
  <2>1. PICK q \in NttModuli : q = Chain[m]
    BY LimbWords
  <2>2. Limb(c, m) \in Arrays(q) /\ Means(Form(c.ntt), Limb(c, m)[i], Wanted(e, i, c.ntt, q), q)
    BY <2>1, LimbWords
  <2>3. Means("shoup", Limb(c, m)[i], e[i], q)
    BY <2>2 DEF Form, Wanted
  <2>4. PICK w \in Nat, x \in Nat : w = Limb(c, m)[i] /\ x = e[i] /\ w \in 0 .. q - 1 /\ Same(w, x, q)
    BY <1>4, <2>3 DEF Means, Reads
  <2>5. q \in Nat \ {0}
    BY RootModulus, ModulusFacts
  <2>6. w % q = x % q
    BY ONLY <2>4, <2>5, w \in Int, x \in Int, w \in Nat, x \in Nat, SameRemainders
  <2>7. QED
    BY <2>1, <2>4, <2>6
<1> DEFINE residues == {<<i, m, Limb(c, m)[i] % c.moduli[m]>> : i \in Idx, m \in Limbs(c)}
           Settled(i, v) == \A r \in residues : r[1] = i => v % c.moduli[r[2]] = r[3]
<1>6. ASSUME NEW i \in Idx, NEW v
      PROVE  Settled(i, v) <=> \A m \in 1 .. Len(Chain) : v % Chain[m] = e[i] % Chain[m]
  <2>1. ASSUME Settled(i, v), NEW m \in 1 .. Len(Chain)
        PROVE  v % Chain[m] = e[i] % Chain[m]
    <3>1. PICK r : r = <<i, m, Limb(c, m)[i] % c.moduli[m]>>
      OBVIOUS
    <3>2. r \in residues
      BY <1>2, <3>1
    <3>3. r[1] = i /\ r[2] = m /\ r[3] = Limb(c, m)[i] % Chain[m]
      BY <1>2, <3>1
    <3>4. v % Chain[m] = r[3]
      BY <1>2, <2>1, <3>2, <3>3
    <3>5. QED
      BY <1>5, <3>3, <3>4
  <2>2. ASSUME \A m \in 1 .. Len(Chain) : v % Chain[m] = e[i] % Chain[m],
               NEW r \in residues, r[1] = i
        PROVE  v % c.moduli[r[2]] = r[3]
    <3>1. PICK j \in Idx, m \in 1 .. Len(Chain) : r = <<j, m, Limb(c, m)[j] % Chain[m]>>
      BY <1>2, <2>2
    <3>2. j = i /\ r[2] = m /\ r[3] = Limb(c, m)[i] % Chain[m]
      BY <2>2, <3>1
    <3>3. QED
      BY <1>2, <1>5, <2>2, <3>2
  <2>3. QED
    BY <2>1, <2>2
<1>7. ElementOf(c) = [i \in Idx |-> CHOOSE v \in 0 .. c.q - 1 : Settled(i, v)]
  BY DEF ElementOf
<1> HIDE DEF Settled
<1>8. ASSUME NEW i \in Idx
      PROVE  (CHOOSE v \in 0 .. c.q - 1 : Settled(i, v)) = e[i]
  <2>1. e[i] \in 0 .. c.q - 1 /\ Settled(i, e[i])
    BY <1>1, <1>4, <1>6
  <2>2. ASSUME NEW v \in 0 .. c.q - 1, Settled(i, v)
        PROVE  v = e[i]
    <3>1. \A m \in 1 .. Len(Chain) : v % Chain[m] = e[i] % Chain[m]
      BY <1>6, <2>2
    <3>2. v \in 0 .. CrtModulus(Chain) - 1 /\ e[i] \in 0 .. CrtModulus(Chain) - 1
      BY <1>1, <1>4
    <3>3. QED
      BY ONLY ChainAssumption, <3>1, <3>2, StripesSettle
  <2>3. QED
    BY ONLY <2>1, <2>2
<1>9. QED
  BY <1>4, <1>7, <1>8

\* Every polynomial of the chain stands for some element.
LEMMA HeldDenotes ==
  ASSUME ChainAssumption, NEW p, Held(p)
  PROVE  \E e : Denotes(p, e)
<1>1. \A m \in 1 .. Len(Chain) : Chain[m] \in NttModuli /\ Limb(p, m) \in Arrays(Chain[m])
  BY LimbReduced DEF Arrays
<1> DEFINE Of(m, a) == \A j \in Idx : Means(Form(p.ntt), Limb(p, m)[j], Wanted(a, j, p.ntt, Chain[m]), Chain[m])
<1>2. ASSUME NEW m \in 1 .. Len(Chain)
      PROVE  \E a \in Arrays(Chain[m]) : Of(m, a)
  <2>1. PICK q \in NttModuli : q = Chain[m]
    BY <1>1
  <2>2. PICK l \in Arrays(q) : l = Limb(p, m)
    BY <1>1, <2>1
  <2>3. q \in Nat /\ q >= 3
    BY RootModulus, ModulusFacts
  <2>4. CASE p.ntt
    <3>1. PICK a \in Arrays(q) : ForwardHolds("classical", l, N, a, q)
      BY TransformsCover
    <3>2. \A j \in Idx : a[j] \in Nat
      BY <2>3 DEF Arrays
    <3>3. \A j \in Idx : Means("classical", l[j], Wanted(a, j, TRUE, q), q)
      BY <3>1, <3>2, LeafWords
    <3>4. \A j \in Idx : Means(Form(p.ntt), l[j], Wanted(a, j, p.ntt, q), q)
      BY <2>4, <3>3 DEF Form, Wanted
    <3>5. QED
      BY <2>1, <2>2, <3>4
  <2>5. CASE ~p.ntt
    <3>1. \A j \in Idx : l[j] \in 0 .. q - 1 /\ l[j] \in Int
      BY <2>3 DEF Arrays
    <3>2. \A j \in Idx : Means("shoup", l[j], l[j], q)
      BY <2>3, <3>1, SameReflexive DEF Means, Reads
    <3>3. \A j \in Idx : Means(Form(p.ntt), l[j], Wanted(l, j, p.ntt, q), q)
      BY <2>5, <3>2 DEF Form, Wanted
    <3>4. QED
      BY <2>1, <2>2, <3>3
  <2>6. QED
    BY <2>4, <2>5
<1> HIDE DEF Of
<1>3. PICK s : s = [m \in 1 .. Len(Chain) |-> CHOOSE a \in Arrays(Chain[m]) : Of(m, a)]
  OBVIOUS
<1>4. \A m \in 1 .. Len(Chain) : s[m] \in Arrays(Chain[m]) /\ Of(m, s[m])
  BY <1>2, <1>3
<1>5. ASSUME NEW j \in Idx
      PROVE  \E v \in 0 .. CrtModulus(Chain) - 1 :
               \A m \in 1 .. Len(Chain) : v % Chain[m] = s[m][j]
  <2>1. PICK r : r = [m \in 1 .. Len(Chain) |-> s[m][j]]
    OBVIOUS
  <2>2. \A m \in 1 .. Len(Chain) : r[m] = s[m][j] /\ r[m] \in 0 .. Chain[m] - 1
    BY <1>4, <2>1 DEF Arrays
  <2>3. PICK v \in 0 .. CrtModulus(Chain) - 1 : \A m \in 1 .. Len(Chain) : v % Chain[m] = r[m]
    BY <2>2, StripesMeet
  <2>4. QED
    BY <2>2, <2>3
<1>6. PICK e : e = [j \in Idx |-> CHOOSE v \in 0 .. CrtModulus(Chain) - 1 :
                                    \A m \in 1 .. Len(Chain) : v % Chain[m] = s[m][j]]
  OBVIOUS
<1>7. \A j \in Idx : /\ e[j] \in 0 .. CrtModulus(Chain) - 1
                     /\ \A m \in 1 .. Len(Chain) : e[j] % Chain[m] = s[m][j]
  BY <1>5, <1>6
<1>8. e \in PolyRing!Elements
  BY <1>6, <1>7, ElementWords
<1>9. ASSUME NEW i \in Places
      PROVE  Means(Form(p.ntt), p.coeffs[i], Wanted(e, i % N, p.ntt, ModulusAt(i)), ModulusAt(i))
  <2>1. PICK m \in 1 .. Len(Chain), j \in Idx : m = i \div N + 1 /\ j = i % N
    BY PlaceFacts
  <2>2. PICK q \in NttModuli : q = Chain[m] /\ q = ModulusAt(i)
    BY <1>1, <2>1 DEF ModulusAt
  <2>3. i = (m - 1) * N + j
    <3>1. N \in Nat \ {0} /\ i \in Int
      BY Dimension DEF Places
    <3>2. i = N * (i \div N) + (i % N) /\ i \div N \in Int
      BY ONLY <3>1, DivMod
    <3>3. PICK k \in Int : k = i \div N
      BY <3>2
    <3>4. m - 1 = k /\ k * N = N * k
      BY <2>1, <3>1, <3>3
    <3>5. QED
      BY <2>1, <3>2, <3>3, <3>4
  <2>4. Limb(p, m)[j] = p.coeffs[i]
    BY <2>3 DEF Limb
  <2>5. Means(Form(p.ntt), p.coeffs[i], Wanted(s[m], j, p.ntt, q), q)
    BY <1>4, <2>2, <2>4 DEF Of
  <2>6. PICK a \in Arrays(q) : a = s[m]
    BY <1>4, <2>2
  <2>7. PICK b \in Arrays(q) : /\ b = [l \in Idx |-> e[l] % q]
                               /\ \A l \in Idx : e[l] \in Nat /\ b[l] \in Nat /\ Same(b[l], e[l], q)
    BY <1>8, StripeOf
  <2>8. ASSUME NEW l \in Idx
        PROVE  a[l] = b[l]
    BY <1>7, <2>2, <2>6, <2>7
  <2>9. \A l \in Idx : a[l] \in Nat /\ Same(a[l], e[l], q)
    BY <2>7, <2>8
  <2>10. Means(Form(p.ntt), p.coeffs[i], Wanted(a, j, p.ntt, q), q)
    BY <2>5, <2>6
  <2>11. Means(Form(p.ntt), p.coeffs[i], Wanted(e, j, p.ntt, q), q)
    BY ONLY <2>7, <2>9, <2>10, q \in NttModuli, j \in Idx, MeansCongruent
  <2>12. QED
    BY <2>1, <2>2, <2>11
<1>10. QED
  BY <1>8, <1>9 DEF Denotes

\* coeff, and what linf_norm makes of it.
LEMMA CoeffReads ==
  ASSUME ChainAssumption, NEW p, Held(p), ~p.ntt, NEW e, Denotes(p, e), NEW i \in Idx
  PROVE  Coeff(p, i) = e[i]
<1>1. PICK Q \in Nat \ {0} : Q = CrtModulus(Chain) /\ p.q = Q
  BY RingModulus DEF Held
<1>2. p.moduli = Chain /\ p.dim = N
  BY DEF Held
<1>3. PICK x \in Nat : x = e[i] /\ x \in 0 .. Q - 1
  BY <1>1, ElementWords DEF Denotes
<1>4. ASSUME NEW m \in 1 .. Len(Chain)
      PROVE  p.coeffs[(m - 1) * N + i] = x % Chain[m]
  <2>1. PICK q \in NttModuli : q = Chain[m]
    BY LimbWords
  <2>2. Means(Form(p.ntt), Limb(p, m)[i], Wanted(e, i, p.ntt, q), q)
    BY <2>1, LimbWords
  <2>3. Means("shoup", Limb(p, m)[i], x, q)
    BY <1>3, <2>2 DEF Form, Wanted
  <2>4. Limb(p, m)[i] = p.coeffs[(m - 1) * N + i]
    BY DEF Limb
  <2>5. PICK w \in 0 .. q - 1 : w = p.coeffs[(m - 1) * N + i] /\ Same(w, x, q)
    BY <2>3, <2>4 DEF Means, Reads
  <2>6. q \in Nat \ {0}
    BY RootModulus, ModulusFacts
  <2>7. w = x % q
    BY ONLY <2>5, <2>6, w \in 0 .. q - 1, x \in Int, x \in Nat, SameResidue
  <2>8. QED
    BY <2>1, <2>5, <2>7
<1>5. N \in Nat /\ i \in Nat /\ (1 - 1) * N + i = i /\ (2 - 1) * N + i = i + N
  BY Dimension DEF Idx
<1>6. CASE Len(Chain) = 1
  <2>1. 1 \in 1 .. Len(Chain) /\ Chain[1] = Q
    BY <1>1, <1>6, RingModulus
  <2>2. p.coeffs[i] = x % Q
    BY <1>4, <1>5, <2>1
  <2>3. x % Q = x
    BY ONLY <1>3, Q \in Nat \ {0}, ModSmall
  <2>4. QED
    BY <1>2, <1>3, <1>6, <2>2, <2>3 DEF Coeff
<1>7. CASE Len(Chain) = 2
  <2>1. PICK a \in Nat, b \in Nat : a = Chain[1] /\ b = Chain[2] /\ a >= 2 /\ b >= 2
    BY <1>7, ChainFacts
  <2>2. PICK inv \in Int : inv = TryModInverse(a, b) /\ (a * inv) % b = 1
    BY <1>7, <2>1, TryModInverseInverts DEF ChainAssumption, ModuliAccepted
  <2>3. x \in 0 .. a * b - 1
    BY <1>1, <1>3, <1>7, <2>1, RingModulus
  <2>4. CrtCompose(x % a, x % b, a, b, inv) = x
    BY ONLY <2>1, <2>2, <2>3, a \in Nat, b \in Nat, inv \in Int, ComposeReads
  <2>5. p.coeffs[i] = x % a /\ p.coeffs[i + N] = x % b
    <3>1. 1 \in 1 .. Len(Chain) /\ 2 \in 1 .. Len(Chain)
      BY <1>7
    <3>2. QED
      BY <1>4, <1>5, <2>1, <3>1
  <2>6. p.inv = inv
    BY <1>7, <2>1, <2>2 DEF Held
  <2>7. x % Q = x
    BY ONLY <1>3, Q \in Nat \ {0}, ModSmall
  <2>8. Coeff(p, i) = x % Q
    BY <1>1, <1>2, <1>7, <2>1, <2>4, <2>5, <2>6 DEF Coeff
  <2>9. QED
    BY <1>3, <2>7, <2>8
<1>8. QED
  BY <1>6, <1>7, ChainFacts

\* linf_norm.
LEMMA NormReads ==
  ASSUME ChainAssumption, NEW p, Held(p), ~p.ntt, NEW e, Denotes(p, e)
  PROVE  LinfNorm(p) = PolyRing!LargestSize(e)
<1>1. PICK Q \in Nat \ {0} : Q = CrtModulus(Chain) /\ p.q = Q /\ p.dim = N
  BY RingModulus DEF Held
<1>2. N \in Nat /\ N >= 1 /\ Idx = 0 .. N - 1 /\ PolyRing!Idx = Idx
  BY Dimension DEF Idx, PolyRing!Idx
<1>3. \A i \in Idx : e[i] \in 0 .. Q - 1 /\ Coeff(p, i) = e[i]
  BY <1>1, ElementWords, CoeffReads DEF Denotes
<1> DEFINE size(i) == IF Coeff(p, i) <= p.q \div 2 THEN Coeff(p, i) ELSE p.q - Coeff(p, i)
           f == [i \in Idx |-> size(i)]
           F(g) == [i \in 0 .. p.dim |->
                      IF i = 0 THEN 0 ELSE IF size(i - 1) > g[i - 1] THEN size(i - 1) ELSE g[i - 1]]
           G == [k \in 0 .. N |-> [s \in Nat |-> IF k = 0 THEN s
                                                 ELSE IF f[k - 1] > s THEN f[k - 1] ELSE s]]
<1>4. ASSUME NEW i \in Idx
      PROVE  f[i] = size(i) /\ f[i] = PolyRing!Size(e[i]) /\ f[i] \in Nat
  <2>1. PICK x \in 0 .. Q - 1 : x = e[i] /\ Coeff(p, i) = x
    BY <1>3
  <2>2. f[i] = IF x <= Q \div 2 THEN x ELSE Q - x
    BY <1>1, <2>1
  <2>3. PolyRing!Size(e[i]) = IF x <= Q \div 2 THEN x ELSE Q - x
    BY <1>1, <2>1 DEF PolyRing!Size
  <2>4. x \in Nat /\ Q - x \in Nat
    OBVIOUS
  <2>5. QED
    BY <2>2, <2>3, <2>4
<1>5. LinfNorm(p) = (CHOOSE g : g = F(g))[p.dim]
  BY Zenon DEF LinfNorm
<1> HIDE DEF f
<1>6. \A k \in 0 .. N : k # 0 => k - 1 \in Idx /\ f[k - 1] \in Nat /\ f[k - 1] = size(k - 1)
  <2>1. \A k \in 0 .. N : k # 0 => k - 1 \in Idx
    BY <1>2
  <2>2. QED
    BY <1>4, <2>1
<1> HIDE DEF size
<1>7. Recurs(Nat, N, 0, G)
  <2>1. G \in [0 .. N -> [Nat -> Nat]]
    BY <1>6
  <2> HIDE DEF G
  <2>2. QED
    BY <1>2, <2>1 DEF Recurs
<1>8. PICK y : Solves(y, Nat, N, 0, G)
  <2> HIDE DEF G
  <2>1. QED
    BY ONLY <1>7, RecursionExists, Zenon
<1>9. /\ y = [k \in 0 .. N |-> y[k]] /\ y[0] = 0
      /\ \A k \in 0 .. N : k # 0 => y[k - 1] \in Nat /\ y[k] = G[k][y[k - 1]]
  <2> HIDE DEF G
  <2>1. QED
    BY ONLY <1>7, <1>8, SolvedSteps
<1>10. y = F(y)
  <2>1. \A k \in 0 .. N : k # 0 =>
          y[k] = IF size(k - 1) > y[k - 1] THEN size(k - 1) ELSE y[k - 1]
    BY <1>6, <1>9
  <2>2. QED
    BY <1>1, <1>9, <2>1
<1> HIDE DEF G
<1>11. PICK z : z = F(z) /\ LinfNorm(p) = z[N]
  <2> HIDE DEF F
  <2>1. QED
    BY <1>1, <1>5, <1>10
<1>12. /\ z[0] = 0
       /\ \A k \in 0 .. N : k # 0 => z[k] = IF f[k - 1] > z[k - 1] THEN f[k - 1] ELSE z[k - 1]
  <2>1. z = [i \in 0 .. N |->
               IF i = 0 THEN 0 ELSE IF size(i - 1) > z[i - 1] THEN size(i - 1) ELSE z[i - 1]]
    BY <1>1, <1>11
  <2>2. z[0] = 0
    BY <1>2, <2>1
  <2>3. \A k \in 0 .. N : k # 0 =>
          z[k] = IF size(k - 1) > z[k - 1] THEN size(k - 1) ELSE z[k - 1]
    BY <2>1
  <2>4. QED
    BY <1>6, <2>2, <2>3
<1>13. /\ \A i \in 0 .. N - 1 : f[i] <= z[N]
       /\ \E i \in 0 .. N - 1 : z[N] = f[i]
  <2>1. \A i \in 0 .. N - 1 : f[i] \in Nat
    BY <1>2, <1>4
  <2>2. QED
    BY ONLY <1>2, <1>12, <2>1, GreatestOf
<1>14. PICK w : w = z[N]
  OBVIOUS
<1> DEFINE Greatest(m) == \A i \in Idx : PolyRing!Size(e[i]) <= m
           sizes == {PolyRing!Size(e[i]) : i \in Idx}
<1>15. w \in sizes /\ Greatest(w)
  BY <1>2, <1>4, <1>13, <1>14
<1>16. ASSUME NEW m \in sizes, Greatest(m)
       PROVE  m = w
  <2>1. PICK i \in Idx : m = PolyRing!Size(e[i])
    OBVIOUS
  <2>2. PICK j \in Idx : w = PolyRing!Size(e[j])
    BY <1>15
  <2>3. m \in Nat /\ w \in Nat
    BY <1>4, <2>1, <2>2
  <2>4. m <= w /\ w <= m
    BY <1>15, <1>16, <2>1, <2>2
  <2>5. QED
    BY <2>3, <2>4
<1>17. PolyRing!LargestSize(e) = CHOOSE m \in sizes : Greatest(m)
  BY <1>2 DEF PolyRing!LargestSize
<1> HIDE DEF sizes, Greatest
<1>18. PolyRing!LargestSize(e) = w
  BY ONLY <1>15, <1>16, <1>17
<1>19. QED
  BY <1>11, <1>14, <1>18
-----------------------------------------------------------------------------
(* The registers compute in the ring                                       *)

\* Every register of reduced words stands for its element.
RingInv ==
  /\ PolyInv /\ stands = [r \in Regs |-> stands[r]]
  /\ \A r \in Regs \ unreduced : Denotes(reg[r], stands[r])

\* What an operation is said to have made is what the polynomial stands for, in either domain.
LEMMA ElementRead ==
  ASSUME ChainAssumption, NEW p, Held(p), NEW e, Denotes(p, e)
  PROVE  ElementOf(FromNtt(p)) = e
BY ConversionsHeld, FromNttDenotes, ElementSettled

\* An operation that makes what stands for the ring's result is a step of the ring.
LEMMA DoImplements ==
  ASSUME ChainAssumption, RingInv, NEW r \in Regs, NEW op, NEW by, NEW arg, NEW p, NEW a, NEW c,
         c = [op |-> op, target |-> r, by |-> by, arg |-> arg],
         Held(p), Denotes(p, PolyRing!Result(c, stands)), a = PolyRing!Answer(c, stands),
         Do(op, r, by, arg, p, a)
  PROVE  RingInv' /\ PolyRing!Next
<1>1. PICK e : e = PolyRing!Result(c, stands)
  OBVIOUS
<1>2. /\ reg' = [reg EXCEPT ![r] = p] /\ stands' = [stands EXCEPT ![r] = ElementOf(FromNtt(p))]
      /\ unreduced' = unreduced \ {r} /\ asked' = c /\ answer' = a
  BY DEF Do
<1>3. stands' = [stands EXCEPT ![r] = e]
  BY <1>1, <1>2, ElementRead
<1>4. PolyInv'
  <2>1. PolyInv
    BY DEF RingInv
  <2>2. QED
    BY ONLY <2>1, r \in Regs, Held(p), Do(op, r, by, arg, p, a), OperationKeeps
<1>5. RingInv'
  <2>1. stands' = [s \in Regs |-> stands'[s]]
    BY <1>3 DEF RingInv
  <2>2. ASSUME NEW s \in Regs \ unreduced'
        PROVE  Denotes(reg[s], stands[s])'
    <3>1. CASE s = r
      <4>1. reg'[s] = p /\ stands'[s] = e
        BY <1>2, <1>3, <3>1 DEF RingInv, PolyInv
      <4>2. Denotes(reg'[s], stands'[s])
        BY <1>1, <4>1
      <4>3. QED
        BY <4>2 DEF Denotes, Wanted, ModulusAt, Means, Reads, Form, Places
    <3>2. CASE s # r
      <4>1. reg'[s] = reg[s] /\ stands'[s] = stands[s]
        BY <1>2, <1>3, <3>2 DEF RingInv, PolyInv
      <4>2. s \in Regs \ unreduced
        BY <1>2, <2>2, <3>2
      <4>3. Denotes(reg'[s], stands'[s])
        BY <4>1, <4>2 DEF RingInv
      <4>4. QED
        BY <4>3 DEF Denotes, Wanted, ModulusAt, Means, Reads, Form, Places
    <3>3. QED
      BY <3>1, <3>2
  <2>3. QED
    BY <1>4, <2>1, <2>2 DEF RingInv
<1>6. PolyRing!Next
  <2>1. asked'.target = r
    BY <1>2
  <2>2. /\ stands' = [stands EXCEPT ![asked'.target] = PolyRing!Result(asked', stands)]
        /\ answer' = PolyRing!Answer(asked', stands)
    BY <1>1, <1>2, <1>3, <2>1
  <2>3. QED
    BY <2>2 DEF PolyRing!Next
<1>7. QED
  BY <1>5, <1>6

\* What is asked of a register, by whom, and with which argument.
Asked(op, r, s, x) == [op |-> op, target |-> r, by |-> s, arg |-> x]

\* What the ring makes of each operation.
LEMMA RingResults ==
  ASSUME NEW r, NEW s, NEW x, NEW e
  PROVE  /\ PolyRing!Result(Asked("load", r, s, x), e) = x
         /\ PolyRing!Result(Asked("set", r, s, x), e) = x
         /\ PolyRing!Result(Asked("add", r, s, x), e) = PolyRing!Plus(e[r], e[s])
         /\ PolyRing!Result(Asked("sub", r, s, x), e) = PolyRing!Minus(e[r], e[s])
         /\ PolyRing!Result(Asked("negate", r, s, x), e) = PolyRing!Negated(e[r])
         /\ PolyRing!Result(Asked("scale", r, s, x), e) = PolyRing!Scaled(e[r], x)
         /\ PolyRing!Result(Asked("mul", r, s, x), e) = PolyRing!Times(e[r], e[s])
         /\ PolyRing!Result(Asked("muladd", r, s, x), e)
              = PolyRing!Plus(e[r], PolyRing!Times(e[s], e[x]))
         /\ PolyRing!Result(Asked("muladd3", r, s, x), e)
              = PolyRing!Plus(e[r], PolyRing!Scaled(PolyRing!Times(e[s], e[x]), 3))
         /\ PolyRing!Result(Asked("convert", r, s, x), e) = e[r]
         /\ PolyRing!Result(Asked("read", r, s, x), e) = e[r]
         /\ PolyRing!Result(Asked("norm", r, s, x), e) = e[r]
         /\ PolyRing!Result(Asked("refused", r, s, x), e) = e[r]
BY DEF PolyRing!Result, Asked

\* The two operations that answer.
LEMMA RingAnswers ==
  ASSUME NEW r, NEW s, NEW x, NEW e
  PROVE  /\ PolyRing!Answer(Asked("read", r, s, x), e) = e[r][x]
         /\ PolyRing!Answer(Asked("norm", r, s, x), e) = PolyRing!LargestSize(e[r])
BY DEF PolyRing!Answer, Asked

\* The others.
LEMMA RingSilent ==
  ASSUME NEW r, NEW s, NEW x, NEW e, NEW op, op # "read", op # "norm"
  PROVE  PolyRing!Answer(Asked(op, r, s, x), e) = NoAnswer
<1>1. PICK c : c = Asked(op, r, s, x)
  OBVIOUS
<1>2. c.op = op
  BY <1>1 DEF Asked
<1>3. PolyRing!Answer(c, e) = NoAnswer
  BY <1>2 DEF PolyRing!Answer, PolyRing!NoAnswer, NoAnswer
<1>4. QED
  BY <1>1, <1>3

\* An operation that returns nothing.
LEMMA MakeImplements ==
  ASSUME ChainAssumption, RingInv, NEW r \in Regs, NEW op, op # "read", op # "norm",
         NEW by, NEW arg, NEW p, Held(p),
         Denotes(p, PolyRing!Result(Asked(op, r, by, arg), stands)),
         Make(op, r, by, arg, p)
  PROVE  RingInv' /\ PolyRing!Next
<1>1. PICK c : c = Asked(op, r, by, arg)
  OBVIOUS
<1>2. PolyRing!Answer(c, stands) = NoAnswer
  BY <1>1, RingSilent
<1>3. Do(op, r, by, arg, p, NoAnswer) /\ Denotes(p, PolyRing!Result(c, stands))
  BY <1>1 DEF Make
<1>4. c = [op |-> op, target |-> r, by |-> by, arg |-> arg]
  BY <1>1 DEF Asked
<1>5. QED
  BY ONLY ChainAssumption, RingInv, r \in Regs, Held(p), <1>2, <1>3, <1>4, DoImplements

\* What leaves the registers as they are.
LEMMA RingStays ==
  ASSUME RingInv, UNCHANGED <<reg, stands, unreduced>>
  PROVE  RingInv'
<1>1. PolyInv'
  BY InvStays DEF RingInv
<1>2. QED
  BY <1>1 DEF RingInv, Denotes, Wanted, ModulusAt, Means, Reads, Form, Places

\* A refusal.
LEMMA RefusalImplements ==
  ASSUME RingInv, NEW r \in Regs, Refuse(r)
  PROVE  RingInv' /\ PolyRing!Next
<1>1. /\ UNCHANGED <<reg, stands, unreduced>> /\ answer' = NoAnswer
      /\ asked' = Asked("refused", r, r, r)
  BY DEF Refuse, Asked
<1>2. stands = [stands EXCEPT ![r] = stands[r]]
  BY DEF RingInv
<1>3. PolyRing!Result(asked', stands) = stands[r] /\ PolyRing!Answer(asked', stands) = NoAnswer
  BY <1>1, RingResults, RingSilent
<1>4. asked'.target = r
  BY <1>1 DEF Asked
<1>5. QED
  BY <1>1, <1>2, <1>3, <1>4, RingStays DEF PolyRing!Next

\* Words past their modulus are a load of nothing.
LEMMA UnreducedImplements ==
  ASSUME RingInv, NEW r \in Regs, NEW p, Shaped(p), HoldUnreduced(r, p)
  PROVE  RingInv' /\ PolyRing!Next
<1>1. /\ reg' = [reg EXCEPT ![r] = p] /\ stands' = [stands EXCEPT ![r] = Nothing]
      /\ unreduced' = unreduced \cup {r} /\ answer' = NoAnswer
      /\ asked' = Asked("load", r, r, Nothing)
  BY DEF HoldUnreduced, Asked
<1>2. PolyInv'
  BY UnreducedKeeps DEF RingInv
<1>3. RingInv'
  <2>1. stands' = [s \in Regs |-> stands'[s]]
    BY <1>1 DEF RingInv
  <2>2. ASSUME NEW s \in Regs \ unreduced'
        PROVE  Denotes(reg[s], stands[s])'
    <3>1. reg'[s] = reg[s] /\ stands'[s] = stands[s] /\ s \in Regs \ unreduced
      BY <1>1 DEF RingInv, PolyInv
    <3>2. Denotes(reg'[s], stands'[s])
      BY <3>1 DEF RingInv
    <3>3. QED
      BY <3>2 DEF Denotes, Wanted, ModulusAt, Means, Reads, Form, Places
  <2>3. QED
    BY <1>2, <2>1, <2>2 DEF RingInv
<1>4. PolyRing!Result(asked', stands) = Nothing /\ PolyRing!Answer(asked', stands) = NoAnswer
  BY <1>1, RingResults, RingSilent
<1>5. asked'.target = r
  BY <1>1 DEF Asked
<1>6. QED
  BY <1>1, <1>3, <1>4, <1>5 DEF PolyRing!Next

\* One whose assertion may fail.
LEMMA AssertingImplements ==
  ASSUME ChainAssumption, RingInv, NEW r \in Regs, NEW op, op # "read", op # "norm",
         NEW by, NEW arg, NEW p, NEW needed,
         needed => /\ Held(p)
                   /\ Denotes(p, PolyRing!Result(Asked(op, r, by, arg), stands)),
         Asserting(needed, op, r, by, arg, p)
  PROVE  RingInv' /\ PolyRing!Next
<1>1. CASE needed /\ Make(op, r, by, arg, p)
  BY <1>1, MakeImplements
<1>2. CASE Refuse(r)
  BY <1>2, RefusalImplements
<1>3. QED
  BY <1>1, <1>2 DEF Asserting

\* Loading, sampling and decoding.
LEMMA LoadingImplements ==
  ASSUME ChainAssumption, PolyInputs, RingInv, NEW r \in Regs,
         LoadPoly(r) \/ LoadStripes(r) \/ LoadVectors(r) \/ Decode(r)
  PROVE  RingInv' /\ PolyRing!Next
<1>1. ASSUME NEW p, NEW e, Held(p), Denotes(p, e), Make("load", r, r, e, p)
      PROVE  RingInv' /\ PolyRing!Next
  <2>1. PolyRing!Result(Asked("load", r, r, e), stands) = e
    BY RingResults
  <2>2. Denotes(p, PolyRing!Result(Asked("load", r, r, e), stands))
    BY <1>1, <2>1
  <2>3. "load" # "read" /\ "load" # "norm"
    OBVIOUS
  <2>4. QED
    BY ONLY ChainAssumption, RingInv, r \in Regs, <1>1, <2>2, <2>3, MakeImplements
<1>2. CASE LoadPoly(r)
  <2>1. PICK g \in Given : Make("load", r, r, Reduced(g), FromCoeffs(g, Chain))
    BY <1>2 DEF LoadPoly
  <2>2. Held(FromCoeffs(g, Chain)) /\ Denotes(FromCoeffs(g, Chain), Reduced(g))
    BY LoadsHeld, LoadsDenote
  <2>3. QED
    BY <1>1, <2>1, <2>2
<1>3. CASE LoadStripes(r)
  <2>1. PICK g \in Given :
          Make("load", r, r, Reduced(g), FromCrtCoeffs([i \in Range2(N, Len(Chain)) |-> g[i % N]], Chain))
    BY <1>3 DEF LoadStripes
  <2>2. PICK p : /\ p = FromCrtCoeffs([i \in Range2(N, Len(Chain)) |-> g[i % N]], Chain)
                 /\ Held(p) /\ Denotes(p, Reduced(g))
    BY LoadsHeld, LoadsDenote
  <2>3. QED
    BY <1>1, <2>1, <2>2
<1>4. CASE LoadVectors(r)
  <2>1. PICK s \in Vectors : Make("load", r, r, Reduced(s), FromSamples(s, Chain))
    BY <1>4 DEF LoadVectors
  <2>2. Held(FromSamples(s, Chain)) /\ Denotes(FromSamples(s, Chain), Reduced(s))
    BY LoadsHeld, LoadsDenote
  <2>3. QED
    BY <1>1, <2>1, <2>2
<1>5. CASE Decode(r)
  <2>1. PICK w \in Wires :
          \/ Fits(w) /\ Canonical(w) /\ Make("load", r, r, ElementOf(FromNtt(w)), w)
          \/ Fits(w) /\ HoldUnreduced(r, w)
          \/ Refuse(r)
    BY <1>5 DEF Decode
  <2>2. CASE Fits(w) /\ Canonical(w) /\ Make("load", r, r, ElementOf(FromNtt(w)), w)
    <3>1. Held(w)
      BY <2>2, FitsHeld
    <3>2. PICK e : Denotes(w, e)
      BY <3>1, HeldDenotes
    <3>3. ElementOf(FromNtt(w)) = e
      BY <3>1, <3>2, ElementRead
    <3>4. QED
      BY <1>1, <2>2, <3>1, <3>2, <3>3
  <2>3. CASE Fits(w) /\ HoldUnreduced(r, w)
    BY <2>3, FitsHeld, UnreducedImplements
  <2>4. CASE Refuse(r)
    BY <2>4, RefusalImplements
  <2>5. QED
    BY <2>1, <2>2, <2>3, <2>4
<1>6. QED
  BY <1>2, <1>3, <1>4, <1>5

\* What arithmetic leaves of words past their modulus.
LEMMA LeftoverImplements ==
  ASSUME PolyInputs, RingInv, NEW r \in Regs, ComputeUnreduced(r)
  PROVE  RingInv' /\ PolyRing!Next
<1>1. CASE Refuse(r)
  BY <1>1, RefusalImplements
<1>2. CASE \E words \in Leftover, ntt \in BOOLEAN :
             HoldUnreduced(r, [reg[r] EXCEPT !.coeffs = words, !.ntt = ntt])
  <2>1. PICK words \in Leftover, ntt \in BOOLEAN :
          HoldUnreduced(r, [reg[r] EXCEPT !.coeffs = words, !.ntt = ntt])
    BY <1>2
  <2>2. DOMAIN words = Places
    BY DEF PolyInputs, Range2, Places
  <2>3. Shaped([reg[r] EXCEPT !.coeffs = words, !.ntt = ntt])
    BY <2>2, ShapedWith DEF RingInv, PolyInv
  <2>4. QED
    BY <2>1, <2>3, UnreducedImplements
<1>3. QED
  BY <1>1, <1>2 DEF ComputeUnreduced

\* The operations on one register.
LEMMA UnaryImplements ==
  ASSUME ChainAssumption, PolyInputs, RingInv, NEW r \in Regs \ unreduced,
         \/ Convert(r) \/ NegatePoly(r) \/ ScalePoly(r) \/ Set(r)
         \/ Read(r) \/ Norm(r) \/ ReadRefused(r)
  PROVE  RingInv' /\ PolyRing!Next
<1>1. Held(reg[r]) /\ Denotes(reg[r], stands[r])
  BY DEF RingInv, PolyInv
<1>2. \A k \in Scalars : k \in Nat
  BY WordFacts DEF PolyInputs
<1>3. CASE Convert(r)
  <2>1. ASSUME NEW x, NEW p, Held(p), Denotes(p, stands[r]), Make("convert", r, r, x, p)
        PROVE  RingInv' /\ PolyRing!Next
    <3>1. PolyRing!Result(Asked("convert", r, r, x), stands) = stands[r]
      BY RingResults
    <3>2. Denotes(p, PolyRing!Result(Asked("convert", r, r, x), stands))
      BY <2>1, <3>1
    <3>3. QED
      BY ONLY ChainAssumption, RingInv, r \in Regs, <2>1, <3>2, MakeImplements
  <2>2. /\ Held(ToNtt(reg[r])) /\ Denotes(ToNtt(reg[r]), stands[r])
        /\ Held(FromNtt(reg[r])) /\ Denotes(FromNtt(reg[r]), stands[r])
    BY <1>1, ConversionsHeld, ToNttDenotes, FromNttDenotes
  <2>3. QED
    BY <1>3, <2>1, <2>2 DEF Convert
<1>4. CASE NegatePoly(r)
  <2>1. PICK p : p = PolyNegate(reg[r]) /\ Held(p) /\ Denotes(p, PolyRing!Negated(stands[r]))
    <3>1. 0 \in Nat
      OBVIOUS
    <3>2. QED
      BY <1>1, <3>1, WordWiseHeld, MultiplesDenote
  <2>2. PolyRing!Result(Asked("negate", r, r, r), stands) = PolyRing!Negated(stands[r])
    BY RingResults
  <2>3. Make("negate", r, r, r, p)
    BY <1>4, <2>1 DEF NegatePoly
  <2>4. Denotes(p, PolyRing!Result(Asked("negate", r, r, r), stands))
    BY <2>1, <2>2
  <2>5. QED
    BY ONLY ChainAssumption, RingInv, r \in Regs, <2>1, <2>3, <2>4, MakeImplements
<1>5. CASE ScalePoly(r)
  <2>1. PICK k \in Scalars : Make("scale", r, r, k, ScalarMul(reg[r], k))
    BY <1>5 DEF ScalePoly
  <2>2. PICK p : p = ScalarMul(reg[r], k) /\ Held(p) /\ Denotes(p, PolyRing!Scaled(stands[r], k))
    BY <1>1, <1>2, ScalarsHeld, MultiplesDenote
  <2>3. PolyRing!Result(Asked("scale", r, r, k), stands) = PolyRing!Scaled(stands[r], k)
    BY RingResults
  <2>4. Denotes(p, PolyRing!Result(Asked("scale", r, r, k), stands)) /\ Make("scale", r, r, k, p)
    BY <2>1, <2>2, <2>3
  <2>5. QED
    BY ONLY ChainAssumption, RingInv, r \in Regs, <2>2, <2>4, MakeImplements
<1>6. CASE Set(r)
  <2>1. PICK i \in Idx, k \in Scalars :
          Asserting(~reg[r].ntt, "set", r, r, [stands[r] EXCEPT ![i] = k % CrtModulus(Chain)],
                    SetCoeff(reg[r], i, k))
    BY <1>6 DEF Set
  <2>2. PICK x : x = [stands[r] EXCEPT ![i] = k % CrtModulus(Chain)]
    OBVIOUS
  <2>3. PICK p : p = SetCoeff(reg[r], i, k)
    OBVIOUS
  <2>4. ASSUME ~reg[r].ntt
        PROVE  Held(p) /\ Denotes(p, PolyRing!Result(Asked("set", r, r, x), stands))
    <3>1. Held(p) /\ Denotes(p, x)
      BY <1>1, <1>2, <2>2, <2>3, <2>4, ScalarsHeld, SetDenotes
    <3>2. PolyRing!Result(Asked("set", r, r, x), stands) = x
      BY RingResults
    <3>3. QED
      BY <3>1, <3>2
  <2>5. Asserting(~reg[r].ntt, "set", r, r, x, p)
    BY <2>1, <2>2, <2>3
  <2>6. QED
    BY ONLY ChainAssumption, RingInv, r \in Regs, <2>4, <2>5, AssertingImplements
<1>7. CASE Read(r)
  <2>1. PICK i \in Idx : ~reg[r].ntt /\ Do("read", r, r, i, reg[r], Coeff(reg[r], i))
    BY <1>7 DEF Read
  <2>2. PICK c : c = Asked("read", r, r, i) /\ c = [op |-> "read", target |-> r, by |-> r, arg |-> i]
    BY DEF Asked
  <2>3. Coeff(reg[r], i) = stands[r][i]
    BY <1>1, <2>1, CoeffReads
  <2>4. Denotes(reg[r], PolyRing!Result(c, stands)) /\ Coeff(reg[r], i) = PolyRing!Answer(c, stands)
    BY <1>1, <2>2, <2>3, RingResults, RingAnswers
  <2>5. QED
    BY ONLY ChainAssumption, RingInv, r \in Regs, <1>1, <2>1, <2>2, <2>4, DoImplements
<1>8. CASE Norm(r)
  <2>1. ~reg[r].ntt /\ Do("norm", r, r, 0, reg[r], LinfNorm(reg[r]))
    BY <1>8 DEF Norm
  <2>2. PICK c : c = Asked("norm", r, r, 0) /\ c = [op |-> "norm", target |-> r, by |-> r, arg |-> 0]
    BY DEF Asked
  <2>3. LinfNorm(reg[r]) = PolyRing!LargestSize(stands[r])
    BY <1>1, <2>1, NormReads
  <2>4. Denotes(reg[r], PolyRing!Result(c, stands)) /\ LinfNorm(reg[r]) = PolyRing!Answer(c, stands)
    BY <1>1, <2>2, <2>3, RingResults, RingAnswers
  <2>5. QED
    BY ONLY ChainAssumption, RingInv, r \in Regs, <1>1, <2>1, <2>2, <2>4, DoImplements
<1>9. CASE ReadRefused(r)
  BY <1>9, RefusalImplements DEF ReadRefused
<1>10. QED
  BY <1>3, <1>4, <1>5, <1>6, <1>7, <1>8, <1>9

\* The operations on two registers or three.
LEMMA BinaryImplements ==
  ASSUME ChainAssumption, RingInv, NEW r \in Regs \ unreduced, NEW s \in Regs \ unreduced,
         NEW t \in Regs \ unreduced,
         \/ AddPolys(r, s) \/ SubtractPolys(r, s) \/ AddInNtt(r, s)
         \/ MultiplyPolys(r, s) \/ MultiplyInNtt(r, s)
         \/ AccumulateProduct(r, s, t) \/ AccumulateThreeProducts(r, s, t)
  PROVE  RingInv' /\ PolyRing!Next
<1>1. /\ Held(reg[r]) /\ Held(reg[s]) /\ Held(reg[t])
      /\ Denotes(reg[r], stands[r]) /\ Denotes(reg[s], stands[s]) /\ Denotes(reg[t], stands[t])
  BY DEF RingInv, PolyInv
<1>2. ASSUME NEW op, op # "read", op # "norm", NEW x, NEW p, NEW needed,
             needed => /\ Held(p)
                       /\ Denotes(p, PolyRing!Result(Asked(op, r, s, x), stands)),
             Asserting(needed, op, r, s, x, p)
      PROVE  RingInv' /\ PolyRing!Next
  BY ONLY ChainAssumption, RingInv, r \in Regs, <1>2, AssertingImplements
<1>3. CASE AddPolys(r, s)
  <2>1. PICK p : p = PolyAdd(reg[r], reg[s])
    OBVIOUS
  <2>2. ASSUME reg[r].ntt = reg[s].ntt
        PROVE  Held(p) /\ Denotes(p, PolyRing!Result(Asked("add", r, s, s), stands))
    <3>1. Held(p) /\ Denotes(p, PolyRing!Plus(stands[r], stands[s]))
      BY <1>1, <2>1, <2>2, WordWiseHeld, SumsDenote
    <3>2. QED
      BY <3>1, RingResults
  <2>3. Asserting(reg[r].ntt = reg[s].ntt, "add", r, s, s, p)
    BY <1>3, <2>1 DEF AddPolys
  <2>4. QED
    BY ONLY <1>2, <2>2, <2>3
<1>4. CASE SubtractPolys(r, s)
  <2>1. PICK p : p = PolySub(reg[r], reg[s])
    OBVIOUS
  <2>2. ASSUME reg[r].ntt = reg[s].ntt
        PROVE  Held(p) /\ Denotes(p, PolyRing!Result(Asked("sub", r, s, s), stands))
    <3>1. Held(p) /\ Denotes(p, PolyRing!Minus(stands[r], stands[s]))
      BY <1>1, <2>1, <2>2, WordWiseHeld, SumsDenote
    <3>2. QED
      BY <3>1, RingResults
  <2>3. Asserting(reg[r].ntt = reg[s].ntt, "sub", r, s, s, p)
    BY <1>4, <2>1 DEF SubtractPolys
  <2>4. QED
    BY ONLY <1>2, <2>2, <2>3
<1>5. CASE AddInNtt(r, s)
  <2>1. PICK p : p = PolyAdd(reg[r], reg[s])
    OBVIOUS
  <2>2. ASSUME reg[r].ntt /\ reg[s].ntt
        PROVE  Held(p) /\ Denotes(p, PolyRing!Result(Asked("add", r, s, s), stands))
    <3>1. Held(p) /\ Denotes(p, PolyRing!Plus(stands[r], stands[s]))
      BY <1>1, <2>1, <2>2, WordWiseHeld, SumsDenote
    <3>2. QED
      BY <3>1, RingResults
  <2>3. Asserting(reg[r].ntt /\ reg[s].ntt, "add", r, s, s, p)
    BY <1>5, <2>1 DEF AddInNtt
  <2>4. QED
    BY ONLY <1>2, <2>2, <2>3
<1>6. CASE MultiplyPolys(r, s)
  <2>1. PICK p : p = MulNtt(reg[r], reg[s])
    OBVIOUS
  <2>2. Held(p) /\ Denotes(p, PolyRing!Times(stands[r], stands[s]))
    BY <1>1, <2>1, MulNttHeld, MulNttDenotes
  <2>3. Denotes(p, PolyRing!Result(Asked("mul", r, s, s), stands))
    BY <2>2, RingResults
  <2>4. Make("mul", r, s, s, p)
    BY <1>6, <2>1 DEF MultiplyPolys
  <2>5. QED
    BY ONLY ChainAssumption, RingInv, r \in Regs, <2>2, <2>3, <2>4, MakeImplements
<1>7. CASE MultiplyInNtt(r, s)
  <2>1. PICK p : p = MulNttDomain(reg[r], reg[s])
    OBVIOUS
  <2>2. ASSUME reg[r].ntt /\ reg[s].ntt
        PROVE  Held(p) /\ Denotes(p, PolyRing!Result(Asked("mul", r, s, s), stands))
    <3>1. Held(p) /\ Denotes(p, PolyRing!Times(stands[r], stands[s]))
      BY <1>1, <2>1, <2>2, WordWiseHeld, ProductDenotes
    <3>2. QED
      BY <3>1, RingResults
  <2>3. Asserting(reg[r].ntt /\ reg[s].ntt, "mul", r, s, s, p)
    BY <1>7, <2>1 DEF MultiplyInNtt
  <2>4. QED
    BY ONLY <1>2, <2>2, <2>3
<1>8. CASE AccumulateProduct(r, s, t)
  <2>1. PICK p : p = MulAccNttDomain(reg[r], reg[s], reg[t])
    OBVIOUS
  <2>2. ASSUME \A x \in {r, s, t} : reg[x].ntt
        PROVE  Held(p) /\ Denotes(p, PolyRing!Result(Asked("muladd", r, s, t), stands))
    <3>1. Held(p) /\ Denotes(p, PolyRing!Plus(stands[r], PolyRing!Times(stands[s], stands[t])))
      BY <1>1, <2>1, <2>2, MulAccHeld, AccumulationsDenote
    <3>2. QED
      BY <3>1, RingResults
  <2>3. Asserting(\A x \in {r, s, t} : reg[x].ntt, "muladd", r, s, t, p)
    BY <1>8, <2>1 DEF AccumulateProduct
  <2>4. QED
    BY ONLY <1>2, <2>2, <2>3
<1>9. CASE AccumulateThreeProducts(r, s, t)
  <2>1. PICK p : p = MulAcc3NttDomain(reg[r], reg[s], reg[t])
    OBVIOUS
  <2>2. ASSUME \A x \in {r, s, t} : reg[x].ntt
        PROVE  Held(p) /\ Denotes(p, PolyRing!Result(Asked("muladd3", r, s, t), stands))
    <3>1. Held(p) /\ Denotes(p, PolyRing!Plus(stands[r],
                                              PolyRing!Scaled(PolyRing!Times(stands[s], stands[t]), 3)))
      BY <1>1, <2>1, <2>2, MulAccHeld, AccumulationsDenote
    <3>2. QED
      BY <3>1, RingResults
  <2>3. Asserting(\A x \in {r, s, t} : reg[x].ntt, "muladd3", r, s, t, p)
    BY <1>9, <2>1 DEF AccumulateThreeProducts
  <2>4. QED
    BY ONLY <1>2, <2>2, <2>3
<1>10. QED
  BY <1>3, <1>4, <1>5, <1>6, <1>7, <1>8, <1>9

\* The registers stand for elements from the first.
LEMMA RingStarts ==
  ASSUME ChainAssumption, PolyInputs, PolyInit
  PROVE  RingInv /\ PolyRing!Init
<1>1. PolyInv
  BY InitKeeps
<1>2. ASSUME NEW r \in Regs
      PROVE  Denotes(reg[r], stands[r]) /\ stands[r] \in PolyRing!Elements
  <2>1. PICK g \in Given : reg[r] = FromCoeffs(g, Chain)
    BY DEF PolyInit
  <2>2. Held(reg[r]) /\ Denotes(reg[r], Reduced(g)) /\ ~reg[r].ntt
    BY <2>1, LoadsHeld, LoadsDenote
  <2>3. stands[r] = ElementOf(reg[r])
    BY DEF PolyInit
  <2>4. stands[r] = Reduced(g)
    BY <2>2, <2>3, ElementSettled
  <2>5. QED
    BY <2>2, <2>4 DEF Denotes
<1>3. stands = [r \in Regs |-> stands[r]]
  BY DEF PolyInit
<1>4. RingInv
  BY <1>1, <1>2, <1>3 DEF RingInv
<1>5. stands \in [Regs -> PolyRing!Elements]
  BY <1>2, <1>3
<1>6. asked.op = "none" /\ answer = PolyRing!NoAnswer
  BY DEF PolyInit, NoAnswer, PolyRing!NoAnswer
<1>7. QED
  BY <1>4, <1>5, <1>6 DEF PolyRing!Init

\* Every step is one of the ring.
LEMMA RingStep ==
  ASSUME ChainAssumption, PolyInputs, RingInv, [PolyNext]_polyVars
  PROVE  RingInv' /\ [PolyRing!Next]_<<stands, asked, answer>>
<1>1. CASE UNCHANGED polyVars
  <2>1. reg' = reg /\ stands' = stands /\ asked' = asked /\ answer' = answer
    BY <1>1 DEF polyVars
  <2>2. RingInv'
    BY <1>1, <2>1, RingStays DEF polyVars
  <2>3. QED
    BY <2>1, <2>2
<1>2. CASE Operation
  BY <1>2, LoadingImplements, LeftoverImplements, UnaryImplements, BinaryImplements
     DEF Operation, RingInv
<1>3. QED
  BY <1>1, <1>2 DEF PolyNext, Stop

\* PolynomialsImplementRing: whatever operations follow each other, on registers in whichever
\* domains, over one modulus or two, every register that no unreduced record went into since
\* it was last loaded stands for the element of the ring Z_Q[X]/(X^N + 1) that the operations
\* name, what coeff and linf_norm read of it is that
\* element's, and an operation whose assertion fails changes nothing: for every dimension, every
\* moduli that with_moduli accepts with a product of one word, and every input.
THEOREM PolynomialsAreRing ==
  ASSUME ChainAssumption, PolyInputs
  PROVE  PolySpec => PolynomialsImplementRing
<1>1. PolyInit => RingInv /\ PolyRing!Init
  BY RingStarts
<1>2. RingInv /\ [PolyNext]_polyVars => RingInv' /\ [PolyRing!Next]_<<stands, asked, answer>>
  BY RingStep
<1>3. QED
  BY <1>1, <1>2, PTL DEF PolySpec, PolynomialsImplementRing, PolyRing!Spec
-----------------------------------------------------------------------------
(* The exponents of the constants                                          *)

\* 2N and N are powers of two.
LEMMA DimensionPower ==
  \E K \in Nat : N = TwoTo(K) /\ 2 * N = TwoTo(K + 1)
<1>1. PICK K \in 1 .. Bits : N = 2 ^ K
  BY Dimension
<1>2. Bits \in Nat /\ K \in Nat
  BY WordAssumption
<1> DEFINE T == {i \in 0 .. K : 2 ^ i = TwoTo(i)}
<1>3. 0 \in T
  BY <1>2, Powers, TwoToStep
<1>4. ASSUME NEW i \in 0 .. K, i # K, i \in T
      PROVE  i + 1 \in T
  <2>1. i + 1 \in 0 .. K /\ i + 1 \in 1 .. Bits /\ (i + 1) - 1 = i /\ i \in Nat
    BY <1>2, <1>4
  <2>2. PICK p \in Nat : p = TwoTo(i) /\ 2 ^ (i + 1) = 2 * p
    BY <1>4, <2>1, Powers, TwoToStep
  <2>3. TwoTo(i + 1) = p * 2
    BY <2>1, <2>2, TwoToStep
  <2>4. QED
    BY <2>1, <2>2, <2>3
<1>5. K \in T
  <2> HIDE DEF T
  <2>1. \A i \in 0 .. K : i \in T
    BY <1>2, <1>3, <1>4, Induction
  <2>2. QED
    BY <1>2, <2>1
<1>6. TwoTo(K) \in Nat /\ TwoTo(K + 1) = TwoTo(K) * 2
  BY <1>2, TwoToStep
<1>7. QED
  BY <1>1, <1>2, <1>5, <1>6

\* X[k] is the exponent, modulo 2N, of entry k of every ladder.
HeapExponents(X) ==
  \A k \in 1 .. N - 1 :
    /\ X[k] \in 0 .. 2 * N - 1
    /\ k = HighBit(k) => X[k] = Half(k)
    /\ k # HighBit(k) => Same(X[k], X[k - LowBit(k)] + X[LowBit(k)], 2 * N)

\* The exponent of the constant of block k.
ExponentAt(X, k) == IF k = 1 THEN N ELSE IF k % 2 = 0 THEN X[k \div 2] ELSE X[k \div 2] + N

\* There are such exponents, and no modulus is needed for them.
LEMMA ExponentsExist ==
  \E X : HeapExponents(X)
<1> DEFINE n == 2 * N
           x == [k \in 1 .. N - 1 |-> N \div (2 * k)]
           m == [u \in 0 .. n - 1 |-> [v \in 0 .. n - 1 |-> (u + v) % n]]
<1>1. N \in Nat /\ N >= 2 /\ N - 1 \in Nat /\ n \in Nat \ {0} /\ Idx = 0 .. N - 1
  BY Dimension DEF Idx
<1>2. x \in [1 .. N - 1 -> 0 .. n - 1]
  <2>1. ASSUME NEW k \in 1 .. N - 1
        PROVE  N \div (2 * k) \in 0 .. n - 1
    <3>1. PICK w \in 0 .. N : w = N \div (2 * k)
      BY RungExponent
    <3>2. w \in 0 .. n - 1
      BY <1>1
    <3>3. QED
      BY <3>1, <3>2
  <2>2. QED
    BY <2>1
<1>3. \A u \in 0 .. n - 1, v \in 0 .. n - 1 : (u + v) % n \in 0 .. n - 1 /\ u + v \in Nat
  <2>1. ASSUME NEW u \in 0 .. n - 1, NEW v \in 0 .. n - 1
        PROVE  (u + v) % n \in 0 .. n - 1 /\ u + v \in Nat
    <3>1. PICK p \in Nat : p = u + v
      BY <1>1
    <3> HIDE DEF n
    <3>2. p % n \in 0 .. n - 1
      BY <1>1, ResidueOf
    <3>3. QED
      BY <3>1, <3>2
  <2>2. QED
    BY <2>1
<1>4. m \in [0 .. n - 1 -> [0 .. n - 1 -> 0 .. n - 1]]
  BY <1>3
<1>5. /\ \E y : Fills(y, x, m, n)
      /\ \A y : Fills(y, x, m, n) =>
           /\ \A k \in Idx : y[k] \in Arrays(n)
           /\ \A k \in 1 .. N - 1 : y[N - 1][k] = Rung(x, m, y[N - 1], k)
  <2> HIDE DEF n, x, m
  <2>1. QED
    BY ONLY <1>1, <1>2, <1>4, RungsFill
<1>6. PICK X \in Arrays(n) : \A k \in 1 .. N - 1 : X[k] = Rung(x, m, X, k)
  <2>1. N - 1 \in Idx
    BY <1>1
  <2> HIDE DEF n, x, m
  <2>2. QED
    BY <1>5, <2>1
<1>7. ASSUME NEW k \in 1 .. N - 1
      PROVE  /\ X[k] \in 0 .. 2 * N - 1
             /\ k = HighBit(k) => X[k] = Half(k)
             /\ k # HighBit(k) => Same(X[k], X[k - LowBit(k)] + X[LowBit(k)], 2 * N)
  <2>1. X[k] \in 0 .. n - 1 /\ X[k] = Rung(x, m, X, k)
    <3>1. k \in Idx
      BY <1>1
    <3> HIDE DEF n, x, m
    <3>2. QED
      BY ONLY <1>6, <3>1, k \in 1 .. N - 1 DEF Arrays
  <2>2. ASSUME k = HighBit(k)
        PROVE  X[k] = Half(k)
    <3>1. X[k] = x[k]
      BY ONLY <2>1, <2>2 DEF Rung
    <3>2. x[k] = N \div (2 * k)
      OBVIOUS
    <3>3. QED
      BY <2>2, <3>1, <3>2, RungExponent
  <2>3. ASSUME k # HighBit(k)
        PROVE  Same(X[k], X[k - LowBit(k)] + X[LowBit(k)], n)
    <3>1. LowBit(k) \in 1 .. k - 1 /\ k - LowBit(k) \in 1 .. k - 1
      BY ONLY k \in 1 .. N - 1, <2>3, LowBitSmaller
    <3>2. \A j \in 1 .. k - 1 : j \in Idx
      BY ONLY <1>1, k \in 1 .. N - 1
    <3>3. PICK u \in 0 .. n - 1, v \in 0 .. n - 1 : u = X[k - LowBit(k)] /\ v = X[LowBit(k)]
      BY ONLY <3>1, <3>2, X \in Arrays(n) DEF Arrays
    <3>4. X[k] = m[u][v]
      BY <2>1, <2>3, <3>3 DEF Rung
    <3>5. PICK p \in Nat : p = u + v
      BY <1>3
    <3>6. X[k] = p % n
      BY <3>4, <3>5
    <3>7. Same(p % n, p, n)
      <4> HIDE DEF n
      <4>1. QED
        BY ONLY <1>1, p \in Nat, ResidueOf
    <3>8. QED
      BY ONLY <3>3, <3>5, <3>6, <3>7
  <2>4. QED
    BY <2>1, <2>2, <2>3
<1>8. QED
  BY <1>7 DEF HeapExponents

\* The entries of a ladder are powers of the root, whatever the modulus.
LEMMA LadderPowers ==
  ASSUME NEW q \in Nat \ {0}, NEW b \in Nat, NEW L, IsLadder(L, b, q), Same(PowerOf(b, N), -1, q),
         NEW X, HeapExponents(X)
  PROVE  \A k \in 1 .. N - 1 : Same(L[k], PowerOf(b, X[k]), q)
<1> DEFINE T == {i \in 0 .. N - 1 : \A j \in 1 .. i : Same(L[j], PowerOf(b, X[j]), q)}
<1>0. N \in Nat /\ N >= 2 /\ N - 1 \in Nat /\ q \in Nat
  BY Dimension
<1>1. \A k \in 1 .. N - 1 : L[k] \in Int /\ X[k] \in Nat
  BY <1>0 DEF IsLadder, HeapExponents
<1>2. 0 \in T
  BY <1>0
<1>3. ASSUME NEW i \in 0 .. N - 1, i # N - 1, i \in T
      PROVE  i + 1 \in T
  <2>1. PICK k \in 1 .. N - 1 : k = i + 1
    BY <1>0, <1>3
  <2>2. CASE k = HighBit(k)
    <3>1. Same(L[k], PowerOf(b, Half(k)), q) /\ X[k] = Half(k)
      BY <2>2 DEF IsLadder, HeapExponents
    <3>2. Same(L[k], PowerOf(b, X[k]), q)
      BY <3>1
    <3>3. QED
      BY <1>3, <2>1, <3>2
  <2>3. CASE k # HighBit(k)
    <3>1. PICK l \in 1 .. k - 1, r \in 1 .. k - 1 : l = LowBit(k) /\ r = k - LowBit(k)
      BY <2>3, LowBitSmaller
    <3>2. l \in 1 .. N - 1 /\ r \in 1 .. N - 1 /\ l \in 1 .. i /\ r \in 1 .. i
      BY <1>0, <2>1
    <3>3. PICK x \in Nat, y \in Nat, z \in Nat : x = X[l] /\ y = X[r] /\ z = X[k]
      BY <1>1, <3>2
    <3>4. Same(L[k], L[r] * L[l], q) /\ Same(z, y + x, 2 * N)
      BY <2>3, <3>1, <3>3 DEF IsLadder, HeapExponents
    <3>5. PICK u \in Nat, v \in Nat, w \in Nat :
            u = PowerOf(b, x) /\ v = PowerOf(b, y) /\ w = PowerOf(b, z)
      BY PowerOfStep
    <3>6. Same(L[l], u, q) /\ Same(L[r], v, q)
      BY <1>3, <3>2, <3>3, <3>5
    <3>7. PICK c \in Int, d \in Int, e \in Int : c = L[k] /\ d = L[r] /\ e = L[l]
      BY <1>1, <3>2
    <3>8. Same(d * e, v * u, q) /\ d * e \in Int /\ v * u \in Int
      <4>1. Same(d, v, q) /\ Same(e, u, q) /\ u \in Int /\ v \in Int
        BY <3>6, <3>7
      <4>2. Same(d * e, v * u, q)
        BY ONLY <1>0, <4>1, d \in Int, e \in Int, SameProduct
      <4>3. QED
        BY <4>1, <4>2
    <3>9. PowerOf(b, y + x) = v * u /\ y + x \in Nat
      BY <3>5, PowerOfSum
    <3>10. Same(w, v * u, q)
      BY ONLY <1>0, <3>4, <3>5, <3>9, b \in Nat, z \in Nat, Same(PowerOf(b, N), -1, q), PowerOfPeriod
    <3>11. Same(c, v * u, q)
      BY ONLY <1>0, <3>4, <3>7, <3>8, v \in Nat, u \in Nat, c \in Int, SameTransitive
    <3>12. Same(c, w, q)
      BY ONLY <1>0, <3>8, <3>10, <3>11, c \in Int, w \in Nat, SameChain
    <3>13. Same(L[k], PowerOf(b, X[k]), q)
      BY <3>3, <3>5, <3>7, <3>12
    <3>14. QED
      BY <1>0, <1>3, <2>1, <3>13
  <2>4. QED
    BY <2>2, <2>3
<1> HIDE DEF T
<1>4. \A i \in 0 .. N - 1 : i \in T
  BY <1>0, <1>2, <1>3, Induction
<1>5. N - 1 \in T
  BY <1>0, <1>4
<1>6. QED
  BY <1>5 DEF T

\* Twice a sum, of what is half of something.
LEMMA SumDoubles ==
  ASSUME NEW q \in Nat, NEW x \in Int, NEW y \in Int, NEW z \in Int, NEW u \in Int, NEW v \in Int,
         Same(x, y + z, q), Same(2 * y, u, q), Same(2 * z, v, q)
  PROVE  Same(2 * x, u + v, q)
<1>1. PICK a \in Int, b \in Int, c \in Int : x = y + z + q * a /\ 2 * y = u + q * b /\ 2 * z = v + q * c
  BY DEF Same
<1>2. PICK d \in Int, e \in Int, f \in Int : d = q * a /\ e = q * b /\ f = q * c
  OBVIOUS
<1>3. 2 * x = (u + v) + (2 * d + e + f)
  BY ONLY <1>1, <1>2, x \in Int, y \in Int, z \in Int, u \in Int, v \in Int, d \in Int, e \in Int, f \in Int
<1>4. 2 * d + e + f = q * (2 * a + b + c)
  BY ONLY <1>2, q \in Nat, a \in Int, b \in Int, c \in Int
<1>5. 2 * a + b + c \in Int
  OBVIOUS
<1>6. QED
  BY <1>3, <1>4, <1>5 DEF Same

\* A block and the two it is split into.
LEMMA ExponentsSplit ==
  ASSUME NEW X, HeapExponents(X)
  PROVE  /\ ExponentAt(X, 1) = N
         /\ \A k \in 1 .. N - 1 : /\ ExponentAt(X, 2 * k) = X[k] /\ ExponentAt(X, 2 * k + 1) = X[k] + N
                                  /\ X[k] \in Nat
         /\ \A k \in 1 .. 2 * N - 1 : ExponentAt(X, k) \in Nat
<1>1. N \in Nat /\ N >= 2
  BY Dimension
<1>2. ASSUME NEW k \in 1 .. N - 1
      PROVE  /\ ExponentAt(X, 2 * k) = X[k] /\ ExponentAt(X, 2 * k + 1) = X[k] + N /\ X[k] \in Nat
  <2>1. /\ 2 * k # 1 /\ (2 * k) \div 2 = k /\ (2 * k) % 2 = 0
        /\ 2 * k + 1 # 1 /\ (2 * k + 1) \div 2 = k /\ (2 * k + 1) % 2 = 1
    BY <1>1
  <2>2. X[k] \in Nat
    BY <1>1 DEF HeapExponents
  <2>3. QED
    BY ONLY <2>1, <2>2 DEF ExponentAt
<1>3. ExponentAt(X, 1) = N
  BY DEF ExponentAt
<1>4. ASSUME NEW k \in 1 .. 2 * N - 1
      PROVE  ExponentAt(X, k) \in Nat
  <2>1. k \in Nat
    BY <1>1
  <2>2. PICK z \in Nat, d \in {0, 1} : k = 2 * z + d
    BY <2>1, HalfOf
  <2>3. CASE k = 1
    BY <1>1, <1>3, <2>3
  <2>4. CASE k # 1
    <3>1. z \in 1 .. N - 1
      BY <1>1, <2>2, <2>4
    <3>2. k = 2 * z \/ k = 2 * z + 1
      BY <2>2
    <3>3. X[z] \in Nat /\ X[z] + N \in Nat
      BY <1>1, <1>2, <3>1
    <3>4. QED
      BY <1>2, <3>1, <3>2, <3>3
  <2>5. QED
    BY <2>3, <2>4
<1>5. QED
  BY <1>2, <1>3, <1>4

\* Each is half of that of the block above.
LEMMA ExponentsHalve ==
  ASSUME NEW X, HeapExponents(X)
  PROVE  \A j \in 1 .. N - 1 : Same(2 * X[j], ExponentAt(X, j), 2 * N)
<1> DEFINE T == {i \in 0 .. N - 1 : \A j \in 1 .. i : Same(2 * X[j], ExponentAt(X, j), 2 * N)}
<1>0. N \in Nat /\ N >= 2 /\ N - 1 \in Nat /\ 2 * N \in Nat /\ 1 \in 1 .. N - 1
  BY Dimension
<1>1. \A k \in 1 .. N - 1 : X[k] \in Int /\ X[k] \in Nat
  BY ExponentsSplit
<1>2. 1 = HighBit(1)
  <2>1. 0 \in 0 .. Bits
    BY WordAssumption
  <2>2. 2 ^ 0 \in PowersOfTwo /\ 2 ^ 0 = 1
    BY ONLY <2>1, Powers
  <2>3. 1 \in Nat /\ 1 \in PowersOfTwo /\ 1 <= 1 /\ 1 < 2 * 1
    BY <2>2
  <2>4. QED
    BY ONLY <2>3, HighBitIs
<1>3. 2 * X[1] = N
  <2>1. N = (2 * 1) * Half(1) /\ Half(1) \in Nat
    BY ONLY <1>0, <1>2, RungExponent
  <2>2. X[1] = Half(1)
    BY <1>0, <1>2 DEF HeapExponents
  <2>3. QED
    BY <2>1, <2>2
<1>4. 0 \in T
  BY <1>0
<1>5. ASSUME NEW i \in 0 .. N - 1, i # N - 1, i \in T
      PROVE  i + 1 \in T
  <2>1. PICK j \in 1 .. N - 1 : j = i + 1
    BY <1>0, <1>5
  <2>2. \A n \in 1 .. i : Same(2 * X[n], ExponentAt(X, n), 2 * N)
    BY <1>5
  <2>3. j \in Nat /\ j >= 1
    BY <1>0
  <2>4. PICK k \in Nat, d \in {0, 1} : j = 2 * k + d
    BY <2>3, HalfOf
  <2>5. ASSUME j = 1
        PROVE  Same(2 * X[j], ExponentAt(X, j), 2 * N)
    <3>1. ExponentAt(X, 1) = N
      BY ExponentsSplit
    <3>2. Same(N, N, 2 * N)
      BY <1>0, SameReflexive
    <3>3. QED
      BY <1>3, <2>5, <3>1, <3>2
  <2>6. ASSUME j # 1, d = 0
        PROVE  Same(2 * X[j], ExponentAt(X, j), 2 * N)
    <3>1. j = 2 * k /\ k >= 1 /\ k \in 1 .. N - 1 /\ 2 * k <= N - 1 /\ k <= i
      BY <1>0, <2>1, <2>4, <2>6
    <3>2. ExponentAt(X, j) = X[k]
      BY <3>1, ExponentsSplit
    <3>3. /\ LowBit(2 * k) = 2 * LowBit(k) /\ (2 * k = HighBit(2 * k) <=> k = HighBit(k))
          /\ Half(k) = 2 * Half(2 * k) /\ Half(2 * k) \in Nat
      BY ONLY <3>1, BitsOfDouble
    <3>4. CASE k = HighBit(k)
      <4>1. X[k] = Half(k) /\ X[j] = Half(j)
        BY <3>1, <3>3, <3>4 DEF HeapExponents
      <4>2. 2 * X[j] = X[k]
        BY <3>1, <3>3, <4>1
      <4>3. Same(X[k], X[k], 2 * N)
        BY <1>0, <1>1, <3>1, SameReflexive
      <4>4. QED
        BY <3>2, <4>2, <4>3
    <3>5. CASE k # HighBit(k)
      <4>1. PICK l \in 1 .. k - 1, r \in 1 .. k - 1 : l = LowBit(k) /\ r = k - LowBit(k)
        BY <3>1, <3>5, LowBitSmaller
      <4>2. j # HighBit(j) /\ LowBit(j) = 2 * l /\ j - LowBit(j) = 2 * r
        BY <1>0, <3>1, <3>3, <3>5, <4>1
      <4>3. /\ 2 * l \in 1 .. i /\ 2 * r \in 1 .. i /\ 2 * l \in 1 .. N - 1 /\ 2 * r \in 1 .. N - 1
            /\ l \in 1 .. N - 1 /\ r \in 1 .. N - 1
        BY <1>0, <2>1, <3>1, <4>1
      <4>4. Same(2 * X[2 * l], X[l], 2 * N) /\ Same(2 * X[2 * r], X[r], 2 * N)
        <5>1. ExponentAt(X, 2 * l) = X[l] /\ ExponentAt(X, 2 * r) = X[r]
          BY <4>3, ExponentsSplit
        <5>2. QED
          BY <2>2, <4>3, <5>1
      <4>5. Same(X[j], X[2 * r] + X[2 * l], 2 * N)
        BY <4>2 DEF HeapExponents
      <4>6. Same(X[k], X[r] + X[l], 2 * N)
        BY <3>1, <3>5, <4>1 DEF HeapExponents
      <4>7. PICK a \in Int, b \in Int, c \in Int, e \in Int, x \in Int, y \in Int :
              /\ a = X[2 * l] /\ b = X[2 * r] /\ c = X[l] /\ e = X[r] /\ x = X[j] /\ y = X[k]
        BY <1>1, <3>1, <4>3
      <4>8. Same(2 * x, e + c, 2 * N)
        BY ONLY <1>0, <4>4, <4>5, <4>7, a \in Int, b \in Int, c \in Int, e \in Int, x \in Int, SumDoubles
      <4>9. Same(2 * x, y, 2 * N)
        <5>1. Same(y, e + c, 2 * N) /\ 2 * x \in Int /\ e + c \in Int
          BY <4>6, <4>7
        <5>2. QED
          BY ONLY <1>0, <4>8, <5>1, y \in Int, SameChain
      <4>10. QED
        BY <3>2, <4>7, <4>9
    <3>6. QED
      BY <3>4, <3>5
  <2>7. ASSUME j # 1, d = 1
        PROVE  Same(2 * X[j], ExponentAt(X, j), 2 * N)
    <3>1. /\ j = 2 * k + 1 /\ k >= 1 /\ k \in 1 .. N - 1 /\ 2 * k <= N - 1 /\ 2 * k + 1 <= N - 1
          /\ 2 * k \in 1 .. i /\ 2 * k \in 1 .. N - 1 /\ 1 \in 1 .. i
      BY <1>0, <2>1, <2>3, <2>4, <2>7
    <3>2. ExponentAt(X, j) = X[k] + N /\ ExponentAt(X, 2 * k) = X[k] /\ ExponentAt(X, 1) = N
      BY <3>1, ExponentsSplit
    <3>3. LowBit(j) = 1 /\ j # HighBit(j)
      BY <3>1, BitsOfDouble
    <3>4. Same(X[j], X[2 * k] + X[1], 2 * N)
      <4>1. j - LowBit(j) = 2 * k
        BY <3>1, <3>3
      <4>2. QED
        BY <3>3, <4>1 DEF HeapExponents
    <3>5. Same(2 * X[2 * k], X[k], 2 * N) /\ Same(2 * X[1], N, 2 * N)
      BY <2>2, <3>1, <3>2
    <3>6. PICK a \in Int, b \in Int, c \in Int, x \in Int : a = X[2 * k] /\ b = X[1] /\ c = X[k] /\ x = X[j]
      BY <1>0, <1>1, <3>1
    <3>7. Same(2 * x, c + N, 2 * N)
      BY ONLY <1>0, <3>4, <3>5, <3>6, a \in Int, b \in Int, c \in Int, x \in Int, N \in Int, SumDoubles
    <3>8. QED
      BY <3>2, <3>6, <3>7
  <2>8. Same(2 * X[j], ExponentAt(X, j), 2 * N)
    BY <2>4, <2>5, <2>6, <2>7
  <2>9. ASSUME NEW n \in 1 .. i + 1
         PROVE  Same(2 * X[n], ExponentAt(X, n), 2 * N)
    <3>1. n = j \/ n \in 1 .. i
      BY <1>0, <2>1
    <3>2. QED
      BY <2>2, <2>8, <3>1
  <2>10. i + 1 \in 0 .. N - 1
    BY <1>0, <1>5
  <2>11. QED
    BY <2>9, <2>10
<1> HIDE DEF T
<1>6. \A i \in 0 .. N - 1 : i \in T
  BY <1>0, <1>4, <1>5, Induction
<1>7. N - 1 \in 0 .. N - 1 /\ N - 1 \in T
  BY <1>0, <1>6
<1>8. QED
  BY <1>7 DEF T

\* The constants of the blocks are powers of the root, with these exponents.
LEMMA ConstantPowers ==
  ASSUME NEW q \in NttModuli, NEW X, HeapExponents(X), NEW k \in 1 .. 2 * N - 1
  PROVE  Psi[q] \in Nat /\ Same(PowerOf(Psi[q], N), -1, q)
         /\ Same(Constant(k, q), PowerOf(Psi[q], ExponentAt(X, k)), q)
<1>1. q \in Nat \ {0} /\ q \in Nat /\ q >= 3 /\ N \in Nat /\ N >= 2
  BY RootModulus, ModulusFacts, Dimension
<1>2. PICK psi \in 1 .. q - 1, inv \in 0 .. q - 1, nInv \in 0 .. q - 1 :
           /\ psi = Psi[q] /\ inv = StdPow(psi, q - 2, q) /\ nInv = StdPow(N, q - 2, q)
           /\ Same(PowerOf(psi, N), -1, q) /\ Same(psi * inv, 1, q) /\ Same(N * nInv, 1, q)
  BY RootFacts
<1>3. psi \in 0 .. q - 1 /\ psi \in Nat
  BY <1>1
<1>4. Context[q].psiStd = LadderStd(psi, q)
  BY <1>2 DEF Context, ContextOf
<1>5. PICK L : L = Context[q].psiStd /\ IsLadder(L, psi, q)
  BY <1>3, <1>4, LadderStdRises
<1>6. \A z \in 1 .. N - 1 : Same(L[z], PowerOf(psi, X[z]), q) /\ L[z] \in 0 .. q - 1 /\ X[z] \in Nat
  <2>1. \A z \in 1 .. N - 1 : Same(L[z], PowerOf(psi, X[z]), q)
    BY ONLY <1>1, <1>2, <1>3, <1>5, HeapExponents(X), LadderPowers
  <2>2. QED
    BY <1>5, <2>1, ExponentsSplit DEF IsLadder
<1>7. CASE k = 1
  <2>1. Constant(k, q) = q - 1 /\ ExponentAt(X, k) = N
    BY <1>7, ConstantFacts, ExponentsSplit
  <2>2. PICK p \in Nat : p = PowerOf(psi, N)
    BY <1>1, <1>3, PowerOfStep
  <2>3. Same(q - 1, -1, q)
    <3>1. q - 1 = -1 + q * 1
      BY <1>1
    <3>2. QED
      BY <3>1 DEF Same
  <2>4. Same(q - 1, p, q)
    <3>1. q - 1 \in Int /\ -1 \in Int /\ p \in Int
      BY <1>1
    <3>2. Same(p, -1, q)
      BY <1>2, <2>2
    <3>3. QED
      BY ONLY <1>1, <2>3, <3>1, <3>2, SameChain
  <2>5. QED
    BY <1>2, <1>3, <2>1, <2>2, <2>4
<1>8. CASE k # 1
  <2>1. k \in Nat
    BY <1>1
  <2>2. PICK z \in Nat, d \in {0, 1} : k = 2 * z + d
    BY <2>1, HalfOf
  <2>3. z \in 1 .. N - 1
    BY <1>1, <1>8, <2>2
  <2>4. PICK x \in Nat, w \in Int, p \in Nat, c \in Int :
          /\ x = X[z] /\ w = L[z] /\ p = PowerOf(psi, x) /\ c = Constant(k, q) /\ Same(w, p, q)
    <3>1. L[z] \in Int /\ X[z] \in Nat /\ Same(L[z], PowerOf(psi, X[z]), q)
      BY <1>1, <1>6, <2>3
    <3>2. PowerOf(psi, X[z]) \in Nat
      BY <1>3, <3>1, PowerOfStep
    <3>3. Constant(k, q) \in Int
      <4>1. Constant(k, q) \in 0 .. q - 1
        BY ConstantFacts
      <4>2. QED
        BY <1>1, <4>1
    <3>4. QED
      BY <3>1, <3>2, <3>3
  <2>5. CASE d = 0
    <3>1. ExponentAt(X, k) = x /\ c = w
      BY <1>5, <2>2, <2>3, <2>4, <2>5, ExponentsSplit, ConstantFacts
    <3>2. QED
      BY <1>2, <1>3, <2>4, <3>1
  <2>6. CASE d = 1
    <3>1. ExponentAt(X, k) = x + N /\ Same(c, -w, q)
      BY <1>5, <2>2, <2>3, <2>4, <2>6, ExponentsSplit, ConstantFacts
    <3>2. PICK r \in Nat : r = PowerOf(psi, N) /\ PowerOf(psi, x + N) = p * r
      <4>1. PICK r \in Nat : r = PowerOf(psi, N)
        BY <1>1, <1>3, PowerOfStep
      <4>2. PowerOf(psi, x + N) = PowerOf(psi, x) * PowerOf(psi, N)
        BY ONLY <1>1, <1>3, x \in Nat, PowerOfSum
      <4>3. PowerOf(psi, x + N) = p * r
        BY <2>4, <4>1, <4>2
      <4>4. QED
        BY <4>1, <4>3
    <3>3. -1 \in Int /\ w * (-1) = -w /\ p * r \in Int /\ -w \in Int
      BY <3>2
    <3>4. Same(r, -1, q) /\ Same(p, w, q)
      <4>1. Same(r, -1, q) /\ Same(w, p, q)
        BY <1>2, <2>4, <3>2
      <4>2. Same(p, w, q)
        BY ONLY <1>1, <4>1, w \in Int, p \in Nat, SameSymmetric
      <4>3. QED
        BY <4>1, <4>2
    <3>5. Same(p * r, -w, q)
      <4>1. Same(p * r, w * (-1), q)
        BY ONLY <1>1, <3>3, <3>4, p \in Nat, r \in Nat, w \in Int, SameProduct
      <4>2. QED
        BY <3>3, <4>1
    <3>6. Same(c, p * r, q)
      BY ONLY <1>1, <3>1, <3>3, <3>5, c \in Int, SameChain
    <3>7. QED
      BY <1>2, <1>3, <2>4, <3>1, <3>2, <3>6
  <2>7. QED
    BY <2>5, <2>6
<1>9. QED
  BY <1>7, <1>8

\* The exponent of a block is an odd multiple of its length.
LEMMA ExponentsOdd ==
  ASSUME NEW X, HeapExponents(X)
  PROVE  \A k \in 1 .. 2 * N - 1 : \E v \in Int : ExponentAt(X, k) = Length(k) * (2 * v + 1)
<1> DEFINE Odd(k) == \E v \in Int : ExponentAt(X, k) = Length(k) * (2 * v + 1)
           T == {i \in 0 .. 2 * N - 1 : \A k \in 1 .. i : Odd(k)}
<1>0. N \in Nat /\ N >= 2 /\ 2 * N - 1 \in Nat /\ 1 \in 1 .. N - 1
  BY Dimension
<1>1. 0 \in T
  BY <1>0
<1>2. ASSUME NEW i \in 0 .. 2 * N - 1, i # 2 * N - 1, i \in T
      PROVE  i + 1 \in T
  <2>1. PICK k \in 1 .. 2 * N - 1 : k = i + 1
    BY <1>0, <1>2
  <2>2. ASSUME k = 1
        PROVE  Odd(k)
    <3>1. PICK h, l : Level(1, h, l)
      BY <2>1, <2>2, LevelOf
    <3>2. h = 1 /\ l \in Nat /\ N = h * l /\ l = Length(1)
      BY <3>1 DEF Level
    <3>3. ExponentAt(X, 1) = Length(1) * (2 * 0 + 1)
      <4>1. l = N
        BY ONLY <3>2, <1>0
      <4>2. ExponentAt(X, 1) = N
        BY ExponentsSplit
      <4>3. N * (2 * 0 + 1) = N
        BY <1>0
      <4>4. QED
        BY ONLY <3>2, <4>1, <4>2, <4>3
    <3>4. 0 \in Int
      OBVIOUS
    <3>5. QED
      BY <2>2, <3>3, <3>4
  <2>3. ASSUME k # 1
        PROVE  Odd(k)
    <3>1. k \in Nat
      BY <1>0
    <3>2. PICK z \in Nat, d \in {0, 1} : k = 2 * z + d
      BY <3>1, HalfOf
    <3>3. z \in 1 .. N - 1 /\ z \in 1 .. i
      BY <1>0, <2>1, <2>3, <3>2
    <3>4. PICK h \in Nat, l \in Nat :
            Level(z, h, 2 * l) /\ Level(2 * z, 2 * h, l) /\ Level(2 * z + 1, 2 * h, l) /\ l >= 1
      BY <3>3, LevelBelow
    <3>5. Length(z) = 2 * l /\ Length(2 * z) = l /\ Length(2 * z + 1) = l /\ N = (2 * h) * l
      BY <3>4 DEF Level
    <3>6. PICK v \in Int : ExponentAt(X, z) = (2 * l) * (2 * v + 1)
      <4>1. Odd(z)
        BY <1>2, <3>3
      <4>2. QED
        BY <3>5, <4>1
    <3>7. PICK x \in Nat : x = X[z] /\ ExponentAt(X, 2 * z) = x /\ ExponentAt(X, 2 * z + 1) = x + N
      BY <3>3, ExponentsSplit
    <3>8. PICK t \in Int : 2 * x = (2 * l) * (2 * v + 1) + (2 * N) * t
      <4>1. Same(2 * X[z], ExponentAt(X, z), 2 * N)
        BY <3>3, ExponentsHalve
      <4>2. QED
        BY <3>6, <3>7, <4>1 DEF Same
    <3>9. PICK u \in Int, m \in Int : u = 2 * v + 1 /\ m = h * t
      BY <3>4
    <3>10. x = l * (u + 2 * m)
      <4>1. N * t = l * (2 * m)
        BY ONLY <1>0, <3>5, <3>9, h \in Nat, l \in Nat, t \in Int, m \in Int
      <4>2. (2 * N) * t = 2 * (N * t) /\ (2 * l) * u = 2 * (l * u)
        BY ONLY <1>0, l \in Nat, t \in Int, u \in Int
      <4>3. l * (u + 2 * m) = l * u + l * (2 * m)
        BY ONLY l \in Nat, m \in Int, u \in Int
      <4>4. PICK a \in Int, b \in Int : a = l * u /\ b = l * (2 * m)
        BY <3>4, <3>9
      <4>5. 2 * x = 2 * a + 2 * b
        BY ONLY <3>8, <3>9, <4>1, <4>2, <4>4
      <4>6. x = a + b
        BY ONLY <4>5, x \in Nat, a \in Int, b \in Int
      <4>7. QED
        BY ONLY <4>3, <4>4, <4>6
    <3>11. PICK y \in Int : y = v + m /\ x = l * (2 * y + 1)
      <4>1. PICK y \in Int : y = v + m
        OBVIOUS
      <4>2. u + 2 * m = 2 * y + 1
        BY ONLY <3>9, <4>1, v \in Int, m \in Int, y \in Int
      <4>3. QED
        BY <3>10, <4>1, <4>2
    <3>12. PICK w \in Int : w = y + h /\ x + N = l * (2 * w + 1)
      <4>1. PICK w \in Int : w = y + h
        OBVIOUS
      <4>2. l * (2 * w + 1) = l * (2 * y + 1) + (2 * h) * l
        BY ONLY <4>1, y \in Int, w \in Int, h \in Nat, l \in Nat
      <4>3. x + N = l * (2 * w + 1)
        BY <3>5, <3>11, <4>2
      <4>4. QED
        BY <4>1, <4>3
    <3>13. ASSUME d = 0
           PROVE  Odd(k)
      <4>1. k = 2 * z
        BY <3>2, <3>13
      <4>2. ExponentAt(X, k) = Length(k) * (2 * y + 1)
        BY <3>5, <3>7, <3>11, <4>1
      <4>3. QED
        BY ONLY <4>2, y \in Int, Zenon
    <3>14. ASSUME d = 1
           PROVE  Odd(k)
      <4>1. k = 2 * z + 1
        BY <3>2, <3>14
      <4>2. ExponentAt(X, k) = Length(k) * (2 * w + 1)
        BY <3>5, <3>7, <3>12, <4>1
      <4>3. QED
        BY ONLY <4>2, w \in Int, Zenon
    <3>15. Odd(k)
      BY <3>13, <3>14
    <3>16. QED
      BY <3>15
  <2>4. Odd(k)
    BY <2>2, <2>3
  <2> HIDE DEF Odd
  <2>5. ASSUME NEW n \in 1 .. i + 1
        PROVE  Odd(n)
    <3>1. n = k \/ n \in 1 .. i
      BY <1>0, <2>1
    <3>2. QED
      BY <1>2, <2>4, <3>1
  <2>6. i + 1 \in 0 .. 2 * N - 1
    BY <1>0, <1>2
  <2>7. QED
    BY <2>5, <2>6
<1> HIDE DEF T
<1>3. \A i \in 0 .. 2 * N - 1 : i \in T
  BY <1>0, <1>1, <1>2, Induction
<1>4. 2 * N - 1 \in T
  BY <1>0, <1>3
<1>5. QED
  BY <1>4 DEF T

\* Blocks of a level have different exponents.
LEMMA ExponentsDiffer ==
  ASSUME NEW X, HeapExponents(X)
  PROVE  \A k, m \in 1 .. 2 * N - 1 :
           HighBit(k) = HighBit(m) /\ Same(ExponentAt(X, k), ExponentAt(X, m), 2 * N) => k = m
<1> DEFINE Alone(k) == \A m \in 1 .. 2 * N - 1 :
             HighBit(k) = HighBit(m) /\ Same(ExponentAt(X, k), ExponentAt(X, m), 2 * N) => k = m
           T == {i \in 0 .. 2 * N - 1 : \A k \in 1 .. i : Alone(k)}
<1>0. N \in Nat /\ N >= 2 /\ 2 * N - 1 \in Nat /\ 2 * N \in Nat \ {0}
  BY Dimension
<1>1. 0 \in T
  BY <1>0
<1>2. ASSUME NEW i \in 0 .. 2 * N - 1, i # 2 * N - 1, i \in T
      PROVE  i + 1 \in T
  <2>1. PICK k \in 1 .. 2 * N - 1 : k = i + 1
    BY <1>0, <1>2
  <2>2. ASSUME NEW m \in 1 .. 2 * N - 1, HighBit(k) = HighBit(m),
               Same(ExponentAt(X, k), ExponentAt(X, m), 2 * N)
        PROVE  k = m
    <3>1. k \in Nat /\ m \in Nat
      BY <1>0
    <3>2. PICK h, l, g, f : Level(k, h, l) /\ Level(m, g, f)
      BY LevelOf
    <3>3. h \in Nat /\ h >= 1 /\ h <= k /\ k < 2 * h /\ h <= m /\ m < 2 * h
      BY <2>2, <3>2 DEF Level
    <3>4. CASE h = 1
      BY <3>1, <3>3, <3>4
    <3>5. CASE h # 1
      <4>1. k # 1 /\ m # 1
        BY <3>1, <3>3, <3>5
      <4>2. PICK z \in Nat, d \in {0, 1} : k = 2 * z + d
        BY <3>1, HalfOf
      <4>3. PICK y \in Nat, e \in {0, 1} : m = 2 * y + e
        BY <3>1, HalfOf
      <4>4. z \in 1 .. N - 1 /\ z \in 1 .. i /\ y \in 1 .. N - 1 /\ y \in 1 .. 2 * N - 1
        BY <1>0, <2>1, <4>1, <4>2, <4>3
      <4>5. PICK a \in Nat, b \in Nat : /\ a = HighBit(z) /\ b = HighBit(y)
                                        /\ HighBit(k) = 2 * a /\ HighBit(m) = 2 * b
        <5>1. \E a \in Nat : a = HighBit(z) /\ HighBit(2 * z) = 2 * a /\ HighBit(2 * z + 1) = 2 * a
          <6>1. PICK a, l2, e2 : /\ Level(z, a, 2 * l2) /\ Level(2 * z, 2 * a, l2)
                                 /\ Level(2 * z + 1, 2 * a, l2) /\ a \in Nat
            BY <4>4, LevelBelow
          <6>2. QED
            BY <6>1 DEF Level
        <5>2. \E b \in Nat : b = HighBit(y) /\ HighBit(2 * y) = 2 * b /\ HighBit(2 * y + 1) = 2 * b
          <6>1. PICK a, l2, e2 : /\ Level(y, a, 2 * l2) /\ Level(2 * y, 2 * a, l2)
                                 /\ Level(2 * y + 1, 2 * a, l2) /\ a \in Nat
            BY <4>4, LevelBelow
          <6>2. QED
            BY <6>1 DEF Level
        <5>3. (k = 2 * z \/ k = 2 * z + 1) /\ (m = 2 * y \/ m = 2 * y + 1)
          BY <4>2, <4>3
        <5>4. QED
          BY <5>1, <5>2, <5>3
      <4>6. HighBit(z) = HighBit(y)
        <5>1. 2 * a = 2 * b
          BY <2>2, <4>5
        <5>2. a = b
          BY ONLY <5>1, a \in Nat, b \in Nat
        <5>3. QED
          BY <4>5, <5>2
      <4>7. PICK x \in Nat, w \in Nat : x = X[z] /\ w = X[y]
        BY <4>4, ExponentsSplit
      <4>8. ExponentAt(X, k) = x + d * N /\ ExponentAt(X, m) = w + e * N
        <5>1. /\ ExponentAt(X, 2 * z) = x /\ ExponentAt(X, 2 * z + 1) = x + N
              /\ ExponentAt(X, 2 * y) = w /\ ExponentAt(X, 2 * y + 1) = w + N
          BY <4>4, <4>7, ExponentsSplit
        <5>2. 0 * N = 0 /\ 1 * N = N /\ x + 0 = x /\ w + 0 = w
          BY <1>0
        <5>3. CASE d = 0
          <6>1. ExponentAt(X, k) = x + d * N
            BY <4>2, <5>1, <5>2, <5>3
          <6>2. QED
            BY <4>3, <5>1, <5>2, <6>1
        <5>4. CASE d = 1
          <6>1. ExponentAt(X, k) = x + d * N
            BY <4>2, <5>1, <5>2, <5>4
          <6>2. QED
            BY <4>3, <5>1, <5>2, <6>1
        <5>5. QED
          BY <5>3, <5>4
      <4>9. PICK t \in Int : x + d * N = (w + e * N) + (2 * N) * t
        BY <2>2, <4>8 DEF Same
      <4>10. Same(2 * x, 2 * w, 2 * N)
        <5>1. PICK s \in Int : s = (d - e) - 2 * t
          OBVIOUS
        <5>2. PICK dn \in Int, en \in Int, tn \in Int : dn = d * N /\ en = e * N /\ tn = N * t
          BY <1>0
        <5>3. (2 * N) * t = 2 * tn /\ (2 * N) * s = 2 * (dn - en) - 4 * tn
          BY ONLY <1>0, <5>1, <5>2, t \in Int, s \in Int, d \in {0, 1}, e \in {0, 1}, dn \in Int, en \in Int, tn \in Int
        <5>4. PICK sn \in Int, rn \in Int : sn = (2 * N) * (-s) /\ rn = (2 * N) * s /\ sn = -rn
          BY ONLY <1>0, s \in Int
        <5>5. x + dn = (w + en) + 2 * tn /\ rn = 2 * (dn - en) - 4 * tn
          BY <4>9, <5>2, <5>3, <5>4
        <5>6. 2 * x = 2 * w + sn
          BY ONLY <5>4, <5>5, x \in Nat, w \in Nat, dn \in Int, en \in Int, tn \in Int, sn \in Int, rn \in Int
        <5>7. -s \in Int
          OBVIOUS
        <5>8. QED
          BY <5>4, <5>6, <5>7 DEF Same
      <4>11. Same(ExponentAt(X, z), ExponentAt(X, y), 2 * N)
        <5>1. Same(2 * x, ExponentAt(X, z), 2 * N) /\ Same(2 * w, ExponentAt(X, y), 2 * N)
          BY <4>4, <4>7, ExponentsHalve
        <5>2. z \in 1 .. 2 * N - 1
          BY <1>0, <4>4
        <5>3. PICK p \in Int, r \in Int : p = ExponentAt(X, z) /\ r = ExponentAt(X, y)
          BY <4>4, <5>2, ExponentsSplit
        <5>4. 2 * x \in Int /\ 2 * w \in Int /\ 2 * N \in Nat
          BY <1>0
        <5>5. Same(p, 2 * x, 2 * N)
          BY ONLY <5>1, <5>3, <5>4, p \in Int, SameSymmetric
        <5>6. Same(p, 2 * w, 2 * N)
          BY ONLY <4>10, <5>4, <5>5, p \in Int, SameTransitive
        <5>7. Same(p, r, 2 * N)
          BY ONLY <5>1, <5>3, <5>4, <5>6, p \in Int, r \in Int, SameTransitive
        <5>8. QED
          BY <5>3, <5>7
      <4>12. z = y
        <5>1. Alone(z)
          BY <1>2, <4>4
        <5>2. QED
          BY ONLY <4>4, <4>6, <4>11, <5>1
      <4>13. d = e
        <5>1. x = w
          BY <4>7, <4>12
        <5>2. PICK c \in Int : c = (d - e) - 2 * t
          OBVIOUS
        <5>3. N * c = 0
          <6>1. d * N = (e * N) + (2 * N) * t
            BY ONLY <1>0, <4>9, <5>1, x \in Nat, w \in Nat, d \in {0, 1}, e \in {0, 1}, t \in Int
          <6>2. N * c = d * N - ((e * N) + (2 * N) * t)
            BY ONLY <1>0, <5>2, c \in Int, d \in {0, 1}, e \in {0, 1}, t \in Int
          <6>3. d * N \in Int
            BY <1>0
          <6>4. QED
            BY <6>1, <6>2, <6>3
        <5>4. c = 0
          BY ONLY <1>0, <5>3, c \in Int
        <5>5. QED
          BY ONLY <5>2, <5>4, d \in {0, 1}, e \in {0, 1}, t \in Int
      <4>14. QED
        BY <4>2, <4>3, <4>12, <4>13
    <3>6. QED
      BY <3>4, <3>5
  <2>3. Alone(k)
    BY <2>2
  <2> HIDE DEF Alone
  <2>4. ASSUME NEW n \in 1 .. i + 1
        PROVE  Alone(n)
    <3>1. n = k \/ n \in 1 .. i
      BY <1>0, <2>1
    <3>2. QED
      BY <1>2, <2>3, <3>1
  <2>5. i + 1 \in 0 .. 2 * N - 1
    BY <1>0, <1>2
  <2>6. QED
    BY <2>4, <2>5
<1> HIDE DEF T
<1>3. \A i \in 0 .. 2 * N - 1 : i \in T
  BY <1>0, <1>1, <1>2, Induction
<1>4. 2 * N - 1 \in T
  BY <1>0, <1>3
<1>5. QED
  BY <1>4 DEF T

\* The exponents of the single words are odd, and no two are the same.
LEMMA LeafExponents ==
  ASSUME NEW X, HeapExponents(X)
  PROVE  /\ \A i \in Idx : /\ ExponentAt(X, N + i) \in Nat
                           /\ \E v \in Nat : ExponentAt(X, N + i) = 2 * v + 1
         /\ \A i, j \in Idx : Same(ExponentAt(X, N + i), ExponentAt(X, N + j), 2 * N) => i = j
<1>1. N \in Nat /\ N >= 2 /\ Idx = 0 .. N - 1
  BY Dimension DEF Idx
<1>2. \A i \in Idx : N + i \in N .. 2 * N - 1 /\ N + i \in 1 .. 2 * N - 1 /\ i \in Nat
  BY <1>1
<1>3. ASSUME NEW i \in Idx
      PROVE  ExponentAt(X, N + i) \in Nat /\ \E v \in Nat : ExponentAt(X, N + i) = 2 * v + 1
  <2>1. PICK k \in N .. 2 * N - 1 : k = N + i /\ k \in 1 .. 2 * N - 1 /\ Length(k) = 1
    BY <1>2, LeafLevel
  <2>2. PICK x \in Nat : x = ExponentAt(X, k)
    BY <2>1, ExponentsSplit
  <2>3. PICK v \in Int : x = 1 * (2 * v + 1)
    BY <2>1, <2>2, ExponentsOdd
  <2>4. v \in Nat /\ x = 2 * v + 1
    BY ONLY <2>3, x \in Nat, v \in Int
  <2>5. QED
    BY <2>1, <2>2, <2>4
<1>4. ASSUME NEW i \in Idx, NEW j \in Idx, Same(ExponentAt(X, N + i), ExponentAt(X, N + j), 2 * N)
      PROVE  i = j
  <2>1. PICK k \in 1 .. 2 * N - 1, m \in 1 .. 2 * N - 1 :
          k = N + i /\ m = N + j /\ HighBit(k) = N /\ HighBit(m) = N
    BY <1>2, LeafLevel
  <2>2. k = m
    BY <1>4, <2>1, ExponentsDiffer
  <2>3. QED
    BY <1>1, <1>2, <2>1, <2>2
<1>5. QED
  BY <1>3, <1>4

\* Each odd exponent is that of a word.
LEMMA OddReached ==
  ASSUME NEW X, HeapExponents(X), NEW w \in Nat
  PROVE  \E i \in Idx : Same(ExponentAt(X, N + i), 2 * w + 1, 2 * N)
<1>1. N \in Nat /\ N >= 2 /\ Idx = 0 .. N - 1 /\ N \in Nat \ {0}
  BY Dimension DEF Idx
<1> DEFINE v(i) == CHOOSE v \in Nat : ExponentAt(X, N + i) = 2 * v + 1
           f == [i \in 0 .. N - 1 |-> v(i) % N]
<1>2. \A i \in Idx : v(i) \in Nat /\ ExponentAt(X, N + i) = 2 * v(i) + 1
  BY LeafExponents
<1> HIDE DEF v
<1>3. \A i \in Idx : v(i) % N \in 0 .. N - 1 /\ Same(v(i) % N, v(i), N)
  BY ONLY <1>1, <1>2, ResidueOf
<1>4. f \in [0 .. N - 1 -> 0 .. N - 1]
  BY <1>1, <1>3
<1>5. ASSUME NEW x \in Nat, NEW y \in Nat, Same(x, y, N)
      PROVE  Same(2 * x + 1, 2 * y + 1, 2 * N)
  <2>1. PICK t \in Int : x = y + N * t
    BY <1>5 DEF Same
  <2>2. (2 * N) * t = 2 * (N * t) /\ N * t \in Int
    BY <1>1
  <2>3. 2 * x + 1 = 2 * y + 1 + (2 * N) * t
    BY <2>1, <2>2
  <2>4. QED
    BY <2>3 DEF Same
<1>6. ASSUME NEW i \in 0 .. N - 1, NEW j \in 0 .. N - 1, f[i] = f[j]
      PROVE  i = j
  <2>0. i \in Idx /\ j \in Idx
    BY <1>1
  <2>1. PICK x \in Nat, y \in Nat, r \in Nat : x = v(i) /\ y = v(j) /\ r = v(i) % N
    <3>1. v(i) \in Nat /\ v(j) \in Nat
      BY <1>2, <2>0
    <3>2. v(i) % N \in 0 .. N - 1
      BY <1>3, <2>0
    <3>3. v(i) % N \in Nat
      BY ONLY <1>1, <3>2
    <3>4. QED
      BY <3>1, <3>3
  <2>2. i \in Idx /\ j \in Idx /\ Same(r, x, N) /\ Same(r, y, N)
    BY <1>1, <1>3, <1>6, <2>1
  <2>3. Same(x, r, N)
    BY ONLY <1>1, <2>2, x \in Nat, r \in Nat, SameSymmetric
  <2>4. Same(x, y, N)
    BY ONLY <1>1, <2>2, <2>3, x \in Nat, y \in Nat, r \in Nat, SameTransitive
  <2>5. Same(2 * x + 1, 2 * y + 1, 2 * N)
    BY <1>5, <2>4
  <2>6. QED
    BY <1>2, <2>1, <2>2, <2>5, LeafExponents
<1> HIDE DEF f
<1>7. \A j \in 0 .. N - 1 : \E i \in 0 .. N - 1 : f[i] = j
  BY ONLY <1>1, <1>4, <1>6, InjectionCovers
<1>8. PICK s \in Nat : s \in 0 .. N - 1 /\ s = w % N /\ Same(s, w, N)
  BY ONLY <1>1, w \in Nat, ResidueOf
<1>9. PICK i \in Idx, x \in Nat : x = v(i) /\ s = x % N
  <2>1. PICK i \in 0 .. N - 1 : f[i] = s
    BY <1>7, <1>8
  <2>2. i \in Idx /\ s = v(i) % N /\ v(i) \in Nat
    BY <1>1, <1>2, <2>1 DEF f
  <2>3. QED
    BY <2>2
<1>10. Same(s, x, N)
  BY <1>3, <1>9
<1>11. Same(x, s, N)
  BY ONLY <1>1, <1>10, s \in Nat, x \in Nat, SameSymmetric
<1>12. Same(x, w, N)
  BY ONLY <1>1, <1>8, <1>11, x \in Nat, w \in Nat, SameTransitive
<1>13. Same(2 * x + 1, 2 * w + 1, 2 * N)
  BY <1>5, <1>12
<1>14. QED
  BY <1>2, <1>9, <1>13

\* Where the exponent of word i, times e, is found.
Turn(X, e) ==
  [i \in Idx |-> CHOOSE j \in Idx : Same(ExponentAt(X, N + j), e * ExponentAt(X, N + i), 2 * N)]

\* Multiplication by an odd number permutes the exponents.
LEMMA TurnPermutes ==
  ASSUME NEW X, HeapExponents(X), NEW e \in Nat, e % 2 = 1
  PROVE  /\ Turn(X, e) \in [Idx -> Idx]
         /\ \A i \in Idx : Same(ExponentAt(X, N + Turn(X, e)[i]), e * ExponentAt(X, N + i), 2 * N)
         /\ \A i, j \in Idx : Turn(X, e)[i] = Turn(X, e)[j] => i = j
         /\ \A j \in Idx : \E i \in Idx : Turn(X, e)[i] = j
         /\ e = 1 => \A i \in Idx : Turn(X, e)[i] = i
<1>1. N \in Nat /\ N >= 2 /\ Idx = 0 .. N - 1 /\ 2 * N \in Nat
  BY Dimension DEF Idx
<1>2. PICK K \in Nat : 2 * N = TwoTo(K)
  <2>1. PICK K \in Nat : 2 * N = TwoTo(K + 1)
    BY DimensionPower
  <2>2. K + 1 \in Nat
    OBVIOUS
  <2>3. QED
    BY <2>1, <2>2
<1>3. PICK a \in Nat : e = 2 * a + 1
  <2>1. PICK z \in Nat, d \in {0, 1} : d = e % 2 /\ e = 2 * z + d
    BY HalfOf
  <2>2. QED
    BY <2>1
<1> DEFINE E(i) == ExponentAt(X, N + i)
           s == Turn(X, e)
<1>4. \A i \in Idx : E(i) \in Nat /\ e * E(i) \in Nat
  <2>1. \A i \in Idx : E(i) \in Nat
    BY LeafExponents
  <2> HIDE DEF E
  <2>2. QED
    BY <2>1
<1>5. ASSUME NEW i \in Idx
      PROVE  s[i] \in Idx /\ Same(E(s[i]), e * E(i), 2 * N)
  <2>1. PICK v \in Nat : E(i) = 2 * v + 1
    BY LeafExponents
  <2>2. PICK w \in Nat : w = 2 * (a * v) + a + v
    OBVIOUS
  <2>3. e * E(i) = 2 * w + 1
    <3>1. (2 * a + 1) * (2 * v + 1) = 2 * (2 * (a * v) + a + v) + 1
      BY ONLY a \in Nat, v \in Nat
    <3>2. QED
      BY ONLY <1>3, <2>1, <2>2, <3>1
  <2>4. \E j \in Idx : Same(E(j), e * E(i), 2 * N)
    BY <2>3, OddReached
  <2>5. s[i] = CHOOSE j \in Idx : Same(E(j), e * E(i), 2 * N)
    BY DEF Turn
  <2> HIDE DEF E, s
  <2>6. QED
    BY ONLY <2>4, <2>5
<1>6. s \in [Idx -> Idx]
  <2>1. s = [i \in Idx |-> s[i]]
    BY DEF Turn
  <2> HIDE DEF s
  <2>2. QED
    BY ONLY <1>5, <2>1
<1>7. ASSUME NEW i \in Idx, NEW j \in Idx, s[i] = s[j]
      PROVE  i = j
  <2>1. PICK x \in Nat, y \in Nat, z \in Nat : x = E(i) /\ y = E(j) /\ z = E(s[i])
    BY <1>4, <1>5
  <2>2. Same(z, e * x, 2 * N) /\ Same(z, e * y, 2 * N)
    BY <1>5, <1>7, <2>1
  <2>3. PICK t \in Int, u \in Int : z = e * x + (2 * N) * t /\ z = e * y + (2 * N) * u
    BY <2>2 DEF Same
  <2>4. e * (x - y) = (2 * N) * (u - t) /\ x - y \in Int /\ u - t \in Int
    BY ONLY <1>1, <2>3, e \in Nat, x \in Nat, y \in Nat, z \in Nat, t \in Int, u \in Int
  <2>5. PICK r \in Int : x - y = TwoTo(K) * r
    BY <1>2, <2>4, OddCancels
  <2>6. Same(x, y, 2 * N)
    <3>1. PICK c \in Int : c = (2 * N) * r
      BY <1>1
    <3>2. x = y + (2 * N) * r
      BY <1>2, <2>5, <3>1
    <3>3. QED
      BY <3>2 DEF Same
  <2>7. QED
    BY <2>1, <2>6, LeafExponents
<1>8. \A j \in Idx : \E i \in Idx : s[i] = j
  <2> HIDE DEF s
  <2>1. s \in [0 .. N - 1 -> 0 .. N - 1] /\ \A i, j \in 0 .. N - 1 : s[i] = s[j] => i = j
    BY ONLY <1>1, <1>6, <1>7
  <2>2. \A j \in 0 .. N - 1 : \E i \in 0 .. N - 1 : s[i] = j
    BY ONLY <1>1, <2>1, InjectionCovers
  <2>3. QED
    BY ONLY <1>1, <2>2
<1>9. ASSUME e = 1, NEW i \in Idx
      PROVE  s[i] = i
  <2>1. PICK x \in Nat : x = E(i)
    BY <1>4
  <2>2. e * x = x
    BY <1>9
  <2>3. Same(E(s[i]), E(i), 2 * N) /\ s[i] \in Idx
    BY <1>5, <2>1, <2>2
  <2> HIDE DEF s
  <2>4. QED
    BY <2>3, LeafExponents
<1>10. QED
  BY <1>5, <1>6, <1>7, <1>8, <1>9
-----------------------------------------------------------------------------
(* Values of images under automorphisms                                    *)

\* Coefficient j of a, as the automorphism moves it, has the value of its power.
LEMMA TermTurns ==
  ASSUME NEW q \in NttModuli, NEW x \in 0 .. q - 1, NEW c \in Nat, Same(PowerOf(c, N), -1, q),
         NEW d \in Nat, NEW e \in Nat, Same(d, PowerOf(c, e), q), NEW j \in Nat,
         NEW w \in Nat, NEW p \in Nat, j * e = N * w + p
  PROVE  Same((IF w % 2 = 0 THEN x ELSE NegMod(x, q)) * PowerOf(c, p), x * PowerOf(d, j), q)
<1>1. q \in Nat /\ N \in Nat /\ x \in Nat /\ q >= 3 /\ x < q
  BY RootModulus, ModulusFacts, Dimension
<1>2. PICK u \in Int : u = (IF w % 2 = 0 THEN 1 ELSE -1)
  OBVIOUS
<1>3. PICK r \in Nat, s \in Nat, t \in Nat, v \in Nat :
        r = PowerOf(c, N * w) /\ s = PowerOf(c, p) /\ t = PowerOf(d, j) /\ v = PowerOf(c, e)
  <2>1. N * w \in Nat
    BY <1>1
  <2>2. QED
    BY <2>1, PowerOfStep
<1>4. Same(r, u, q)
  <2>1. Same(PowerOf(c, N * w), IF w % 2 = 0 THEN 1 ELSE -1, q)
    BY <1>1, PowerOfTurn
  <2>2. QED
    BY <1>2, <1>3, <2>1
<1>5. Same(t, r * s, q)
  <2>1. Same(t, PowerOf(v, j), q)
    BY <1>1, <1>3, PowerSame
  <2>2. PowerOf(v, j) = PowerOf(c, e * j)
    BY <1>3, PowerOfPower
  <2>3. PICK n \in Nat : n = N * w /\ e * j = n + p
    <3>1. e * j = j * e /\ N * w \in Nat
      BY <1>1
    <3>2. QED
      BY <3>1
  <2>4. PowerOf(c, n + p) = r * s
    BY <1>3, <2>3, PowerOfSum
  <2>5. QED
    BY <2>1, <2>2, <2>3, <2>4
<1>6. Same(s, s, q)
  BY <1>1, SameReflexive
<1>7. r * s \in Int /\ u * s \in Int
  OBVIOUS
<1>8. Same(t, u * s, q)
  <2>1. Same(r * s, u * s, q)
    BY ONLY <1>1, <1>4, <1>6, r \in Nat, s \in Nat, u \in Int, SameProduct
  <2>2. QED
    BY ONLY <1>1, <1>5, <1>7, <2>1, t \in Nat, SameTransitive
<1>9. PICK m \in Int : m = (IF w % 2 = 0 THEN x ELSE NegMod(x, q)) /\ Same(m, x * u, q)
  <2>1. CASE w % 2 = 0
    <3>1. x * u = x
      BY <1>1, <1>2, <2>1
    <3>2. Same(x, x, q)
      BY <1>1, SameReflexive
    <3>3. QED
      BY <1>1, <2>1, <3>1, <3>2
  <2>2. CASE w % 2 # 0
    <3>1. x * u = -x
      BY <1>1, <1>2, <2>2
    <3>2. NegMod(x, q) = -x + q * (IF x = 0 THEN 0 ELSE 1) /\ NegMod(x, q) \in Int
      BY <1>1 DEF NegMod
    <3>3. Same(NegMod(x, q), -x, q)
      BY <3>2 DEF Same
    <3>4. QED
      BY <2>2, <3>1, <3>2, <3>3
  <2>3. QED
    BY <2>1, <2>2
<1>10. Same(m * s, (x * u) * s, q)
  <2>1. x * u \in Int
    BY <1>1
  <2>2. QED
    BY ONLY <1>1, <1>6, <1>9, <2>1, m \in Int, s \in Nat, SameProduct
<1>11. Same(x * t, x * (u * s), q)
  <2>1. Same(x, x, q)
    BY <1>1, SameReflexive
  <2>2. QED
    BY ONLY <1>1, <1>7, <1>8, <2>1, t \in Nat, SameProduct
<1>12. (x * u) * s = x * (u * s)
  BY ONLY <1>1, u \in Int, s \in Nat
<1>13. Same(m * s, x * t, q)
  <2>1. PICK y \in Int : y = x * (u * s)
    BY <1>1, <1>7
  <2>2. m * s \in Int /\ x * t \in Int
    BY <1>1
  <2>3. Same(m * s, y, q) /\ Same(x * t, y, q)
    BY <1>10, <1>11, <1>12, <2>1
  <2>4. QED
    BY ONLY <1>1, <2>2, <2>3, y \in Int, SameChain
<1>14. QED
  BY <1>3, <1>9, <1>13

\* p takes the coefficients of a to places of their own in its image.
Moves(p, a, e, q) ==
  /\ p \in [Idx -> Idx]
  /\ \A i, j \in Idx : p[i] = p[j] => i = j
  /\ \A j \in Idx : \E i \in Idx : p[i] = j
  /\ \A j \in Idx :
       /\ j * e = N * ((j * e) \div N) + p[j] /\ (j * e) \div N \in Nat
       /\ Automorphism(a, e, q)[p[j]] =
            IF ((j * e) \div N) % 2 = 0 THEN a[j] ELSE NegMod(a[j], q)

\* The automorphism moves the coefficients, each to a place of its own.
LEMMA AutomorphismMoves ==
  ASSUME NEW q \in NttModuli, NEW a \in Arrays(q), NEW e \in Nat, e % 2 = 1
  PROVE  /\ Automorphism(a, e, q) \in Arrays(q)
         /\ \E p : Moves(p, a, e, q)
<1>1. N \in Nat /\ N \in Nat \ {0} /\ N >= 2 /\ Idx = 0 .. N - 1 /\ q \in Nat /\ q >= 3
  BY Dimension, RootModulus, ModulusFacts DEF Idx
<1>2. PICK K \in Nat : N = TwoTo(K)
  BY DimensionPower
<1> DEFINE p == [j \in Idx |-> (j * e) % N]
           b == Automorphism(a, e, q)
<1>3. ASSUME NEW j \in Idx
      PROVE  /\ j * e = N * ((j * e) \div N) + ((j * e) % N) /\ (j * e) \div N \in Nat
             /\ (j * e) % N \in Idx
  <2>1. PICK x \in Nat : x = j * e
    BY <1>1
  <2>2. x = N * (x \div N) + (x % N) /\ x % N \in 0 .. N - 1 /\ x \div N \in Int
    <3>1. x \in Int
      OBVIOUS
    <3>2. QED
      BY ONLY <1>1, <3>1, DivMod
  <2>3. PICK y \in Int, r \in Nat : y = x \div N /\ r = x % N /\ r < N /\ x = N * y + r
    BY <1>1, <2>2
  <2>4. y >= 0
    BY ONLY <1>1, <2>3, x \in Nat, y \in Int, r \in Nat
  <2>5. QED
    BY <1>1, <2>1, <2>2, <2>3, <2>4
<1>4. p \in [Idx -> Idx]
  BY <1>3
<1>5. ASSUME NEW i \in Idx, NEW j \in Idx, p[i] = p[j]
      PROVE  i = j
  <2>1. PICK u \in Nat, w \in Nat, r \in Nat : i * e = N * u + r /\ j * e = N * w + r
    <3>1. (i * e) % N = (j * e) % N
      BY <1>5
    <3>2. PICK u \in Nat, w \in Nat : u = (i * e) \div N /\ w = (j * e) \div N
      BY <1>3
    <3>3. PICK r \in Nat : r = (i * e) % N
      BY <1>1, <1>3
    <3>4. i * e = N * u + r /\ j * e = N * w + r
      BY <1>3, <3>1, <3>2, <3>3
    <3>5. QED
      BY <3>4
  <2>2. i \in Nat /\ j \in Nat /\ i < N /\ j < N
    BY <1>1
  <2>3. e * (i - j) = N * (u - w) /\ i - j \in Int /\ u - w \in Int
    BY ONLY <1>1, <2>1, <2>2, e \in Nat, u \in Nat, w \in Nat, r \in Nat
  <2>4. PICK s \in Int : i - j = N * s
    BY <1>2, <2>3, OddCancels
  <2>5. s < 1 /\ s > -1
    BY ONLY <1>1, <2>2, <2>4, s \in Int
  <2>6. s = 0
    BY <2>5
  <2>7. QED
    BY <1>1, <2>2, <2>4, <2>6
<1>6. \A j \in Idx : \E i \in Idx : p[i] = j
  <2> HIDE DEF p
  <2>1. p \in [0 .. N - 1 -> 0 .. N - 1] /\ \A i, j \in 0 .. N - 1 : p[i] = p[j] => i = j
    BY ONLY <1>1, <1>4, <1>5
  <2>2. \A j \in 0 .. N - 1 : \E i \in 0 .. N - 1 : p[i] = j
    BY ONLY <1>1, <2>1, InjectionCovers
  <2>3. QED
    BY ONLY <1>1, <2>2
<1>7. ASSUME NEW j \in Idx
      PROVE  b[p[j]] = IF ((j * e) \div N) % 2 = 0 THEN a[j] ELSE NegMod(a[j], q)
  <2>1. PICK i \in Idx : i = p[j] /\ i = (j * e) % N
    BY <1>3
  <2>2. j = CHOOSE z \in Idx : (z * e) % N = i
    <3>1. ASSUME NEW z \in Idx, (z * e) % N = i
          PROVE  z = j
      BY <1>5, <2>1, <3>1
    <3> DEFINE P(z) == (z * e) % N = i
    <3>2. P(j) /\ \A z \in Idx : P(z) => z = j
      BY <2>1, <3>1
    <3> HIDE DEF P
    <3>3. j = CHOOSE z \in Idx : P(z)
      BY ONLY <3>2, j \in Idx
    <3>4. QED
      BY <3>3 DEF P
  <2>3. b[i] = LET y == CHOOSE z \in Idx : (z * e) % N = i
               IN  IF ((y * e) \div N) % 2 = 0 THEN a[y] ELSE NegMod(a[y], q)
    BY DEF Automorphism
  <2>4. QED
    BY <2>1, <2>2, <2>3
<1>8. b \in Arrays(q)
  <2>1. ASSUME NEW i \in Idx
        PROVE  b[i] \in 0 .. q - 1
    <3>1. PICK j \in Idx : p[j] = i
      BY <1>6
    <3>2. a[j] \in 0 .. q - 1
      BY DEF Arrays
    <3>3. NegMod(a[j], q) \in 0 .. q - 1
      BY <1>1, <3>2 DEF NegMod
    <3>4. b[i] = a[j] \/ b[i] = NegMod(a[j], q)
      BY <1>7, <3>1
    <3>5. QED
      BY <3>2, <3>3, <3>4
  <2>2. b = [i \in Idx |-> b[i]]
    BY DEF Automorphism
  <2> HIDE DEF b
  <2>3. QED
    BY <2>1, <2>2 DEF Arrays
<1>9. ASSUME NEW j \in Idx
      PROVE  j * e = N * ((j * e) \div N) + p[j] /\ (j * e) \div N \in Nat
  <2>1. p[j] = (j * e) % N
    OBVIOUS
  <2> HIDE DEF p
  <2>2. QED
    BY ONLY <1>3, <2>1, j \in Idx
<1> HIDE DEF p
<1>10. QED
  <2>1. Moves(p, a, e, q)
    BY <1>4, <1>5, <1>6, <1>7, <1>9 DEF Moves
  <2>2. QED
    BY <1>8, <2>1

\* At a root of X^N + 1 the image has the value of the polynomial at the root's power.
LEMMA ImageEvaluates ==
  ASSUME NEW q \in NttModuli, NEW a \in Arrays(q), NEW e \in Nat, e % 2 = 1,
         NEW c \in Nat, Same(PowerOf(c, N), -1, q), NEW d \in Nat, Same(d, PowerOf(c, e), q)
  PROVE  Same(Evaluation(Automorphism(a, e, q), c), Evaluation(a, d), q)
<1>1. N \in Nat /\ N >= 2 /\ Idx = 0 .. N - 1 /\ q \in Nat
  BY Dimension, RootModulus, ModulusFacts DEF Idx
<1>2. PICK b : b = Automorphism(a, e, q)
  OBVIOUS
<1>3. PICK p : Moves(p, a, e, q)
  BY AutomorphismMoves
<1>4. b \in Arrays(q)
  BY <1>2, AutomorphismMoves
<1> DEFINE f == [i \in Idx |-> b[i] * PowerOf(c, i)]
           g == [j \in Idx |-> f[p[j]]]
           h == [j \in Idx |-> a[j] * PowerOf(d, j)]
<1>5. \A i \in Idx : a[i] \in Nat /\ b[i] \in Nat /\ i \in Nat /\ p[i] \in Idx /\ p[i] \in Nat
  <2>1. p \in [Idx -> Idx]
    BY <1>3 DEF Moves
  <2>2. ASSUME NEW i \in Idx
        PROVE  a[i] \in Nat /\ b[i] \in Nat /\ i \in Nat /\ p[i] \in Idx /\ p[i] \in Nat
    <3>1. a[i] \in 0 .. q - 1 /\ b[i] \in 0 .. q - 1
      BY <1>4 DEF Arrays
    <3>2. p[i] \in Idx
      BY <2>1
    <3>3. QED
      BY ONLY <1>1, <3>1, <3>2, i \in Idx
  <2>3. QED
    BY <2>2
<1>6. Terms(f, N) /\ Terms(h, N)
  <2>1. ASSUME NEW i \in Idx
        PROVE  f[i] \in Int /\ h[i] \in Int
    <3>1. PICK x \in Nat, y \in Nat : x = PowerOf(c, i) /\ y = PowerOf(d, i)
      BY <1>5, PowerOfStep
    <3>2. QED
      BY <1>5, <3>1
  <2> HIDE DEF f, h
  <2>2. QED
    BY <1>1, <2>1 DEF Terms
<1>7. Terms(g, N) /\ SumTo(g, N) = SumTo(f, N)
  <2>1. \A i \in Idx : g[i] = f[p[i]]
    OBVIOUS
  <2> HIDE DEF f, g
  <2>2. Reorders(p, g, f, N)
    BY <1>1, <1>3, <2>1 DEF Reorders, Moves
  <2>3. QED
    BY <1>1, <1>6, <2>2, SumPermuted
<1>8. ASSUME NEW j \in Idx
      PROVE  Same(g[j], h[j], q)
  <2>1. PICK w \in Nat, r \in Nat : w = (j * e) \div N /\ r = p[j] /\ j * e = N * w + r
    BY <1>3, <1>5 DEF Moves
  <2>2. PICK x \in 0 .. q - 1 : x = a[j] /\ b[r] = IF w % 2 = 0 THEN x ELSE NegMod(x, q)
    <3>1. a[j] \in 0 .. q - 1
      BY DEF Arrays
    <3>2. QED
      BY <1>2, <1>3, <2>1, <3>1 DEF Moves
  <2>3. Same((IF w % 2 = 0 THEN x ELSE NegMod(x, q)) * PowerOf(c, r), x * PowerOf(d, j), q)
    BY ONLY <1>5, <2>1, q \in NttModuli, x \in 0 .. q - 1, c \in Nat, Same(PowerOf(c, N), -1, q), d \in Nat,
            e \in Nat, Same(d, PowerOf(c, e), q), j \in Idx, w \in Nat, r \in Nat, TermTurns
  <2>4. g[j] = b[r] * PowerOf(c, r) /\ h[j] = x * PowerOf(d, j)
    BY <1>5, <2>1, <2>2
  <2>5. QED
    BY <2>2, <2>3, <2>4
<1>9. Evaluation(b, c) = SumTo(f, N) /\ Evaluation(a, d) = SumTo(h, N)
  BY DEF Evaluation
<1> HIDE DEF f, g, h
<1>10. Same(SumTo(g, N), SumTo(h, N), q)
  BY <1>1, <1>6, <1>7, <1>8, SumSame
<1>11. QED
  BY <1>2, <1>7, <1>9, <1>10

\* What the server reads of a polynomial's image at word i.
LEMMA ImageReads ==
  ASSUME NEW q \in NttModuli, NEW p \in [Idx -> Nat], NEW e \in Nat, e % 2 = 1,
         NEW X, HeapExponents(X), NEW i \in Idx, NEW x \in Nat, Same(x, e * ExponentAt(X, N + i), 2 * N)
  PROVE  /\ ImageValues(p, e, q) \in Arrays(q)
         /\ Evaluation(LimbOf(p, q), PowerOf(Psi[q], x)) \in Int
         /\ StandsFor(ImageValues(p, e, q)[i], Evaluation(LimbOf(p, q), PowerOf(Psi[q], x)), q)
<1>1. N \in Nat /\ N >= 2 /\ Idx = 0 .. N - 1 /\ q \in Nat /\ q \in Nat \ {0} /\ q \in Moduli
  BY Dimension, RootModulus, ModulusFacts DEF Idx
<1>2. PICK a \in Arrays(q) : a = LimbOf(p, q)
  <2>1. ASSUME NEW j \in Idx
        PROVE  p[j] % q \in 0 .. q - 1
    <3>1. p[j] \in Nat
      OBVIOUS
    <3>2. QED
      BY ONLY <1>1, <3>1, ResidueOf
  <2>2. QED
    BY <2>1 DEF LimbOf, Arrays
<1>3. PICK b \in Arrays(q) : b = Automorphism(a, e, q)
  BY AutomorphismMoves
<1>4. \A j \in Idx : a[j] \in Nat /\ b[j] \in Nat /\ b[j] \in Words
  <2>1. q <= Word /\ Word \in Nat /\ Words = 0 .. Word - 1
    BY <1>1, ModulusFacts DEF Words
  <2>2. ASSUME NEW j \in Idx
        PROVE  a[j] \in Nat /\ b[j] \in Nat /\ b[j] \in Words
    <3>1. a[j] \in 0 .. q - 1 /\ b[j] \in 0 .. q - 1
      BY DEF Arrays
    <3>2. QED
      BY ONLY <1>1, <2>1, <3>1
  <2>3. QED
    BY <2>2
<1>5. PICK v : v = Forward(b, q) /\ v = ImageValues(p, e, q)
  BY <1>2, <1>3 DEF ImageValues
<1>6. v \in Arrays(q) /\ ForwardHolds("classical", v, N, b, q)
  BY <1>4, <1>5, ForwardLeaves
<1>7. PICK k \in N .. 2 * N - 1 :
        k = N + i /\ k \in 1 .. 2 * N - 1 /\ Length(k) = 1 /\ First(k) = i
  <2>1. PICK k \in N .. 2 * N - 1 : k = N + i
    BY <1>1
  <2>2. i \in Nat
    BY <1>1
  <2>3. k - N = i
    BY ONLY <1>1, <2>1, <2>2
  <2>4. QED
    BY <2>1, <2>3, LeafLevel
<1>8. PICK r \in Int : r = Remainder(b, 0, k, q) /\ Same(r, Evaluation(b, Constant(k, q)), q)
                       /\ Evaluation(b, Constant(k, q)) \in Int
  <2>1. Remainder(b, 0, k, q) \in Int
    <3>1. Remainder(b, 0, k, q) \in 0 .. q - 1
      BY <1>4, LeafEvaluates
    <3>2. QED
      BY <1>1, <3>1
  <2>2. QED
    BY <1>4, <2>1, LeafEvaluates
<1>9. StandsFor(v[i], r, q)
  <2>1. BlockHolds("classical", v, k, b, 1, q)
    BY <1>6 DEF ForwardHolds
  <2>2. 0 \in 0 .. Length(k) - 1
    BY <1>7
  <2>3. Means("classical", v[First(k) + 0], 1 * Remainder(b, 0, k, q), q)
    BY <2>1, <2>2 DEF BlockHolds
  <2>4. i + 0 = i /\ 1 * r = r
    BY <1>1
  <2>5. Means("classical", v[i], r, q)
    BY <1>7, <1>8, <2>3, <2>4
  <2>6. QED
    BY <1>1, <2>5, MeansStands
<1>10. PICK c \in Nat : c = Constant(k, q) /\ Same(PowerOf(c, N), -1, q)
  <2>1. Constant(k, q) \in 0 .. q - 1 /\ HighBit(k) = N
    BY <1>7, ConstantFacts, LeafLevel
  <2>2. Constant(k, q) \in Nat
    BY <1>1, <2>1
  <2>3. Same(PowerOf(Constant(k, q), N), -1, q)
    BY <1>7, <2>1, ConstantRoots
  <2>4. QED
    BY <2>2, <2>3
<1>11. PICK y \in Nat, psi \in Nat :
         /\ y = ExponentAt(X, k) /\ psi = Psi[q] /\ Same(PowerOf(psi, N), -1, q)
         /\ Same(c, PowerOf(psi, y), q)
  BY <1>7, <1>10, ConstantPowers, ExponentsSplit
<1>12. PICK d \in Nat : d = PowerOf(psi, x) /\ Same(d, PowerOf(c, e), q)
  <2>1. PICK d \in Nat, f \in Nat, g \in Nat, u \in Nat :
          /\ d = PowerOf(psi, x) /\ f = PowerOf(psi, y) /\ g = PowerOf(f, e) /\ u = PowerOf(c, e)
    <3>1. PICK d \in Nat, f \in Nat : d = PowerOf(psi, x) /\ f = PowerOf(psi, y)
      BY PowerOfStep
    <3>2. PICK g \in Nat, u \in Nat : g = PowerOf(f, e) /\ u = PowerOf(c, e)
      BY PowerOfStep
    <3>3. QED
      BY <3>1, <3>2
  <2>2. PICK z \in Nat : z = e * y /\ z = y * e
    OBVIOUS
  <2>3. Same(d, PowerOf(psi, z), q)
    <3>1. Same(x, z, 2 * N)
      BY <1>7, <1>11, <2>2
    <3>2. QED
      BY ONLY <1>1, <1>11, <2>1, <3>1, x \in Nat, z \in Nat, psi \in Nat, PowerOfPeriod
  <2>4. PowerOf(psi, z) = g
    <3>1. PowerOf(psi, y * e) = PowerOf(PowerOf(psi, y), e)
      BY ONLY psi \in Nat, y \in Nat, e \in Nat, PowerOfPower
    <3>2. QED
      BY <2>1, <2>2, <3>1
  <2>5. Same(u, g, q)
    <3>1. Same(c, f, q)
      BY <1>11, <2>1
    <3>2. Same(PowerOf(c, e), PowerOf(f, e), q)
      BY ONLY <1>1, <3>1, c \in Nat, f \in Nat, e \in Nat, PowerSame
    <3>3. QED
      BY <2>1, <3>2
  <2>6. Same(d, u, q)
    <3>1. Same(d, g, q)
      BY <2>3, <2>4
    <3>2. QED
      BY ONLY <1>1, <2>5, <3>1, d \in Nat, g \in Nat, u \in Nat, SameChain
  <2>7. QED
    BY <2>1, <2>6
<1>13. Same(Evaluation(b, c), Evaluation(a, d), q)
  BY ONLY <1>3, <1>10, <1>12, q \in NttModuli, a \in Arrays(q), e \in Nat, e % 2 = 1, c \in Nat, d \in Nat,
          ImageEvaluates
<1>14. PICK s \in Int, t \in Int : s = Evaluation(b, c) /\ t = Evaluation(a, d)
  <2>1. Evaluation(b, c) \in Int
    BY <1>8, <1>10
  <2>2. Evaluation(a, d) \in Int
    <3>1. Terms([j \in Idx |-> a[j] * PowerOf(d, j)], N)
      <4>1. ASSUME NEW j \in Idx
            PROVE  a[j] * PowerOf(d, j) \in Int
        <5>1. PICK w \in Nat, m \in Nat : w = PowerOf(d, j) /\ m = a[j]
          <6>1. j \in Nat /\ a[j] \in Nat
            BY <1>1, <1>4
          <6>2. PowerOf(d, j) \in Nat
            BY <6>1, PowerOfStep
          <6>3. QED
            BY <6>1, <6>2
        <5>2. QED
          BY <5>1
      <4>2. QED
        BY <1>1, <4>1 DEF Terms
    <3>2. \A j \in 0 .. N - 1 : [z \in Idx |-> a[z] * PowerOf(d, z)][j] = [z \in Idx |-> a[z] * PowerOf(d, z)][j]
      OBVIOUS
    <3>3. SumTo([j \in Idx |-> a[j] * PowerOf(d, j)], N) \in Int
      BY <1>1, <3>1, <3>2, SumEqual
    <3>4. QED
      BY <3>3 DEF Evaluation
  <2>3. QED
    BY <2>1, <2>2
<1>15. Same(r, t, q)
  <2>1. Same(r, s, q) /\ Same(s, t, q)
    BY <1>8, <1>10, <1>13, <1>14
  <2>2. QED
    BY ONLY <1>1, <2>1, r \in Int, s \in Int, t \in Int, SameTransitive
<1>16. StandsFor(v[i], t, q)
  BY <1>1, <1>9, <1>15, StandsSame
<1>17. QED
  BY <1>2, <1>5, <1>6, <1>11, <1>12, <1>14, <1>16

\* Words that stand for the same are the same.
LEMMA StandsAlike ==
  ASSUME NEW q \in Moduli, NEW v, NEW w, NEW x \in Int, StandsFor(v, x, q), StandsFor(w, x, q)
  PROVE  v = w
<1>1. q \in Nat /\ q \in Nat \ {0} /\ Word \in Nat
  BY ModulusFacts
<1>2. PICK y \in Int : y = x * Word
  BY <1>1
<1>3. v \in 0 .. q - 1 /\ w \in 0 .. q - 1 /\ Same(v, y, q) /\ Same(w, y, q)
  BY <1>2 DEF StandsFor
<1>4. v = y % q /\ w = y % q
  BY <1>1, <1>3, SameResidue
<1>5. QED
  BY <1>4

\* So the values of an image are those of the polynomial, in the order that the exponents have.
LEMMA ImagesArePermuted ==
  ASSUME NEW q \in NttModuli, NEW p \in [Idx -> Nat], NEW e \in Nat, e % 2 = 1, NEW X, HeapExponents(X),
         NEW i \in Idx
  PROVE  ImageValues(p, e, q)[i] = ImageValues(p, 1, q)[Turn(X, e)[i]]
<1>1. PICK j \in Idx : j = Turn(X, e)[i] /\ Same(ExponentAt(X, N + j), e * ExponentAt(X, N + i), 2 * N)
  BY TurnPermutes
<1>2. PICK x \in Nat : x = ExponentAt(X, N + j)
  BY LeafExponents
<1>3. PICK t : t = Evaluation(LimbOf(p, q), PowerOf(Psi[q], x))
  OBVIOUS
<1>4. t \in Int /\ StandsFor(ImageValues(p, e, q)[i], t, q)
  <2>1. Same(x, e * ExponentAt(X, N + i), 2 * N)
    BY <1>1, <1>2
  <2>2. QED
    BY <1>3, <2>1, ImageReads
<1>5. StandsFor(ImageValues(p, 1, q)[j], t, q)
  <2>1. 1 % 2 = 1 /\ 1 * x = x /\ 1 \in Nat
    OBVIOUS
  <2>2. Same(x, 1 * ExponentAt(X, N + j), 2 * N)
    <3>1. Same(x, x, 2 * N)
      BY Dimension, SameReflexive
    <3>2. QED
      BY <1>2, <2>1, <3>1
  <2>3. QED
    BY <1>3, <2>1, <2>2, ImageReads
<1>6. q \in Moduli
  BY RootModulus
<1>7. QED
  BY <1>1, <1>4, <1>5, <1>6, StandsAlike
-----------------------------------------------------------------------------
(* The tables                                                              *)

\* What the server works with, and the tables that are done.
TablesSoFar(X) ==
  /\ values = [m \in DOMAIN LimbModuli |->
       [p \in Draws \cup Monomials |->
          [e \in Elements |-> ImageValues(p, e, LimbModuli[m])]]]
  /\ element \in Nat /\ element % 2 = 1 /\ element <= 2 * N + 1
  /\ tables = [k \in 0 .. N - 1 |-> IF 2 * k + 1 < element THEN Turn(X, 2 * k + 1) ELSE NoArray]

\* What has been matched, of the drawn polynomial p.
Matched(X, p) ==
  /\ element < 2 * N
  /\ original = ImageValues(p, 1, LimbModuli[1]) /\ image = ImageValues(p, element, LimbModuli[1])
  /\ row \in 0 .. N /\ table \in [Idx -> Idx]
  /\ \A j \in Idx : Turn(X, element)[j] < row => table[j] = Turn(X, element)[j]

\* The invariant of the loops, X being the exponents.
TablesInv(X) ==
  TablesSoFar(X) /\ (original # NoArray => \E p \in Draws : Matched(X, p))

\* Draws and monomials have natural coefficients, under moduli of contexts.
LEMMA LimbFacts ==
  ASSUME LimbsAssumption
  PROVE  /\ 1 \in DOMAIN LimbModuli /\ \A m \in DOMAIN LimbModuli : LimbModuli[m] \in NttModuli
         /\ \A p \in Draws \cup Monomials : p \in [Idx -> Nat]
         /\ \A m \in DOMAIN LimbModuli, p \in Draws \cup Monomials, e \in Nat :
              e % 2 = 1 => ImageValues(p, e, LimbModuli[m]) \in [Idx -> Nat]
<1>1. 1 \in DOMAIN LimbModuli /\ \A m \in DOMAIN LimbModuli : LimbModuli[m] \in NttModuli
  BY DEF LimbsAssumption
<1>2. \A p \in Draws \cup Monomials : p \in [Idx -> Nat]
  BY DEF LimbsAssumption, Monomials
<1>3. ASSUME NEW m \in DOMAIN LimbModuli, NEW p \in Draws \cup Monomials, NEW e \in Nat, e % 2 = 1
      PROVE  ImageValues(p, e, LimbModuli[m]) \in [Idx -> Nat]
  <2>1. PICK q \in NttModuli : q = LimbModuli[m] /\ q \in Nat
    BY <1>1, RootModulus, ModulusFacts
  <2>2. p \in [Idx -> Nat]
    BY <1>2
  <2>3. PICK X : HeapExponents(X)
    BY ExponentsExist
  <2>4. 0 \in Idx
    BY Dimension DEF Idx
  <2>5. PICK x \in Nat : x = e * ExponentAt(X, N + 0)
    BY <2>3, <2>4, LeafExponents
  <2>6. Same(x, x, 2 * N)
    BY Dimension, SameReflexive
  <2>7. ImageValues(p, e, q) \in Arrays(q)
    BY <1>3, <2>2, <2>3, <2>4, <2>5, <2>6, ImageReads
  <2>8. Arrays(q) \subseteq [Idx -> Nat]
    BY <2>1 DEF Arrays
  <2>9. QED
    BY <2>1, <2>7, <2>8
<1>4. QED
  BY <1>1, <1>2, <1>3

\* The index of a table.
LEMMA IndexFacts ==
  ASSUME NEW e \in Nat, e % 2 = 1, e < 2 * N
  PROVE  TableIndex(e) \in 0 .. N - 1 /\ e = 2 * TableIndex(e) + 1 /\ e \in Elements
<1>1. PICK z \in Nat, d \in {0, 1} : d = e % 2 /\ e = 2 * z + d
  BY HalfOf
<1>2. e = 2 * z + 1 /\ (e - 1) \div 2 = z /\ N \in Nat
  BY <1>1, Dimension
<1>3. QED
  BY <1>2 DEF TableIndex, Elements

\* No table is done at the start.
LEMMA TablesStart ==
  ASSUME LimbsAssumption, NEW X, TablesInit
  PROVE  TablesInv(X)
<1>1. N \in Nat /\ N >= 2 /\ N - 1 \in Nat
  BY Dimension
<1>2. \A k \in 0 .. N - 1 : ~(2 * k + 1 < element)
  BY <1>1 DEF TablesInit
<1>3. tables = [k \in 0 .. N - 1 |-> IF 2 * k + 1 < element THEN Turn(X, 2 * k + 1) ELSE NoArray]
  <2>1. tables = [k \in 0 .. N - 1 |-> NoArray]
    BY DEF TablesInit
  <2>2. QED
    BY <1>2, <2>1
<1>4. element \in Nat /\ element % 2 = 1 /\ element <= 2 * N + 1
  BY <1>1 DEF TablesInit
<1>5. TablesSoFar(X)
  BY <1>3, <1>4 DEF TablesSoFar, TablesInit
<1>6. original = NoArray
  BY DEF TablesInit
<1>7. QED
  BY <1>5, <1>6 DEF TablesInv

\* A polynomial is drawn, and nothing is matched.
LEMMA DrawKeeps ==
  ASSUME LimbsAssumption, NEW X, HeapExponents(X), TablesInv(X), NEW p \in Draws, Draw(p)
  PROVE  TablesInv(X)'
<1>1. N \in Nat /\ N >= 2 /\ Idx = 0 .. N - 1 /\ 0 \in Idx
  BY Dimension DEF Idx
<1>2. TablesSoFar(X)
  BY DEF TablesInv
<1>3. element \in Nat /\ element % 2 = 1 /\ element < 2 * N
  BY <1>2 DEF TablesSoFar, Draw
<1>4. UNCHANGED <<tables, element, values>>
  BY DEF Draw
<1>5. TablesSoFar(X)'
  BY ONLY <1>2, <1>4 DEF TablesSoFar
<1>6. element \in Elements /\ 1 \in Elements
  <2>1. 1 < 2 * N /\ 1 % 2 = 1
    BY <1>1
  <2>2. QED
    BY <1>3, <2>1, IndexFacts
<1>7. original' = ImageValues(p, 1, LimbModuli[1]) /\ image' = ImageValues(p, element, LimbModuli[1])
  <2>1. 1 \in DOMAIN LimbModuli /\ p \in Draws \cup Monomials
    BY LimbFacts
  <2>2. original' = values[1][p][1] /\ image' = values[1][p][element]
    BY DEF Draw
  <2>3. values = [m \in DOMAIN LimbModuli |->
       [s \in Draws \cup Monomials |->
          [e \in Elements |-> ImageValues(s, e, LimbModuli[m])]]]
    BY <1>2 DEF TablesSoFar
  <2>4. QED
    BY ONLY <1>6, <2>1, <2>2, <2>3
<1>8. row' = 0 /\ table' = [i \in Idx |-> 0]
  BY DEF Draw
<1>9. row' \in 0 .. N /\ table' \in [Idx -> Idx]
  BY <1>1, <1>8
<1>10. \A j \in Idx : Turn(X, element)[j] \in Idx
  BY <1>3, TurnPermutes
<1>11. \A j \in Idx : ~(Turn(X, element)[j] < row')
  BY <1>1, <1>8, <1>10
<1>12. Matched(X, p)'
  BY ONLY <1>3, <1>4, <1>7, <1>9, <1>11 DEF Matched
<1>13. QED
  BY ONLY <1>5, <1>12, p \in Draws DEF TablesInv

\* A value that is found once is found where it belongs.
LEMMA MatchKeeps ==
  ASSUME LimbsAssumption, NEW X, HeapExponents(X), TablesInv(X), Match
  PROVE  TablesInv(X)'
<1>1. N \in Nat /\ N >= 2 /\ Idx = 0 .. N - 1
  BY Dimension DEF Idx
<1>2. TablesSoFar(X) /\ original # NoArray
  BY DEF TablesInv, Match
<1>3. PICK p \in Draws : Matched(X, p)
  BY <1>2 DEF TablesInv
<1>4. UNCHANGED <<tables, element, values, original, image>> /\ row' = row + 1 /\ row < N
  BY DEF Match
<1>5. TablesSoFar(X)'
  BY ONLY <1>2, <1>4 DEF TablesSoFar
<1>6. row \in Idx /\ row \in Nat /\ element \in Nat /\ element % 2 = 1
  <2>1. row \in 0 .. N
    BY <1>3 DEF Matched
  <2>2. QED
    BY <1>1, <1>2, <1>4, <2>1 DEF TablesSoFar
<1>7. PICK s : s = Turn(X, element)
  OBVIOUS
<1>8. /\ s \in [Idx -> Idx] /\ \A i, j \in Idx : s[i] = s[j] => i = j
      /\ \A j \in Idx : \E i \in Idx : s[i] = j
  <2>1. /\ Turn(X, element) \in [Idx -> Idx]
        /\ \A i, j \in Idx : Turn(X, element)[i] = Turn(X, element)[j] => i = j
        /\ \A j \in Idx : \E i \in Idx : Turn(X, element)[i] = j
    BY ONLY <1>6, HeapExponents(X), TurnPermutes
  <2>2. QED
    BY ONLY <1>7, <2>1
<1>9. PICK j \in Idx : s[j] = row
  BY <1>6, <1>8
<1>10. j \in Matching(row)
  <2>1. LimbModuli[1] \in NttModuli /\ p \in [Idx -> Nat]
    BY LimbFacts
  <2>2. ImageValues(p, element, LimbModuli[1])[j] = ImageValues(p, 1, LimbModuli[1])[row]
    BY <1>6, <1>7, <1>9, <2>1, ImagesArePermuted
  <2>3. image[j] = original[row]
    BY <1>3, <2>2 DEF Matched
  <2>4. QED
    BY <2>3 DEF Matching
<1>11. table' = [table EXCEPT ![j] = row]
  <2>1. PICK k \in Matching(row) : Matching(row) = {k} /\ table' = [table EXCEPT ![k] = row]
    BY DEF Match
  <2>2. k = j
    BY <1>10, <2>1
  <2>3. QED
    BY <2>1, <2>2
<1>12. table \in [Idx -> Idx] /\ \A i \in Idx : s[i] < row => table[i] = s[i]
  BY <1>3, <1>7 DEF Matched
<1>13. table' \in [Idx -> Idx]
  BY <1>6, <1>11, <1>12
<1>14. ASSUME NEW i \in Idx, s[i] < row'
       PROVE  table'[i] = s[i]
  <2>1. CASE i = j
    BY <1>9, <1>11, <1>12, <2>1
  <2>2. CASE i # j
    <3>1. table'[i] = table[i]
      BY <1>11, <1>12, <2>2
    <3>2. s[i] # row /\ s[i] \in Nat
      <4>1. s[i] # s[j]
        BY ONLY <1>8, <2>2, i \in Idx, j \in Idx
      <4>2. s[i] \in 0 .. N - 1
        BY <1>1, <1>8
      <4>3. QED
        BY ONLY <1>1, <1>9, <4>1, <4>2
    <3>3. s[i] < row
      BY <1>4, <1>6, <1>14, <3>2
    <3>4. QED
      BY <1>12, <3>1, <3>3
  <2>3. QED
    BY <2>1, <2>2
<1>15. row' \in 0 .. N
  BY <1>1, <1>4, <1>6
<1>16. Matched(X, p)'
  BY <1>3, <1>4, <1>7, <1>13, <1>14, <1>15 DEF Matched
<1>17. QED
  BY ONLY <1>5, <1>16, p \in Draws DEF TablesInv

\* When every value is matched the table is that of the element.
LEMMA PushKeeps ==
  ASSUME LimbsAssumption, NEW X, HeapExponents(X), TablesInv(X), Push
  PROVE  TablesInv(X)'
<1>1. N \in Nat /\ N >= 2 /\ Idx = 0 .. N - 1
  BY Dimension DEF Idx
<1>2. TablesSoFar(X) /\ original # NoArray
  BY DEF TablesInv, Push
<1>3. PICK p \in Draws : Matched(X, p)
  BY <1>2 DEF TablesInv
<1>4. /\ values' = values /\ element' = element + 2 /\ row = N /\ original' = NoArray
      /\ tables' = [tables EXCEPT ![TableIndex(element)] = table]
  BY DEF Push
<1>5. element \in Nat /\ element % 2 = 1 /\ element < 2 * N
  BY <1>2, <1>3 DEF TablesSoFar, Matched
<1>6. PICK n \in 0 .. N - 1 : n = TableIndex(element) /\ element = 2 * n + 1
  BY <1>5, IndexFacts
<1>7. table = Turn(X, element)
  <2>1. Turn(X, element) \in [Idx -> Idx]
    BY <1>5, TurnPermutes
  <2>2. table \in [Idx -> Idx] /\ \A j \in Idx : Turn(X, element)[j] < N => table[j] = Turn(X, element)[j]
    BY <1>3, <1>4 DEF Matched
  <2>3. PICK s \in [Idx -> Idx] : s = Turn(X, element)
    BY <2>1
  <2>4. \A j \in Idx : s[j] < N
    BY <1>1
  <2>5. \A j \in Idx : table[j] = s[j]
    BY <2>2, <2>3, <2>4
  <2>6. table = s
    BY ONLY <2>2, <2>5, s \in [Idx -> Idx]
  <2>7. QED
    BY <2>3, <2>6
<1>8. tables' = [k \in 0 .. N - 1 |-> IF 2 * k + 1 < element' THEN Turn(X, 2 * k + 1) ELSE NoArray]
  <2>1. tables = [k \in 0 .. N - 1 |-> IF 2 * k + 1 < element THEN Turn(X, 2 * k + 1) ELSE NoArray]
    BY <1>2 DEF TablesSoFar
  <2>2. tables' = [k \in 0 .. N - 1 |-> IF k = n THEN Turn(X, element) ELSE tables[k]]
    BY <1>4, <1>6, <1>7, <2>1
  <2>3. ASSUME NEW k \in 0 .. N - 1
        PROVE  (IF k = n THEN Turn(X, element) ELSE tables[k]) =
                 (IF 2 * k + 1 < element' THEN Turn(X, 2 * k + 1) ELSE NoArray)
    <3>1. element' = 2 * n + 3 /\ k \in Nat /\ n \in Nat
      BY <1>1, <1>4, <1>6
    <3>2. tables[k] = IF 2 * k + 1 < 2 * n + 1 THEN Turn(X, 2 * k + 1) ELSE NoArray
      BY <1>6, <2>1
    <3>3. CASE k = n
      BY <1>6, <3>1, <3>3
    <3>4. CASE k # n
      <4>1. 2 * k + 1 < 2 * n + 1 <=> 2 * k + 1 < 2 * n + 3
        BY ONLY <3>1, <3>4
      <4>2. QED
        BY <3>1, <3>2, <3>4, <4>1
    <3>5. QED
      BY <3>3, <3>4
  <2>4. QED
    BY ONLY <2>2, <2>3
<1>9. element' \in Nat /\ element' % 2 = 1 /\ element' <= 2 * N + 1
  BY <1>1, <1>4, <1>6
<1>10. TablesSoFar(X)'
  BY <1>2, <1>4, <1>8, <1>9 DEF TablesSoFar
<1>11. QED
  BY <1>4, <1>10 DEF TablesInv

\* Every step keeps the invariant.
LEMMA TablesKeep ==
  ASSUME LimbsAssumption, NEW X, HeapExponents(X), TablesInv(X), [TablesNext]_tableVars
  PROVE  TablesInv(X)'
<1>1. ASSUME Retry
      PROVE  TablesInv(X)'
  <2>1. TablesSoFar(X)
    BY DEF TablesInv
  <2>2. UNCHANGED <<tables, element, values>> /\ original' = NoArray
    BY <1>1 DEF Retry
  <2>3. TablesSoFar(X)'
    BY ONLY <2>1, <2>2 DEF TablesSoFar
  <2>4. QED
    BY ONLY <2>2, <2>3 DEF TablesInv
<1>2. ASSUME UNCHANGED tableVars
      PROVE  TablesInv(X)'
  BY <1>2 DEF tableVars, TablesInv, TablesSoFar, Matched
<1>3. ASSUME NEW p \in Draws, Draw(p)
      PROVE  TablesInv(X)'
  BY <1>3, DrawKeeps
<1>4. ASSUME Complete
      PROVE  TablesInv(X)'
  BY <1>2, <1>4 DEF Complete
<1>5. QED
  BY <1>1, <1>2, <1>3, <1>4, MatchKeeps, PushKeeps DEF TablesNext

\* What the invariant says of the tables.
LEMMA TablesImply ==
  ASSUME LimbsAssumption, NEW X, HeapExponents(X), TablesInv(X)
  PROVE  TablesArePermutations /\ TablesCommute
<1>1. N \in Nat /\ N >= 2 /\ Idx = 0 .. N - 1
  BY Dimension DEF Idx
<1>2. /\ values = [m \in DOMAIN LimbModuli |->
           [p \in Draws \cup Monomials |->
              [e \in Elements |-> ImageValues(p, e, LimbModuli[m])]]]
      /\ tables = [k \in 0 .. N - 1 |-> IF 2 * k + 1 < element THEN Turn(X, 2 * k + 1) ELSE NoArray]
      /\ element \in Nat
  BY DEF TablesInv, TablesSoFar
<1>3. TablesArePermutations
  <2>1. ASSUME NEW k \in 0 .. N - 1, tables[k] # NoArray
        PROVE  {tables[k][i] : i \in Idx} = Idx
    <3>1. tables[k] = Turn(X, 2 * k + 1)
      BY <1>2, <2>1
    <3>2. 2 * k + 1 \in Nat /\ (2 * k + 1) % 2 = 1
      BY <1>1
    <3>3. PICK s \in [Idx -> Idx] : s = tables[k] /\ \A j \in Idx : \E i \in Idx : s[i] = j
      BY <3>1, <3>2, TurnPermutes
    <3>4. {s[i] : i \in Idx} = Idx
      BY ONLY <3>3, s \in [Idx -> Idx]
    <3>5. QED
      BY <3>3, <3>4
  <2>2. DOMAIN tables = 0 .. N - 1
    BY <1>2
  <2>3. QED
    BY <2>1, <2>2 DEF TablesArePermutations
<1>4. TablesCommute
  <2>1. ASSUME element > 2 * N, NEW e \in Elements, NEW m \in DOMAIN values, NEW p \in DOMAIN values[m]
        PROVE  ApplyAutomorphismNtt(values[m][p][1], e) = values[m][p][e]
    <3>1. m \in DOMAIN LimbModuli
      BY <1>2
    <3>2. PICK q \in NttModuli : q = LimbModuli[m]
      BY <3>1, LimbFacts
    <3>3. values[m] = [r \in Draws \cup Monomials |-> [x \in Elements |-> ImageValues(r, x, q)]]
      BY <1>2, <3>1, <3>2
    <3>4. p \in Draws \cup Monomials
      BY <3>3
    <3>5. p \in [Idx -> Nat]
      BY <3>4, LimbFacts
    <3>6. e \in Nat /\ e % 2 = 1 /\ e < 2 * N
      BY <1>1 DEF Elements
    <3>7. 1 \in Elements
      BY <1>1 DEF Elements
    <3>8. values[m][p][1] = ImageValues(p, 1, q) /\ values[m][p][e] = ImageValues(p, e, q)
      BY <3>3, <3>4, <3>7
    <3>9. tables[TableIndex(e)] = Turn(X, e)
      <4>1. PICK n \in 0 .. N - 1 : n = TableIndex(e) /\ e = 2 * n + 1
        BY <3>6, IndexFacts
      <4>2. 2 * n + 1 < element
        BY <1>1, <1>2, <2>1, <3>6, <4>1
      <4>3. tables[n] = Turn(X, 2 * n + 1)
        BY <1>2, <4>2
      <4>4. QED
        BY <4>1, <4>3
    <3>10. ImageValues(p, e, q) \in [Idx -> Nat]
      BY <3>1, <3>2, <3>4, <3>6, LimbFacts
    <3>11. \A i \in Idx : ImageValues(p, e, q)[i] = ImageValues(p, 1, q)[Turn(X, e)[i]]
      BY <3>5, <3>6, ImagesArePermuted
    <3>12. ApplyAutomorphismNtt(values[m][p][1], e) = [i \in Idx |-> ImageValues(p, 1, q)[Turn(X, e)[i]]]
      BY <3>8, <3>9 DEF ApplyAutomorphismNtt
    <3>13. QED
      BY ONLY <3>8, <3>10, <3>11, <3>12
  <2>2. QED
    BY <2>1 DEF TablesCommute
<1>5. QED
  BY <1>3, <1>4

\* inspiring2.rs, generate_automorph_tables: whatever is drawn, a table that is matched
\* from values that are all different is a permutation of the places.
THEOREM TablesAlwaysPermute ==
  ASSUME LimbsAssumption
  PROVE  TablesSpec => []TablesArePermutations
<1>1. PICK X : HeapExponents(X)
  BY ExponentsExist
<1>2. TablesInit => TablesInv(X)
  BY TablesStart
<1>3. TablesInv(X) /\ [TablesNext]_tableVars => TablesInv(X)'
  BY <1>1, TablesKeep
<1>4. TablesInv(X) => TablesArePermutations
  BY <1>1, TablesImply
<1>5. QED
  BY <1>2, <1>3, <1>4, PTL DEF TablesSpec

\* inspiring2.rs, apply_automorphism_ntt: the tables recovered under the first modulus turn
\* the values of every polynomial into those of its images, under each modulus.
THEOREM TablesAlwaysCommute ==
  ASSUME LimbsAssumption
  PROVE  TablesSpec => []TablesCommute
<1>1. PICK X : HeapExponents(X)
  BY ExponentsExist
<1>2. TablesInit => TablesInv(X)
  BY TablesStart
<1>3. TablesInv(X) /\ [TablesNext]_tableVars => TablesInv(X)'
  BY <1>1, TablesKeep
<1>4. TablesInv(X) => TablesCommute
  BY <1>1, TablesImply
<1>5. QED
  BY <1>2, <1>3, <1>4, PTL DEF TablesSpec
=============================================================================
