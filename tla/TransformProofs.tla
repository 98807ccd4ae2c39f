-------------------------- MODULE TransformProofs --------------------------
(***************************************************************************)
(* Words in Montgomery form stay reduced and implement residues, for words *)
(* of every width and all prime moduli that leave two bits of a word free; *)
(* and transforms multiply, for every ring dimension.                      *)
(*                                                                         *)
(* The argument, in the order of the sections: the ladder of shifts gives  *)
(* the inverse of the modulus, so that montgomery_mul_at divides by 2^Bits *)
(* modulo q; every kernel computes the same high word; Shoup and Barrett   *)
(* reductions miss by one modulus at most; the rounds of pow keep a power, *)
(* and Fermat's theorem makes the last one an inverse. StandsFor(w, x, q)  *)
(* says that w is the Montgomery form of x, and each operation on words    *)
(* keeps that relation to the operation on integers. Means(p, w, x, q) says*)
(* that by kernel p the word w has the residue of x.                       *)
(*                                                                         *)
(* Blocks of butterflies stay within the array and leave reduced words, so *)
(* both transforms do. As only zero divides zero modulo a prime, the search*)
(* ends with a root of unity whose N-th power is -1; the ladders hold its  *)
(* powers in bit-reversed order, so that the constant of a block in the    *)
(* heap is a square root of its parent's. Hence the remainder modulo       *)
(* X^l - c splits into those modulo X^(l/2) - w and X^(l/2) + w, for w a   *)
(* square root of c, single words are the values at the roots, and the     *)
(* negacyclic product has the products of the values. BlockHolds says that *)
(* the words of a block mean the remainders of an array, so many times;    *)
(* every loop of NttSteps keeps it, for the blocks that are done.          *)
(***************************************************************************)
EXTENDS ResidueWords, NttSteps, ArithmeticLemmas
-----------------------------------------------------------------------------
(* The inverse of the modulus                                              *)

\* A modulus is odd and at most a quarter of a word.
LEMMA ModulusFacts ==
  ASSUME NEW q \in Moduli
  PROVE  /\ q \in Nat /\ q >= 3 /\ q % 2 = 1
         /\ Word \in Nat /\ 4 * q <= Word
         /\ Bits \in Nat /\ Bits >= 3
<1>1. Bits \in 0 .. 2 * Bits /\ Bits >= 3 /\ Bits \in Nat
  BY WordAssumption
<1>2. Word \in Nat \ {0}
  BY <1>1, ExponentLaw DEF Word
<1>3. q \in 3 .. Word \div 4 /\ q % 2 = 1
  BY WordAssumption
<1>4. 4 * q <= Word
  BY <1>2, <1>3
<1>5. QED
  BY <1>1, <1>2, <1>3, <1>4

\* The ladder of compute_q_inv_neg is the function its recursion says.
LEMMA LadderStep ==
  ASSUME NEW q \in Moduli
  PROVE  /\ InverseLadder(q) \in [0 .. Bits - 1 -> Nat]
         /\ InverseLadder(q)[0] = 1
         /\ \A i \in 0 .. Bits - 1 : i # 0 =>
              InverseLadder(q)[i] = InverseLadder(q)[i - 1]
                                      + 2 ^ i * Bit(Low64(InverseLadder(q)[i - 1] * q), i)
<1> DEFINE n == Bits - 1
           G == [i \in 0 .. n |-> [s \in Nat |-> s + 2 ^ i * Bit(Low64(s * q), i)]]
           F(g) == [i \in 0 .. Bits - 1 |->
                      IF i = 0 THEN 1 ELSE g[i - 1] + 2 ^ i * Bit(Low64(g[i - 1] * q), i)]
<1>1. n \in Nat
  BY ModulusFacts
<1>2. ASSUME NEW i \in 0 .. n, NEW s \in Nat
      PROVE  s + 2 ^ i * Bit(Low64(s * q), i) \in Nat
  <2>1. q \in Nat /\ Word \in Nat \ {0} /\ 2 ^ i \in Nat \ {0}
    BY ModulusFacts, ExponentLaw
  <2>2. Low64(s * q) \in Nat
    BY <2>1 DEF Low64
  <2>3. Low64(s * q) \div 2 ^ i \in Nat
    BY <2>1, <2>2
  <2>4. Bit(Low64(s * q), i) \in Nat
    BY <2>3 DEF Bit
  <2>5. QED
    BY <2>1, <2>4
<1>3. G \in [0 .. n -> [Nat -> Nat]]
  BY <1>2
<1> HIDE DEF n
<1>4. PICK f : Solves(f, Nat, n, 1, G)
  <2> HIDE DEF G
  <2>1. Recurs(Nat, n, 1, G)
    BY <1>1, <1>3 DEF Recurs
  <2>2. QED
    BY ONLY <2>1, RecursionExists, Zenon
<1>5. f = F(f)
  <2>1. ASSUME NEW i \in 0 .. n, i # 0
        PROVE  f[i] = f[i - 1] + 2 ^ i * Bit(Low64(f[i - 1] * q), i)
    <3>1. f[i] = G[i][f[i - 1]] /\ f[i - 1] \in Nat
      BY <1>1, <1>4, <2>1 DEF Solves
    <3>2. QED
      BY <3>1
  <2>2. \A i \in 0 .. n : f[i] = IF i = 0 THEN 1 ELSE f[i - 1] + 2 ^ i * Bit(Low64(f[i - 1] * q), i)
    BY <1>4, <2>1 DEF Solves
  <2>3. f = [i \in 0 .. n |-> f[i]]
    BY <1>4 DEF Solves
  <2>4. QED
    BY <2>2, <2>3 DEF n
<1>6. InverseLadder(q) = CHOOSE y : y = F(y)
  BY Zenon DEF InverseLadder
<1> DEFINE y == InverseLadder(q)
<1>7. y = F(y)
  <2> HIDE DEF F
  <2>1. QED
    BY <1>5, <1>6, Zenon
<1> HIDE DEF y
<1>8. y[0] = 1 /\ \A i \in 0 .. n : i # 0 => y[i] = y[i - 1] + 2 ^ i * Bit(Low64(y[i - 1] * q), i)
  <2>1. \A i \in 0 .. n : y[i] = F(y)[i]
    BY <1>7
  <2>2. 0 \in 0 .. n
    BY <1>1
  <2>3. QED
    BY <2>1, <2>2 DEF n
<1>9. \A i \in 0 .. n : y[i] \in Nat
  <2> DEFINE T == {i \in 0 .. n : y[i] \in Nat}
  <2>1. 0 \in T
    BY <1>1, <1>8
  <2>2. ASSUME NEW i \in 0 .. n, i # n, i \in T
        PROVE  i + 1 \in T
    <3>1. i + 1 \in 0 .. n /\ i + 1 # 0 /\ (i + 1) - 1 = i
      BY <1>1, <2>2
    <3>2. y[i + 1] = y[i] + 2 ^ (i + 1) * Bit(Low64(y[i] * q), i + 1)
      BY <1>8, <3>1
    <3>3. QED
      BY <1>2, <2>2, <3>1, <3>2
  <2> HIDE DEF T
  <2>3. \A i \in 0 .. n : i \in T
    BY <1>1, <2>1, <2>2, Induction
  <2>4. QED
    BY <2>3 DEF T
<1>10. y = [i \in 0 .. n |-> y[i]]
  BY <1>7 DEF n
<1>11. QED
  BY <1>8, <1>9, <1>10 DEF n, y

\* The powers of two below a word, and what is left of the word above them.
LEMMA PowerFacts ==
  ASSUME NEW i \in 0 .. Bits - 1
  PROVE  /\ 2 ^ i \in Nat /\ 2 ^ i > 0 /\ 2 ^ (i + 1) = 2 * 2 ^ i
         /\ 2 ^ (Bits - 1 - i) \in Nat /\ Word = (2 * 2 ^ i) * 2 ^ (Bits - 1 - i)
         /\ i # 0 => 2 ^ i > 1
<1>1. /\ i \in 0 .. 2 * Bits /\ i + 1 \in 0 .. 2 * Bits /\ 1 \in 0 .. 2 * Bits - i
      /\ Bits - 1 - i \in 0 .. 2 * Bits - (i + 1) /\ Bits - 1 - i \in 0 .. 2 * Bits
      /\ (i + 1) + (Bits - 1 - i) = Bits
  BY WordAssumption
<1>2. 2 ^ i \in Nat \ {0} /\ 2 ^ (i + 1) = 2 * 2 ^ i
  <2>1. 2 ^ i \in Nat \ {0} /\ 2 ^ (i + 1) = 2 ^ i * 2 ^ 1
    BY <1>1, ExponentLaw
  <2>2. 2 ^ 1 = 2
    OBVIOUS
  <2>3. QED
    BY <2>1, <2>2
<1>3. 2 ^ (Bits - 1 - i) \in Nat \ {0} /\ Word = 2 ^ (i + 1) * 2 ^ (Bits - 1 - i)
  BY <1>1, ExponentLaw DEF Word
<1>4. i # 0 => 2 ^ i > 1
  <2>1. SUFFICES ASSUME i # 0 PROVE 2 ^ i > 1
    OBVIOUS
  <2>2. i - 1 \in 0 .. 2 * Bits /\ 1 \in 0 .. 2 * Bits - (i - 1) /\ (i - 1) + 1 = i
    BY <1>1, <2>1
  <2>3. 2 ^ (i - 1) \in Nat \ {0} /\ 2 ^ i = 2 ^ (i - 1) * 2 ^ 1
    BY <2>2, ExponentLaw
  <2>4. 2 ^ 1 = 2
    OBVIOUS
  <2>5. QED
    BY <2>3, <2>4
<1>5. QED
  BY <1>2, <1>3, <1>4

\* y is an inverse of q modulo p; p divides w.
Inverts(y, q, p) == \E t \in Int : y * q = 1 + p * t
Divides(p, w) == \E h \in Nat : w = p * h

\* One rung: the bit of the product that is set is the one that must be cleared.
LEMMA RungInverts ==
  ASSUME NEW q \in Nat, q % 2 = 1, NEW p \in Nat, p > 1, NEW p2 \in Nat, p2 = 2 * p,
         NEW w \in Nat, w > 0, Divides(p2, w), NEW y \in Nat, Inverts(y, q, p)
  PROVE  Inverts(y + p * ((((y * q) % w) \div p) % 2), q, p2)
<1>1. PICK t \in Int : y * q = 1 + p * t
  BY DEF Inverts
<1>2. PICK h \in Nat : w = (2 * p) * h
  BY DEF Divides
<1> DEFINE k == (y * q) \div w
           b == t % 2
           u == t - (2 * h) * k
           c == q \div 2
<1>3. k \in Int /\ b \in {0, 1} /\ c \in Int /\ q = 2 * c + 1
  OBVIOUS
<1>4. (y * q) % w = p * u + 1
  <2>1. y * q = w * k + ((y * q) % w)
    <3>1. \A x \in Int : x = w * (x \div w) + (x % w)
      BY ONLY w \in Nat, w > 0, DivMod
    <3>2. y * q \in Int
      OBVIOUS
    <3>3. QED
      BY ONLY <3>1, <3>2 DEF k
  <2> HIDE DEF k
  <2>2. w * k = p * ((2 * h) * k)
    BY <1>2, <1>3
  <2>3. QED
    BY <1>1, <1>3, <2>1, <2>2
<1>5. ((y * q) % w) \div p = u
  <2>1. u \in Int /\ 1 \in 0 .. p - 1
    BY <1>3
  <2>2. \A v \in Int : (p * v + 1) \div p = v
    BY ONLY p \in Nat, p > 1
  <2> HIDE DEF u
  <2>3. QED
    BY ONLY <1>4, <2>1, <2>2
<1>6. u % 2 = b
  OBVIOUS
<1>7. PICK d \in Int : t = 2 * d + b
  OBVIOUS
<1>8. (y + p * b) * q = 1 + (2 * p) * (d + b + b * c)
  <2>1. (y + p * b) * q = y * q + p * (b * q)
    BY <1>3
  <2>2. b * q = 2 * (b * c) + b
    BY <1>3
  <2> HIDE DEF b, c
  <2>3. QED
    BY <1>1, <1>3, <1>7, <2>1, <2>2
<1>9. d + b + b * c \in Int
  BY <1>3
<1>10. (((y * q) % w) \div p) % 2 = b
  BY <1>5, <1>6
<1>11. QED
  <2> HIDE DEF b, c
  <2>1. QED
    BY <1>8, <1>9, <1>10 DEF Inverts

\* After i rungs the ladder holds an inverse of q modulo 2^(i+1).
LEMMA LadderInverts ==
  ASSUME NEW q \in Moduli, NEW i \in 0 .. Bits - 1
  PROVE  Inverts(InverseLadder(q)[i], q, 2 ^ (i + 1))
<1> DEFINE n == Bits - 1
           y == InverseLadder(q)
           T == {j \in 0 .. n : Inverts(y[j], q, 2 ^ (j + 1))}
<1>1. n \in Nat
  BY ModulusFacts
<1>2. q \in Nat /\ q % 2 = 1 /\ Word \in Nat /\ Word > 0
  BY ModulusFacts
<1>3. 0 \in T
  <2>1. y[0] = 1 /\ 2 ^ (0 + 1) = 2
    BY LadderStep
  <2>2. 1 * q = 1 + 2 * (q \div 2) /\ q \div 2 \in Int
    BY <1>2
  <2> HIDE DEF y
  <2>3. y[0] * q = 1 + 2 ^ (0 + 1) * (q \div 2)
    BY <2>1, <2>2
  <2>4. QED
    BY <1>1, <2>2, <2>3 DEF Inverts
<1>4. ASSUME NEW j \in 0 .. n, j # n, j \in T
      PROVE  j + 1 \in T
  <2>1. /\ j + 1 \in 0 .. n /\ j + 1 \in 0 .. Bits - 1 /\ j + 1 # 0 /\ (j + 1) - 1 = j
        /\ j \in 0 .. Bits - 1
    BY <1>1, <1>4
  <2> DEFINE p == 2 ^ (j + 1)
             p2 == 2 ^ ((j + 1) + 1)
  <2>2. p \in Nat /\ p > 1 /\ p2 \in Nat /\ p2 = 2 * p /\ Divides(p2, Word)
    BY <2>1, PowerFacts DEF Divides
  <2>3. y[j] \in Nat /\ y[j + 1] = y[j] + p * ((((y[j] * q) % Word) \div p) % 2)
    BY <2>1, LadderStep DEF Bit, Low64
  <2>4. Inverts(y[j], q, p)
    BY <1>4
  <2>5. Inverts(y[j + 1], q, p2)
    <3> HIDE DEF p, p2, y
    <3>1. QED
      BY <1>2, <2>2, <2>3, <2>4, RungInverts
  <2>6. QED
    BY <2>1, <2>5
<1> HIDE DEF T
<1>5. \A j \in 0 .. n : j \in T
  BY <1>1, <1>3, <1>4, Induction
<1>6. QED
  BY <1>5 DEF T

\* compute_q_inv_neg: q times it is -1 modulo 2^Bits.
LEMMA NegInverseCorrect ==
  ASSUME NEW q \in Moduli
  PROVE  NegInverse[q] \in 0 .. Word - 1 /\ \E k \in Int : q * NegInverse[q] + 1 = Word * k
<1> DEFINE n == Bits - 1
           y == InverseLadder(q)[n]
           v == -y
           d == v \div Word
           r == v % Word
<1>1. n \in 0 .. Bits - 1 /\ n + 1 = Bits /\ q \in Nat /\ Word \in Nat \ {0}
  BY ModulusFacts
<1>2. y \in Nat
  BY <1>1, LadderStep
<1>3. PICK t \in Int : y * q = 1 + Word * t
  BY <1>1, LadderInverts DEF Word, Inverts
<1>4. NegInverse[q] = r
  BY DEF NegInverse, Low64
<1> HIDE DEF y
<1>5. d \in Int /\ r \in 0 .. Word - 1 /\ v = Word * d + r /\ v \in Int
  BY <1>1, <1>2, DivMod
<1> HIDE DEF d, r
<1>6. r = -y - Word * d
  BY <1>1, <1>2, <1>5
<1>7. q * r + 1 = Word * (-t - q * d) /\ -t - q * d \in Int
  BY <1>1, <1>2, <1>3, <1>5, <1>6
<1>8. QED
  BY <1>4, <1>5, <1>7
-----------------------------------------------------------------------------
(* Montgomery multiplication                                               *)

\* One conditional subtraction reduces a number below 2q.
LEMMA CondSubReduces ==
  ASSUME NEW q \in Nat, q > 0, NEW t \in Nat, t < 2 * q
  PROVE  CondSub(t, q) \in 0 .. q - 1 /\ Same(CondSub(t, q), t, q)
<1>1. t - q = t + q * (-1) /\ t = t + q * 0
  OBVIOUS
<1>2. Same(t - q, t, q) /\ Same(t, t, q)
  BY <1>1 DEF Same
<1>3. QED
  BY <1>2 DEF CondSub

\* montgomery_mul_at divides by Word modulo q, also when a factor is not reduced.
LEMMA MontgomeryProduct ==
  ASSUME NEW q \in Moduli, NEW a \in Nat, NEW b \in Nat, a * b < q * Word
  PROVE  /\ MontgomeryMul(a, b, q) \in 0 .. q - 1
         /\ Same(MontgomeryMul(a, b, q) * Word, a * b, q)
<1> DEFINE T == a * b
           low == T % Word
           c == T \div Word
           Neg == NegInverse[q]
           d == (low * Neg) \div Word
           m == (low * Neg) % Word
<1>1. q \in Nat /\ q > 0 /\ Word \in Nat /\ Word > 0 /\ 4 * q <= Word
  BY ModulusFacts
<1>2. T \in Nat /\ T < q * Word
  OBVIOUS
<1>3. MontgomeryMul(a, b, q) = CondSub(((T + m * q) \div Word) % Word, q)
  BY DEF MontgomeryMul, Low64, High64
<1> HIDE DEF T
<1>4. low \in 0 .. Word - 1 /\ c \in Int /\ T = Word * c + low
  BY <1>1, <1>2, DivMod
<1>5. Neg \in 0 .. Word - 1
  BY NegInverseCorrect
<1>6. PICK k \in Int : q * Neg + 1 = Word * k
  BY NegInverseCorrect
<1> HIDE DEF low, c, Neg
<1>7. m \in 0 .. Word - 1 /\ d \in Int /\ low * Neg = Word * d + m
  <2>1. low * Neg \in Int
    BY <1>1, <1>4, <1>5
  <2>2. \A x \in Int : /\ x % Word \in 0 .. Word - 1 /\ x \div Word \in Int
                       /\ x = Word * (x \div Word) + (x % Word)
    BY ONLY <1>1, DivMod
  <2>3. QED
    BY ONLY <2>1, <2>2 DEF d, m
<1> HIDE DEF d, m
<1> DEFINE U == c + low * k - d * q
<1>8. U \in Int
  BY <1>1, <1>4, <1>7
<1>9. T + m * q = Word * U
  <2>1. m = low * Neg - Word * d
    BY <1>1, <1>4, <1>5, <1>7
  <2>2. m * q = low * (q * Neg) - Word * (d * q)
    BY <1>1, <1>4, <1>5, <1>7, <2>1
  <2>3. q * Neg = Word * k - 1
    BY <1>1, <1>5, <1>6
  <2>4. low * (q * Neg) = Word * (low * k) - low
    BY <1>1, <1>4, <2>3
  <2>5. QED
    BY <1>1, <1>4, <1>7, <2>2, <2>4
<1> HIDE DEF U
<1>10. U >= 0 /\ U < 2 * q
  <2>1. 0 <= m * q /\ m * q < Word * q
    BY <1>1, <1>7
  <2>2. Word * (2 * q) = q * Word + Word * q
    BY <1>1
  <2>3. 0 <= Word * U /\ Word * U < Word * (2 * q)
    BY <1>1, <1>2, <1>7, <1>8, <1>9, <2>1, <2>2
  <2>4. QED
    BY <1>1, <1>8, <2>3
<1>11. ((T + m * q) \div Word) % Word = U
  <2>1. (T + m * q) \div Word = U
    BY <1>1, <1>8, <1>9
  <2>2. U \in 0 .. Word - 1
    BY <1>1, <1>8, <1>10
  <2>3. QED
    BY ONLY <1>1, <2>1, <2>2, ModSmall
<1>12. CondSub(U, q) \in 0 .. q - 1 /\ Same(CondSub(U, q), U, q)
  BY <1>1, <1>8, <1>10, CondSubReduces
<1>13. Same(U * Word, T, q)
  <2>1. U * Word = T + q * m
    BY <1>1, <1>7, <1>8, <1>9
  <2>2. QED
    BY <1>7, <2>1 DEF Same
<1>14. Same(CondSub(U, q) * Word, T, q)
  <2>1. Same(CondSub(U, q) * Word, U * Word, q)
    BY <1>1, <1>8, <1>12, SameReflexive, SameProduct
  <2>2. QED
    BY <1>1, <1>2, <1>8, <1>12, <1>13, <2>1, SameTransitive
<1>15. QED
  BY <1>3, <1>11, <1>12, <1>14 DEF T

\* Word has an inverse modulo q, so a factor of Word can be cancelled.
LEMMA CancelWord ==
  ASSUME NEW q \in Moduli, NEW x \in Int, NEW y \in Int, Same(x * Word, y * Word, q)
  PROVE  Same(x, y, q)
<1>1. q \in Nat /\ q > 0 /\ Word \in Nat
  BY ModulusFacts
<1>2. PICK Neg \in Nat : Neg = NegInverse[q]
  BY <1>1, NegInverseCorrect
<1>3. PICK k \in Int : q * Neg + 1 = Word * k
  BY <1>2, NegInverseCorrect
<1>4. PICK l \in Int : x * Word = y * Word + q * l
  BY DEF Same
<1>5. (x * Word) * k = (y * Word) * k + q * (l * k)
  BY <1>1, <1>4
<1>6. (x * Word) * k = x * (q * Neg + 1) /\ (y * Word) * k = y * (q * Neg + 1)
  BY <1>1, <1>3
<1>7. x = y + q * (l * k + y * Neg - x * Neg) /\ l * k + y * Neg - x * Neg \in Int
  BY <1>1, <1>5, <1>6
<1>8. QED
  BY <1>7 DEF Same

\* The word w is the Montgomery form of x.
StandsFor(w, x, q) == w \in 0 .. q - 1 /\ Same(w, x * Word, q)

\* What a word stands for is what FromMontgomery makes of it.
LEMMA FromMontgomeryReads ==
  ASSUME NEW q \in Moduli, NEW w, NEW x \in Int, StandsFor(w, x, q)
  PROVE  FromMontgomery(w, q) = x % q
<1> DEFINE r == FromMontgomery(w, q)
<1>1. q \in Nat /\ q > 0 /\ Word \in Nat /\ Word > 0 /\ w \in 0 .. q - 1
  BY ModulusFacts DEF StandsFor
<1>2. w * 1 < q * Word /\ w * 1 = w
  BY <1>1, ModulusFacts
<1>3. r \in 0 .. q - 1 /\ Same(r * Word, w, q)
  BY <1>1, <1>2, MontgomeryProduct DEF FromMontgomery
<1> HIDE DEF r
<1>4. r * Word \in Int /\ x * Word \in Int
  BY <1>1, <1>3
<1>5. Same(w, x * Word, q)
  BY DEF StandsFor
<1>6. Same(r * Word, x * Word, q)
  BY <1>1, <1>3, <1>4, <1>5, SameTransitive
<1>7. Same(r, x, q)
  BY <1>3, <1>6, CancelWord
<1>8. QED
  BY <1>1, <1>3, <1>7, SameResidue DEF r

\* A reduced word stands for its residue.
LEMMA ReducedStands ==
  ASSUME NEW q \in Moduli, NEW w \in 0 .. q - 1
  PROVE  FromMontgomery(w, q) \in 0 .. q - 1 /\ StandsFor(w, FromMontgomery(w, q), q)
<1>1. q \in Nat /\ Word \in Nat /\ w * 1 < q * Word /\ w * 1 = w
  BY ModulusFacts
<1> DEFINE r == FromMontgomery(w, q)
<1>2. r \in 0 .. q - 1 /\ Same(r * Word, w, q)
  BY <1>1, MontgomeryProduct DEF FromMontgomery
<1> HIDE DEF r
<1>3. PICK k \in Int : r * Word = w + q * k
  BY <1>2 DEF Same
<1>4. w = r * Word + q * (-k) /\ -k \in Int
  BY <1>1, <1>2, <1>3
<1>5. Same(w, r * Word, q)
  BY <1>4 DEF Same
<1>6. QED
  BY <1>2, <1>5 DEF StandsFor, r

\* ModQ::new: lifting also reduces.
LEMMA ToMontgomeryStands ==
  ASSUME NEW q \in Moduli, NEW a \in 0 .. Word - 1
  PROVE  StandsFor(ToMontgomery(a, q), a, q)
<1> DEFINE square == RSquared[q]
           w == ToMontgomery(a, q)
           v == Word % q
<1>1. q \in Nat /\ q > 0 /\ Word \in Nat /\ Word > 0
  BY ModulusFacts
<1>2. v \in 0 .. q - 1 /\ Same(v, Word, q)
  BY <1>1, DivMod, SameMod
<1>3. square = (v * v) % q
  BY DEF RSquared
<1> HIDE DEF v
<1>4. square \in 0 .. q - 1 /\ Same(square, v * v, q)
  <2>1. PICK u \in Int : u = v * v
    BY <1>2
  <2>2. u % q \in 0 .. q - 1
    BY <1>1
  <2>3. Same(u % q, u, q)
    BY <1>1, SameMod
  <2>4. QED
    BY <1>3, <2>1, <2>2, <2>3
<1> HIDE DEF square
<1>5. a * square < q * Word
  BY <1>1, <1>4
<1>6. w \in 0 .. q - 1 /\ Same(w * Word, a * square, q)
  BY <1>1, <1>4, <1>5, MontgomeryProduct DEF ToMontgomery, square
<1> HIDE DEF w
<1>7. Same(a * square, a * (Word * Word), q)
  <2>1. Same(v * v, Word * Word, q)
    BY <1>1, <1>2, SameProduct
  <2>2. Same(square, Word * Word, q)
    BY <1>1, <1>2, <1>4, <2>1, SameTransitive
  <2>3. PICK r \in Int, s \in Int : r = square /\ s = Word * Word
    BY <1>1, <1>4
  <2>4. Same(a, a, q) /\ Same(r, s, q)
    BY <1>1, <2>2, <2>3, SameReflexive
  <2>5. Same(a * r, a * s, q)
    BY <1>1, <2>4, SameProduct
  <2>6. QED
    BY <2>3, <2>5
<1>8. Same(w * Word, (a * Word) * Word, q)
  <2>1. a * (Word * Word) = (a * Word) * Word
    BY <1>1
  <2>2. QED
    BY <1>1, <1>4, <1>6, <1>7, <2>1, SameTransitive
<1>9. Same(w, a * Word, q)
  BY <1>1, <1>6, <1>8, CancelWord
<1>10. QED
  BY <1>6, <1>9 DEF StandsFor, w

\* add, sub, negate and multiply of words stand for those of what the words stand for.
LEMMA AddStands ==
  ASSUME NEW q \in Moduli, NEW a, NEW b, NEW x \in Int, NEW y \in Int,
         StandsFor(a, x, q), StandsFor(b, y, q)
  PROVE  StandsFor(AddMod(a, b, q), x + y, q)
<1>1. q \in Nat /\ q > 0 /\ Word \in Nat /\ a \in 0 .. q - 1 /\ b \in 0 .. q - 1
  BY ModulusFacts DEF StandsFor
<1>2. PICK k \in Int : a = x * Word + q * k
  BY DEF StandsFor, Same
<1>3. PICK l \in Int : b = y * Word + q * l
  BY DEF StandsFor, Same
<1>4. a + b = (x + y) * Word + q * (k + l) /\ k + l \in Int
  BY <1>1, <1>2, <1>3
<1>5. a + b - q = (x + y) * Word + q * (k + l - 1) /\ k + l - 1 \in Int
  BY <1>1, <1>2, <1>3
<1>6. Same(a + b, (x + y) * Word, q) /\ Same(a + b - q, (x + y) * Word, q)
  BY <1>4, <1>5 DEF Same
<1>7. QED
  BY <1>1, <1>6 DEF StandsFor, AddMod, CondSub

\* SubMod stands for the difference.
LEMMA SubStands ==
  ASSUME NEW q \in Moduli, NEW a, NEW b, NEW x \in Int, NEW y \in Int,
         StandsFor(a, x, q), StandsFor(b, y, q)
  PROVE  StandsFor(SubMod(a, b, q), x - y, q)
<1>1. q \in Nat /\ q > 0 /\ Word \in Nat /\ a \in 0 .. q - 1 /\ b \in 0 .. q - 1
  BY ModulusFacts DEF StandsFor
<1>2. PICK k \in Int : a = x * Word + q * k
  BY DEF StandsFor, Same
<1>3. PICK l \in Int : b = y * Word + q * l
  BY DEF StandsFor, Same
<1>4. a - b = (x - y) * Word + q * (k - l) /\ k - l \in Int
  BY <1>1, <1>2, <1>3
<1>5. q - b + a = (x - y) * Word + q * (k - l + 1) /\ k - l + 1 \in Int
  BY <1>1, <1>2, <1>3
<1>6. Same(a - b, (x - y) * Word, q) /\ Same(q - b + a, (x - y) * Word, q)
  BY <1>4, <1>5 DEF Same
<1>7. QED
  BY <1>1, <1>6 DEF StandsFor, SubMod

\* NegMod stands for the negation.
LEMMA NegStands ==
  ASSUME NEW q \in Moduli, NEW a, NEW x \in Int, StandsFor(a, x, q)
  PROVE  StandsFor(NegMod(a, q), -x, q)
<1>1. q \in Nat /\ q > 0 /\ Word \in Nat /\ a \in 0 .. q - 1
  BY ModulusFacts DEF StandsFor
<1>2. PICK k \in Int : a = x * Word + q * k
  BY DEF StandsFor, Same
<1>3. q - a = (-x) * Word + q * (1 - k) /\ 1 - k \in Int
  BY <1>1, <1>2
<1>4. a = 0 => a = (-x) * Word + q * (-k) /\ -k \in Int
  BY <1>1, <1>2
<1>5. Same(q - a, (-x) * Word, q) /\ (a = 0 => Same(a, (-x) * Word, q))
  BY <1>3, <1>4 DEF Same
<1>6. QED
  BY <1>1, <1>5 DEF StandsFor, NegMod

\* montgomery_mul_at stands for the product.
LEMMA MulStands ==
  ASSUME NEW q \in Moduli, NEW a, NEW b, NEW x \in Int, NEW y \in Int,
         StandsFor(a, x, q), StandsFor(b, y, q)
  PROVE  StandsFor(MontgomeryMul(a, b, q), x * y, q)
<1>1. q \in Nat /\ q > 0 /\ Word \in Nat /\ a \in 0 .. q - 1 /\ b \in 0 .. q - 1 /\ q <= Word
  BY ModulusFacts DEF StandsFor
<1>2. a * b < q * Word
  BY <1>1
<1> DEFINE r == MontgomeryMul(a, b, q)
<1>3. r \in 0 .. q - 1 /\ Same(r * Word, a * b, q)
  BY <1>1, <1>2, MontgomeryProduct
<1> HIDE DEF r
<1>4. PICK k \in Int : a = x * Word + q * k
  BY DEF StandsFor, Same
<1>5. PICK l \in Int : b = y * Word + q * l
  BY DEF StandsFor, Same
<1>6. PICK m \in Int : r * Word = a * b + q * m
  BY <1>3 DEF Same
<1>7. PICK W \in Int : W = Word
  BY <1>1
<1> DEFINE n == (x * W) * l + k * (y * W) + k * (q * l) + m
<1>8. n \in Int
  BY <1>1
<1>9. r * Word = ((x * y) * Word) * Word + q * n
  <2>1. a * b = (x * W) * (y * W) + q * ((x * W) * l + k * (y * W) + k * (q * l))
    BY <1>1, <1>4, <1>5, <1>7
  <2>2. (x * W) * (y * W) = ((x * y) * W) * W
    OBVIOUS
  <2>3. q * n = q * ((x * W) * l + k * (y * W) + k * (q * l)) + q * m
    BY <1>1
  <2> HIDE DEF n
  <2>4. QED
    BY <1>1, <1>6, <1>7, <2>1, <2>2, <2>3
<1> HIDE DEF n
<1>10. Same(r * Word, ((x * y) * Word) * Word, q)
  BY <1>8, <1>9 DEF Same
<1>11. Same(r, (x * y) * Word, q)
  BY <1>1, <1>3, <1>10, CancelWord
<1>12. QED
  BY <1>3, <1>11 DEF StandsFor, r
-----------------------------------------------------------------------------
(* Products in parts of words                                              *)

\* The parts of a product of two words cut at P: the high and low parts of the partial
\* products, the sum of the middle ones, and that sum cut at P and at F.
SplitParts(P, E, F, W, ah, al, bh, bl, h0, h1, h2, l0, l1, l2, c, mid, mh, ml) ==
  /\ P \in Nat /\ E \in Nat /\ F \in Nat /\ W \in Nat /\ P > 0 /\ F > 0
  /\ W = P * F /\ P = F * E
  /\ ah \in Nat /\ al \in Nat /\ bh \in Nat /\ bl \in Nat
  /\ h0 \in Nat /\ h1 \in Nat /\ h2 \in Nat
  /\ l0 \in 0 .. P - 1 /\ l1 \in Nat /\ l2 \in Nat
  /\ al * bl = P * h0 + l0 /\ ah * bl = P * h1 + l1 /\ al * bh = P * h2 + l2
  /\ c \in Nat /\ mid \in Nat /\ h0 + l1 + l2 = P * c + mid
  /\ mh \in Nat /\ ml \in 0 .. F - 1 /\ mid = F * mh + ml

\* The parts of the split product add up to the product.
LEMMA SplitSum ==
  ASSUME NEW P, NEW E, NEW F, NEW W, NEW ah, NEW al, NEW bh, NEW bl, NEW h0, NEW h1, NEW h2,
         NEW l0, NEW l1, NEW l2, NEW c, NEW mid, NEW mh, NEW ml,
         SplitParts(P, E, F, W, ah, al, bh, bl, h0, h1, h2, l0, l1, l2, c, mid, mh, ml)
  PROVE  /\ (P * ah + al) * (P * bh + bl)
              = W * (mh + (h1 + h2 + c + ah * bh) * E) + (P * ml + l0)
         /\ P * ml + l0 \in 0 .. W - 1
         /\ l0 + mid * P = W * mh + (P * ml + l0)
<1> USE DEF SplitParts
<1>1. W * E = P * P
  OBVIOUS
<1>2. mid * P = W * mh + P * ml
  <2>1. mid * P = P * (F * mh + ml)
    OBVIOUS
  <2>2. P * (F * mh + ml) = (P * F) * mh + P * ml
    OBVIOUS
  <2>3. QED
    BY <2>1, <2>2
<1>3. P * ml + l0 \in 0 .. W - 1
  <2>1. P * ml <= P * (F - 1) /\ P * ml \in Nat
    OBVIOUS
  <2>2. P * (F - 1) = W - P
    OBVIOUS
  <2>3. QED
    BY <2>1, <2>2
<1>4. (P * ah + al) * (P * bh + bl) = (P * P) * (h1 + h2 + c + ah * bh) + mid * P + l0
  <2>1. (P * ah + al) * (P * bh + bl)
          = (P * P) * (ah * bh) + P * (ah * bl) + P * (al * bh) + al * bl
    BY ONLY P \in Nat, ah \in Nat, al \in Nat, bh \in Nat, bl \in Nat
  <2>2. P * (ah * bl) = (P * P) * h1 + P * l1
    BY ONLY P \in Nat, h1 \in Nat, l1 \in Nat, ah * bl = P * h1 + l1
  <2>3. P * (al * bh) = (P * P) * h2 + P * l2
    BY ONLY P \in Nat, h2 \in Nat, l2 \in Nat, al * bh = P * h2 + l2
  <2>4. P * (h0 + l1 + l2) = (P * P) * c + mid * P
    BY ONLY P \in Nat, c \in Nat, mid \in Nat, h0 + l1 + l2 = P * c + mid
  <2>5. P * (h0 + l1 + l2) = P * h0 + P * l1 + P * l2
    BY ONLY P \in Nat, h0 \in Nat, l1 \in Nat, l2 \in Nat
  <2>6. (P * P) * (h1 + h2 + c + ah * bh)
          = (P * P) * h1 + (P * P) * h2 + (P * P) * c + (P * P) * (ah * bh)
    BY ONLY P \in Nat, h1 \in Nat, h2 \in Nat, c \in Nat, ah \in Nat, bh \in Nat
  <2> DEFINE s == (P * P) * (ah * bh)  u1 == P * (ah * bl)  u2 == P * (al * bh)
             g1 == (P * P) * h1  g2 == (P * P) * h2  g3 == (P * P) * c
             p0 == P * h0  p1 == P * l1  p2 == P * l2  mp == mid * P
  <2>7. s \in Nat /\ g1 \in Nat /\ g2 \in Nat /\ g3 \in Nat /\ p0 \in Nat /\ p1 \in Nat
        /\ p2 \in Nat /\ mp \in Nat
    OBVIOUS
  <2>8. QED
    BY <2>1, <2>2, <2>3, <2>4, <2>5, <2>6, <2>7
<1>5. (P * P) * (h1 + h2 + c + ah * bh) = W * ((h1 + h2 + c + ah * bh) * E)
  <2>1. PICK z \in Nat : z = h1 + h2 + c + ah * bh
    OBVIOUS
  <2>2. (P * P) * z = (W * E) * z
    BY <1>1
  <2>3. (W * E) * z = W * (z * E)
    BY ONLY W \in Nat, E \in Nat, z \in Nat
  <2>4. QED
    BY <2>1, <2>2, <2>3
<1>6. (P * ah + al) * (P * bh + bl)
              = W * (mh + (h1 + h2 + c + ah * bh) * E) + (P * ml + l0)
  <2>1. PICK z \in Nat : z = (h1 + h2 + c + ah * bh) * E
    OBVIOUS
  <2>2. W * (mh + z) = W * mh + W * z
    BY ONLY W \in Nat, mh \in Nat, z \in Nat
  <2>3. PICK x \in Int : x = (P * ah + al) * (P * bh + bl)
    OBVIOUS
  <2>4. x = W * z + mid * P + l0
    BY <1>4, <1>5, <2>1, <2>3
  <2>5. PICK wz \in Int, wm \in Int, pm \in Int : wz = W * z /\ wm = W * mh /\ pm = P * ml
    OBVIOUS
  <2>6. mid * P = wm + pm
    BY <1>2, <2>5
  <2>7. x = wz + (wm + pm) + l0
    BY <2>4, <2>5, <2>6
  <2>8. x = W * (mh + z) + (P * ml + l0)
    BY ONLY <2>7, <2>5, <2>2, x \in Int, l0 \in 0 .. P - 1, P \in Nat
  <2>9. QED
    BY <2>1, <2>3, <2>8
<1>7. QED
  BY ONLY <1>2, <1>3, <1>6, l0 \in 0 .. P - 1, P \in Nat, W \in Nat, mh \in Nat, mid \in Nat, ml \in 0 .. F - 1, F \in Nat

\* The powers that split a word: Word = P * F with P = F * E.
LEMMA SplitFacts ==
  /\ 2 ^ Split \in Nat /\ 2 ^ Split > 0
  /\ 2 ^ (2 * Split - Bits) \in Nat /\ 2 ^ (2 * Split - Bits) > 0
  /\ 2 ^ (Bits - Split) \in Nat /\ 2 ^ (Bits - Split) > 0
  /\ Word = 2 ^ Split * 2 ^ (Bits - Split)
  /\ 2 ^ Split = 2 ^ (Bits - Split) * 2 ^ (2 * Split - Bits)
<1>1. /\ Split \in 0 .. 2 * Bits /\ Bits - Split \in 0 .. 2 * Bits - Split
      /\ Bits - Split \in 0 .. 2 * Bits /\ 2 * Split - Bits \in 0 .. 2 * Bits - (Bits - Split)
      /\ 2 * Split - Bits \in 0 .. 2 * Bits
      /\ Split + (Bits - Split) = Bits /\ (Bits - Split) + (2 * Split - Bits) = Split
  BY WordAssumption
<1>2. 2 ^ Split \in Nat \ {0} /\ 2 ^ (Bits - Split) \in Nat \ {0} /\ 2 ^ (2 * Split - Bits) \in Nat \ {0}
  BY <1>1, ExponentLaw
<1>3. 2 ^ (Split + (Bits - Split)) = 2 ^ Split * 2 ^ (Bits - Split)
  BY <1>1, ExponentLaw
<1>4. 2 ^ ((Bits - Split) + (2 * Split - Bits)) = 2 ^ (Bits - Split) * 2 ^ (2 * Split - Bits)
  BY <1>1, ExponentLaw
<1>5. QED
  BY <1>1, <1>2, <1>3, <1>4 DEF Word

\* The split product is the product in two words, when the product of the high parts
\* fits one part.
LEMMA SplitProductExact ==
  ASSUME NEW a \in Words, NEW b \in Words, (a \div 2 ^ Split) * (b \div 2 ^ Split) < 2 ^ Split
  PROVE  /\ SplitProduct(a, b).low \in Words /\ SplitProduct(a, b).high \in Words
         /\ a * b = Word * SplitProduct(a, b).high + SplitProduct(a, b).low
<1>1. PICK P \in Nat, E \in Nat, F \in Nat :
        P = 2 ^ Split /\ E = 2 ^ (2 * Split - Bits) /\ F = 2 ^ (Bits - Split)
  BY SplitFacts
<1>2. P > 0 /\ E > 0 /\ F > 0 /\ Word = P * F /\ P = F * E
  BY <1>1, SplitFacts
<1>3. PICK W \in Nat : W = Word
  BY <1>2
<1> DEFINE Cut(z, m) == \E h \in Nat, l \in 0 .. m - 1 :
                          h = z \div m /\ l = z % m /\ z = m * h + l
<1>4. \A z \in Nat : Cut(z, P) /\ Cut(z, F) /\ Cut(z, W)
  <2>1. W > 0
    BY <1>2, <1>3
  <2>2. ASSUME NEW m \in Nat, m > 0, NEW z \in Nat
        PROVE  Cut(z, m)
    <3>1. z \div m \in Nat /\ z % m \in 0 .. m - 1 /\ z = m * (z \div m) + (z % m)
      BY ONLY m \in Nat, m > 0, z \in Nat, DivMod
    <3>2. QED
      BY <3>1
  <2> HIDE DEF Cut
  <2>3. QED
    BY <1>2, <2>1, <2>2
<1> HIDE DEF Cut
<1>5. a \in Nat /\ b \in Nat /\ a < W /\ b < W
  BY <1>3 DEF Words
<1>6. PICK ah \in Nat, al \in 0 .. P - 1 :
        ah = a \div P /\ al = a % P /\ a = P * ah + al
  <2>1. Cut(a, P)
    BY ONLY <1>4, <1>5
  <2>2. QED
    BY ONLY <2>1 DEF Cut
<1>7. PICK bh \in Nat, bl \in 0 .. P - 1 :
        bh = b \div P /\ bl = b % P /\ b = P * bh + bl
  <2>1. Cut(b, P)
    BY ONLY <1>4, <1>5
  <2>2. QED
    BY ONLY <2>1 DEF Cut
<1>8. al * bl \in Nat /\ ah * bl \in Nat /\ al * bh \in Nat /\ ah * bh \in Nat
  OBVIOUS
<1>9. PICK h0 \in Nat, l0 \in 0 .. P - 1 :
        h0 = (al * bl) \div P /\ l0 = (al * bl) % P /\ al * bl = P * h0 + l0
  <2>1. Cut(al * bl, P)
    BY ONLY <1>4, <1>8
  <2>2. QED
    BY ONLY <2>1 DEF Cut
<1>10. PICK h1 \in Nat, l1 \in 0 .. P - 1 :
        h1 = (ah * bl) \div P /\ l1 = (ah * bl) % P /\ ah * bl = P * h1 + l1
  <2>1. Cut(ah * bl, P)
    BY ONLY <1>4, <1>8
  <2>2. QED
    BY ONLY <2>1 DEF Cut
<1>11. PICK h2 \in Nat, l2 \in 0 .. P - 1 :
        h2 = (al * bh) \div P /\ l2 = (al * bh) % P /\ al * bh = P * h2 + l2
  <2>1. Cut(al * bh, P)
    BY ONLY <1>4, <1>8
  <2>2. QED
    BY ONLY <2>1 DEF Cut
<1>12. h0 + l1 + l2 \in Nat
  OBVIOUS
<1>13. PICK c \in Nat, mid \in 0 .. P - 1 :
        c = (h0 + l1 + l2) \div P /\ mid = (h0 + l1 + l2) % P /\ h0 + l1 + l2 = P * c + mid
  <2>1. Cut(h0 + l1 + l2, P)
    BY ONLY <1>4, <1>12
  <2>2. QED
    BY ONLY <2>1 DEF Cut
<1>14. PICK mh \in Nat, ml \in 0 .. F - 1 : mh = mid \div F /\ mid = F * mh + ml
  <2>1. mid \in Nat
    OBVIOUS
  <2>2. Cut(mid, F)
    BY ONLY <1>4, <2>1
  <2>3. QED
    BY ONLY <2>2 DEF Cut
<1> DEFINE z == mh + (h1 + h2 + c + ah * bh) * E
           low == P * ml + l0
<1>15. z \in Nat
  OBVIOUS
<1>16. /\ (P * ah + al) * (P * bh + bl) = W * z + low
       /\ low \in 0 .. W - 1
       /\ l0 + mid * P = W * mh + low
  <2>1. SplitParts(P, E, F, W, ah, al, bh, bl, h0, h1, h2, l0, l1, l2, c, mid, mh, ml)
    BY ONLY <1>2, <1>3, <1>9, <1>10, <1>11, <1>13, <1>14,
       P \in Nat, E \in Nat, F \in Nat, W \in Nat, ah \in Nat, bh \in Nat, al \in 0 .. P - 1,
       bl \in 0 .. P - 1 DEF SplitParts
  <2>2. QED
    BY ONLY <2>1, SplitSum
<1> HIDE DEF z, low
<1>17. a * b = W * z + low
  BY <1>6, <1>7, <1>16
<1>18. z < W
  <2>1. a * b < W * W
    BY <1>5
  <2>2. W * z < W * W
    BY <1>15, <1>16, <1>17, <2>1
  <2>3. QED
    BY ONLY <2>2, z \in Nat, W \in Nat, <1>15
<1>19. ah < P /\ bh < P
  <2>1. P * ah < P * F /\ P * bh < P * F
    BY <1>2, <1>3, <1>5, <1>6, <1>7
  <2>2. ah < F /\ bh < F
    BY ONLY <2>1, P \in Nat, F \in Nat, ah \in Nat, bh \in Nat
  <2>3. F <= P
    BY ONLY <1>2, P \in Nat, F \in Nat, E \in Nat
  <2>4. QED
    BY <2>2, <2>3
<1>20. h0 < P /\ h1 < P /\ h2 < P
  <2>1. ASSUME NEW x \in Nat, NEW y \in Nat, x < P, y < P,
               NEW h \in Nat, NEW l \in Nat, x * y = P * h + l
        PROVE  h < P
    <3>1. x * y < P * P
      BY ONLY <2>1, P \in Nat
    <3>2. P * h < P * P
      BY ONLY <2>1, <3>1, P \in Nat
    <3>3. QED
      BY ONLY <2>1, <3>2, P \in Nat
  <2>2. al \in Nat /\ bl \in Nat /\ al < P /\ bl < P /\ l0 \in Nat /\ l1 \in Nat /\ l2 \in Nat
    OBVIOUS
  <2>3. h0 < P
    BY ONLY <1>9, <2>1, <2>2, h0 \in Nat
  <2>4. h1 < P
    BY ONLY <1>10, <1>19, <2>1, <2>2, h1 \in Nat, ah \in Nat
  <2>5. h2 < P
    BY ONLY <1>11, <1>19, <2>1, <2>2, h2 \in Nat, bh \in Nat
  <2>6. QED
    BY <2>3, <2>4, <2>5
<1>21. ah * bh < P
  BY <1>1, <1>6, <1>7
<1>22. /\ FmaLow(al, bl) = l0 /\ FmaHigh(al, bl) = h0
       /\ FmaLow(ah, bl) = l1 /\ FmaHigh(ah, bl) = h1
       /\ FmaLow(al, bh) = l2 /\ FmaHigh(al, bh) = h2
       /\ FmaLow(ah, bh) = ah * bh
  <2>1. \A x \in Nat : x < P => x % P = x
    BY ONLY P \in Nat, ModSmall
  <2>2. \A x, y : FmaLow(x, y) = (x * y) % P /\ FmaHigh(x, y) = ((x * y) \div P) % P
    BY <1>1 DEF FmaLow, FmaHigh
  <2>3. h0 % P = h0 /\ h1 % P = h1 /\ h2 % P = h2 /\ (ah * bh) % P = ah * bh
    <3>1. PICK x \in Nat : x = ah * bh
      BY <1>8
    <3>2. QED
      BY ONLY <1>20, <1>21, <2>1, <3>1, h0 \in Nat, h1 \in Nat, h2 \in Nat
  <2>4. QED
    BY ONLY <1>9, <1>10, <1>11, <2>2, <2>3
<1>23. /\ SplitProduct(a, b).low = (l0 + mid * P) % W
       /\ SplitProduct(a, b).high = (mh + (h1 + h2 + c + ah * bh) * E) % W
  BY ONLY <1>1, <1>3, <1>6, <1>7, <1>13, <1>14, <1>22 DEF SplitProduct, Low64
<1>24. (l0 + mid * P) % W = low
  <2>1. PICK x \in Int : x = l0 + mid * P
    OBVIOUS
  <2>2. x = W * mh + low /\ mh \in Int
    BY <1>16, <2>1
  <2>3. W \in Nat \ {0}
    BY <1>5
  <2>4. x % W = low
    BY ONLY <1>16, <2>2, <2>3, x \in Int, DivModUnique
  <2>5. QED
    BY <2>1, <2>4
<1>25. z % W = z
  BY ONLY <1>15, <1>18, W \in Nat, ModSmall
<1>26. SplitProduct(a, b).low = low /\ SplitProduct(a, b).high = z
  BY ONLY <1>23, <1>24, <1>25 DEF z
<1>27. low \in Words /\ z \in Words
  BY ONLY <1>3, <1>15, <1>16, <1>18, W \in Nat DEF Words
<1>28. QED
  BY ONLY <1>3, <1>17, <1>26, <1>27

\* A word is a positive number of values.
LEMMA WordFacts == Word \in Nat /\ Word > 0 /\ Words = 0 .. Word - 1
<1>1. Bits \in 0 .. 2 * Bits
  BY WordAssumption
<1>2. QED
  BY <1>1, ExponentLaw DEF Word, Words

\* The record p holds the double word x.
Holds(p, x) == p.low \in Words /\ p.high \in Words /\ x = Word * p.high + p.low

\* The two words that hold x are its remainder and its quotient.
LEMMA HoldsWords ==
  ASSUME NEW p, NEW x \in Nat, Holds(p, x)
  PROVE  p.low = x % Word /\ p.high = x \div Word
<1>1. PICK W \in Nat : W = Word /\ W > 0 /\ Words = 0 .. W - 1
  BY WordFacts
<1>2. PICK l \in 0 .. W - 1, h \in 0 .. W - 1 : p.low = l /\ p.high = h /\ x = W * h + l
  BY <1>1 DEF Holds
<1>3. x % W = l /\ x \div W = h
  <2>1. W \in Nat \ {0} /\ x \in Int /\ h \in Int /\ x = W * h + l
    BY <1>1, <1>2
  <2>2. QED
    BY ONLY <2>1, l \in 0 .. W - 1, DivModUnique
<1>4. QED
  BY <1>1, <1>2, <1>3

\* A factor below a quarter of a word keeps the product of the high parts small.
LEMMA HighPartsFit ==
  ASSUME NEW a \in Words, NEW b \in Nat, 4 * b <= Word
  PROVE  b \in Words /\ (a \div 2 ^ Split) * (b \div 2 ^ Split) < 2 ^ Split
<1>1. PICK P \in Nat, F \in Nat, W \in Nat :
        P = 2 ^ Split /\ F = 2 ^ (Bits - Split) /\ W = Word /\ P > 0 /\ F > 0 /\ W = P * F
  BY SplitFacts, WordFacts
<1>2. F * F <= 4 * P
  <2>1. /\ Bits - Split \in 0 .. 2 * Bits /\ Bits - Split \in 0 .. 2 * Bits - (Bits - Split)
        /\ 2 * Bits - 2 * Split \in 0 .. 2 * Bits
        /\ 3 * Split - 2 * Bits + 2 \in 0 .. 2 * Bits - (2 * Bits - 2 * Split)
        /\ 3 * Split - 2 * Bits + 2 \in 0 .. 2 * Bits
        /\ (Bits - Split) + (Bits - Split) = 2 * Bits - 2 * Split
        /\ (2 * Bits - 2 * Split) + (3 * Split - 2 * Bits + 2) = Split + 2
        /\ Split \in 0 .. 2 * Bits /\ 2 \in 0 .. 2 * Bits - Split
    BY WordAssumption
  <2>2. 2 ^ ((Bits - Split) + (Bits - Split)) = F * F
    BY <1>1, <2>1, ExponentLaw
  <2>3. PICK x \in Nat, y \in Nat :
          x = 2 ^ (2 * Bits - 2 * Split) /\ y = 2 ^ (3 * Split - 2 * Bits + 2) /\ x * y = 2 ^ (Split + 2) /\ y > 0
    <3>1. /\ 2 ^ (2 * Bits - 2 * Split) \in Nat \ {0} /\ 2 ^ (3 * Split - 2 * Bits + 2) \in Nat \ {0}
          /\ 2 ^ ((2 * Bits - 2 * Split) + (3 * Split - 2 * Bits + 2))
               = 2 ^ (2 * Bits - 2 * Split) * 2 ^ (3 * Split - 2 * Bits + 2)
      BY ONLY <2>1, ExponentLaw
    <3>2. QED
      BY <2>1, <3>1
  <2>4. 2 ^ (Split + 2) = P * 2 ^ 2
    BY <1>1, <2>1, ExponentLaw
  <2>5. 2 ^ 2 = 4
    OBVIOUS
  <2>6. x = F * F /\ x * y = 4 * P
    BY <2>1, <2>2, <2>3, <2>4, <2>5
  <2>7. x <= x * y
    BY ONLY <2>3, x \in Nat, y \in Nat
  <2>8. QED
    BY <2>6, <2>7
<1>3. a \in Nat /\ a < W /\ b < W
  BY <1>1 DEF Words
<1>4. PICK g \in Nat, h \in Nat : g = a \div P /\ h = b \div P /\ P * g <= a /\ P * h <= b
  <2>1. ASSUME NEW z \in Nat
        PROVE  z \div P \in Nat /\ P * (z \div P) <= z
    <3>0. P \in Nat \ {0} /\ z \in Int
      BY <1>1
    <3>1. z = P * (z \div P) + (z % P) /\ z % P \in 0 .. P - 1 /\ z \div P \in Int
      BY ONLY <3>0, DivMod
    <3>2. z \div P \in Nat
      BY ONLY <1>1, P \in Nat, z \in Nat
    <3>3. PICK d \in Nat, e \in 0 .. P - 1 : d = z \div P /\ e = z % P
      BY <3>1, <3>2
    <3>4. QED
      BY <3>1, <3>3
  <2>2. QED
    BY <1>3, <2>1
<1>5. g < F /\ 4 * h <= F
  <2>1. P * g < P * F /\ P * (4 * h) <= P * F
    BY <1>1, <1>3, <1>4
  <2>2. QED
    BY ONLY <1>1, <2>1, P \in Nat, F \in Nat, g \in Nat, h \in Nat
<1>6. g * (4 * h) < F * F
  <2>1. g * (4 * h) <= g * F
    BY ONLY <1>5, F \in Nat, g \in Nat, h \in Nat
  <2>2. g * F < F * F
    BY ONLY <1>1, <1>5, F \in Nat, g \in Nat
  <2>3. QED
    BY <2>1, <2>2
<1>7. g * (4 * h) = 4 * (g * h)
  OBVIOUS
<1>8. g * h < P
  BY <1>2, <1>6, <1>7
<1>9. QED
  BY <1>1, <1>3, <1>4, <1>8 DEF Words

\* ifma52_product_lohi, for a factor below a quarter of a word.
LEMMA SplitProductHolds ==
  ASSUME NEW a \in Words, NEW b \in Nat, 4 * b <= Word
  PROVE  Holds(SplitProduct(a, b), a * b)
BY HighPartsFit, SplitProductExact DEF Holds

\* The carry of the low words is seen by comparison.
LEMMA HighOfSumIsHigh ==
  ASSUME NEW p, NEW r, NEW x \in Nat, NEW y \in Nat, Holds(p, x), Holds(r, y)
  PROVE  HighOfSum(p, r) = High64(x + y)
<1>1. PICK W \in Nat : W = Word /\ W > 0 /\ Words = 0 .. W - 1
  BY WordFacts
<1>2. PICK l \in 0 .. W - 1, h \in 0 .. W - 1 : p.low = l /\ p.high = h /\ x = W * h + l
  BY <1>1 DEF Holds
<1>3. PICK m \in 0 .. W - 1, g \in 0 .. W - 1 : r.low = m /\ r.high = g /\ y = W * g + m
  BY <1>1 DEF Holds
<1>4. PICK carry \in {0, 1}, w \in 0 .. W - 1 :
        /\ carry = IF l + m >= W THEN 1 ELSE 0
        /\ w = l + m - W * carry
  OBVIOUS
<1>5. (l + m) % W = w
  <2>1. PICK u \in Int, e \in 0 .. W - 1 : u = l + m /\ e = w
    BY <1>4
  <2>2. u = W * carry + e /\ carry \in Int
    BY <1>4, <2>1
  <2>3. u % W = e
    BY ONLY <1>1, <2>2, u \in Int, e \in 0 .. W - 1, W \in Nat, DivModUnique
  <2>4. QED
    BY <2>1, <2>3
<1>6. (IF (l + m) % W < l THEN 1 ELSE 0) = carry
  <2>1. w < l <=> l + m >= W
    BY <1>4
  <2>2. QED
    BY ONLY <1>4, <1>5, <2>1
<1>7. x + y = W * (h + g + carry) + w
  <2>1. W * (h + g + carry) = W * h + W * g + W * carry
    BY <1>4
  <2>2. QED
    BY <1>2, <1>3, <1>4, <2>1
<1>8. (x + y) \div W = h + g + carry
  <2>1. PICK u \in Int, e \in 0 .. W - 1, k \in Int :
          u = x + y /\ e = w /\ k = h + g + carry
    BY <1>4
  <2>2. u = W * k + e
    BY <1>7, <2>1
  <2>3. u \div W = k
    BY ONLY <1>1, <2>2, u \in Int, k \in Int, e \in 0 .. W - 1, W \in Nat, DivModUnique
  <2>4. QED
    BY <2>1, <2>3
<1>9. HighOfSum(p, r) = (h + g + carry) % W
  BY ONLY <1>1, <1>2, <1>3, <1>6 DEF HighOfSum, Low64
<1>10. QED
  BY <1>1, <1>8, <1>9 DEF High64
-----------------------------------------------------------------------------
(* The kernels                                                             *)

\* What the kernels must compute for the factors a and b: the high word of a sum.
LEMMA MontgomeryParts ==
  ASSUME NEW q \in Moduli, NEW a \in 0 .. q - 1, NEW b \in 0 .. q - 1,
         NEW m, m = Low64(Low64(a * b) * NegInverse[q])
  PROVE  /\ a * b \in Nat /\ m \in Words /\ m * q \in Nat
         /\ a * b < q * Word /\ m * q < q * Word
         /\ MontgomeryMul(a, b, q) = CondSub(High64(a * b + m * q), q)
<1>1. PICK W \in Nat : W = Word /\ W > 0 /\ Words = 0 .. W - 1
  BY WordFacts
<1>2. q \in Nat /\ q > 0 /\ q <= W
  BY <1>1, ModulusFacts
<1>3. a * b \in Nat /\ a * b < q * W
  BY <1>1, <1>2
<1>4. PICK x \in Int : x = Low64(a * b) * NegInverse[q]
  <2>1. PICK y \in Nat : y = a * b
    BY <1>3
  <2>2. y % W \in 0 .. W - 1
    BY ONLY <1>1, W \in Nat, y \in Nat
  <2>3. PICK n \in Nat : n = NegInverse[q]
    BY <1>1, NegInverseCorrect
  <2>4. QED
    BY <1>1, <2>1, <2>2, <2>3 DEF Low64
<1>5. x % W \in 0 .. W - 1
  BY ONLY <1>1, W \in Nat, x \in Int
<1>6. m \in 0 .. W - 1
  BY <1>1, <1>4, <1>5 DEF Low64
<1>7. m * q \in Nat /\ m * q < q * W
  BY ONLY <1>2, <1>6, W \in Nat
<1>8. QED
  BY <1>1, <1>3, <1>6, <1>7 DEF MontgomeryMul

\* mont_mul_split52_x8.
LEMMA SplitMulAgrees ==
  ASSUME NEW q \in Moduli, NEW a \in 0 .. q - 1, NEW b \in 0 .. q - 1
  PROVE  SplitMul(a, b, q) = MontgomeryMul(a, b, q)
<1> DEFINE p == SplitProduct(a, b)
           m == Low64(Low64(a * b) * NegInverse[q])
<1>1. /\ a * b \in Nat /\ m \in Words /\ m * q \in Nat
      /\ MontgomeryMul(a, b, q) = CondSub(High64(a * b + m * q), q)
  BY MontgomeryParts
<1>2. q \in Nat /\ 4 * q <= Word /\ a \in Words /\ b \in Nat /\ 4 * b <= Word
  BY ModulusFacts, WordFacts
<1>3. Holds(p, a * b)
  BY ONLY <1>2, SplitProductHolds
<1>4. p.low = Low64(a * b)
  BY ONLY <1>1, <1>3, HoldsWords DEF Low64
<1>5. SplitMul(a, b, q) = CondSub(HighOfSum(p, SplitProduct(m, q)), q)
  BY ONLY <1>4 DEF SplitMul
<1> HIDE DEF m, p
<1>6. Holds(SplitProduct(m, q), m * q)
  BY ONLY <1>1, <1>2, SplitProductHolds
<1>7. HighOfSum(p, SplitProduct(m, q)) = High64(a * b + m * q)
  BY ONLY <1>1, <1>3, <1>6, HighOfSumIsHigh
<1>8. QED
  BY ONLY <1>1, <1>5, <1>7

\* mont_mul_split52: the product with the modulus is one double word.
LEMMA SplitMulScalarAgrees ==
  ASSUME NEW q \in Moduli, NEW a \in 0 .. q - 1, NEW b \in 0 .. q - 1
  PROVE  SplitMulScalar(a, b, q) = MontgomeryMul(a, b, q)
<1> DEFINE p == SplitProduct(a, b)
           m == Low64(Low64(a * b) * NegInverse[q])
<1>1. /\ a * b \in Nat /\ m \in Words /\ m * q \in Nat /\ m * q < q * Word
      /\ MontgomeryMul(a, b, q) = CondSub(High64(a * b + m * q), q)
  BY MontgomeryParts
<1>2. q \in Nat /\ 4 * q <= Word /\ a \in Words /\ b \in Nat /\ 4 * b <= Word
  BY ModulusFacts, WordFacts
<1>3. Holds(p, a * b)
  BY ONLY <1>2, SplitProductHolds
<1>4. p.low = Low64(a * b)
  BY ONLY <1>1, <1>3, HoldsWords DEF Low64
<1>5. SplitMulScalar(a, b, q)
        = CondSub(Low64(p.high + High64(m * q) + ((p.low + Low64(m * q)) \div Word)), q)
  BY ONLY <1>4 DEF SplitMulScalar
<1> HIDE DEF m
<1>6. PICK W \in Nat, x \in Nat, y \in Nat :
        W = Word /\ W > 0 /\ Words = 0 .. W - 1 /\ x = a * b /\ y = m * q /\ y < W * W
  <2>1. q * Word <= Word * Word
    BY <1>2, WordFacts
  <2>2. m * q < Word * Word
    <3>1. PICK y \in Nat, u \in Nat, v \in Nat : y = m * q /\ u = q * Word /\ v = Word * Word
      BY <1>1, <1>2, WordFacts
    <3>2. QED
      BY <1>1, <2>1, <3>1
  <2>3. QED
    BY <1>1, <2>2, WordFacts
<1>7. PICK l \in 0 .. W - 1, h \in 0 .. W - 1 : p.low = l /\ p.high = h /\ x = W * h + l
  BY <1>3, <1>6 DEF Holds
<1>8. PICK g \in Nat, n \in 0 .. W - 1 : g = y \div W /\ n = y % W /\ y = W * g + n
  <2>1. y \in Nat /\ W \in Nat \ {0}
    BY <1>6
  <2>2. y = W * (y \div W) + (y % W) /\ y % W \in 0 .. W - 1
    BY ONLY <2>1, DivMod
  <2>3. y \div W \in Nat
    BY ONLY <2>1
  <2>4. QED
    BY ONLY <2>2, <2>3
<1>9. g % W = g
  <2>0. y < W * W /\ y = W * g + n
    BY ONLY <1>6, <1>8
  <2>1. W * g < W * W
    BY ONLY <2>0, W \in Nat, g \in Nat, y \in Nat, n \in 0 .. W - 1
  <2>2. g < W
    BY ONLY <2>1, g \in Nat, W \in Nat
  <2>3. W \in Nat \ {0} /\ g \in 0 .. W - 1
    BY <2>2
  <2>4. QED
    BY ONLY <2>3, ModSmall
<1>10. PICK c \in Nat, w \in 0 .. W - 1 : c = (l + n) \div W /\ l + n = W * c + w
  <2>1. l + n \in Nat /\ W \in Nat \ {0}
    BY <1>6
  <2>2. l + n = W * ((l + n) \div W) + ((l + n) % W) /\ (l + n) % W \in 0 .. W - 1
    BY ONLY <2>1, DivMod
  <2>3. (l + n) \div W \in Nat
    BY ONLY <2>1
  <2>4. QED
    BY ONLY <2>2, <2>3
<1>11. (x + y) \div W = h + g + c
  <2>1. PICK u \in Int, k \in Int : u = x + y /\ k = h + g + c
    OBVIOUS
  <2>2. W * k = W * h + W * g + W * c
    BY <2>1
  <2>3. u = W * k + w
    BY <1>7, <1>8, <1>10, <2>1, <2>2
  <2>4. W \in Nat \ {0}
    BY <1>6
  <2>5. u \div W = k
    BY ONLY <2>3, <2>4, u \in Int, k \in Int, w \in 0 .. W - 1, DivModUnique
  <2>6. QED
    BY <2>1, <2>5
<1>12. High64(m * q) = g /\ Low64(m * q) = n
  BY ONLY <1>6, <1>8, <1>9 DEF High64, Low64
<1>13. High64(a * b + m * q) = (h + g + c) % W
  BY ONLY <1>6, <1>11 DEF High64
<1>14. Low64(p.high + High64(m * q) + ((p.low + Low64(m * q)) \div Word)) = (h + g + c) % W
  BY ONLY <1>6, <1>7, <1>10, <1>12 DEF Low64
<1>15. QED
  BY ONLY <1>1, <1>5, <1>13, <1>14

\* The terms of m * DefaultQ.
LEMMA SolinasTerms ==
  ASSUME DefaultQ \in Moduli, NEW m \in Words
  PROVE  /\ 2 ^ Top \in 0 .. Word - 1 /\ 2 ^ Low \in 0 .. Word - 1
         /\ m * 2 ^ Top - m * 2 ^ Low + m = m * DefaultQ
<1>1. PICK W \in Nat : W = Word /\ W > 0 /\ Words = 0 .. W - 1
  BY WordFacts
<1>2. Top \in 0 .. Bits - 1 /\ Low \in 0 .. Bits - 1
  BY WordAssumption
<1>3. ASSUME NEW i \in 0 .. Bits - 1
      PROVE  2 ^ i \in 0 .. Word - 1
  <2>1. PICK x \in Nat, y \in Nat : x = 2 ^ i /\ y = 2 ^ (Bits - 1 - i) /\ x > 0 /\ W = (2 * x) * y
    BY <1>1, PowerFacts
  <2>2. y > 0
    BY ONLY <1>1, <2>1, x \in Nat, y \in Nat, W \in Nat
  <2>3. (2 * x) * y >= 2 * x
    BY ONLY <2>2, x \in Nat, y \in Nat
  <2>4. QED
    BY <1>1, <2>1, <2>3
<1>4. PICK t \in Nat, l \in Nat : t = 2 ^ Top /\ l = 2 ^ Low
  BY <1>1, <1>2, <1>3
<1>5. m \in Nat
  BY <1>1
<1>6. m * t - m * l + m = m * (t - l + 1)
  BY ONLY <1>5, t \in Nat, l \in Nat
<1>7. QED
  BY <1>2, <1>3, <1>4, <1>6 DEF DefaultQ

\* solinas_mont_mul_default_q.
LEMMA SolinasMulAgrees ==
  ASSUME DefaultQ \in Moduli, NEW a \in 0 .. DefaultQ - 1, NEW b \in 0 .. DefaultQ - 1
  PROVE  SolinasMul(a, b) = MontgomeryMul(a, b, DefaultQ)
<1> DEFINE q == DefaultQ
           m == Low64(Low64(a * b) * NegInverse[q])
<1>1. /\ a * b \in Nat /\ m \in Words /\ m * q \in Nat
      /\ a * b < q * Word /\ m * q < q * Word
      /\ MontgomeryMul(a, b, q) = CondSub(High64(a * b + m * q), q)
  BY MontgomeryParts
<1>2. m * 2 ^ Top - m * 2 ^ Low + m = m * q
  BY <1>1, SolinasTerms
<1>3. PICK n \in Nat : n = q /\ 4 * n <= Word
  BY ModulusFacts
<1>4. SolinasMul(a, b)
        = CondSub(High64((a * b + ((m * 2 ^ Top - m * 2 ^ Low + m) % (Word * Word))) % (Word * Word)), q)
  BY DEF SolinasMul
<1> HIDE DEF m, q
<1>5. PICK W \in Nat, x \in Nat, y \in Nat :
        W = Word /\ W > 0 /\ x = a * b /\ y = m * q /\ x < n * W /\ y < n * W /\ 4 * n <= W
  BY ONLY <1>1, <1>3, WordFacts
<1>6. 4 * (n * W) <= W * W /\ W * W \in Nat \ {0}
  <2>1. (4 * n) * W <= W * W
    BY ONLY <1>5, n \in Nat, W \in Nat
  <2>2. (4 * n) * W = 4 * (n * W)
    BY ONLY n \in Nat, W \in Nat
  <2>3. W * W > 0
    BY ONLY <1>5, W \in Nat
  <2>4. QED
    BY <2>1, <2>2, <2>3
<1>7. y % (W * W) = y /\ (x + y) % (W * W) = x + y
  <2>1. PICK V \in Nat \ {0}, z \in Nat : V = W * W /\ z = x + y
    BY <1>6
  <2>2. PICK k \in Nat : k = n * W
    OBVIOUS
  <2>3. x < k /\ y < k /\ 4 * k <= V
    BY <1>5, <1>6, <2>1, <2>2
  <2>4. y \in 0 .. V - 1 /\ z \in 0 .. V - 1
    BY ONLY <2>1, <2>3, x \in Nat, y \in Nat, V \in Nat, z \in Nat, k \in Nat
  <2>5. y % V = y /\ z % V = z
    BY ONLY <2>4, V \in Nat \ {0}, ModSmall
  <2>6. QED
    BY <2>1, <2>5
<1>8. QED
  BY ONLY <1>1, <1>2, <1>4, <1>5, <1>7 DEF q

\* The shifts, the borrow and the carry give the two words of m * DefaultQ.
LEMMA ShiftedMultipleHolds ==
  ASSUME DefaultQ \in Moduli, NEW m \in Words
  PROVE  Holds(ShiftedMultiple(m), m * DefaultQ)
<1>1. PICK W \in Nat : W = Word /\ W > 0 /\ Words = 0 .. W - 1 /\ W \in Nat \ {0}
  BY WordFacts
<1>2. PICK t \in 0 .. W - 1, l \in 0 .. W - 1, q \in Nat :
        t = 2 ^ Top /\ l = 2 ^ Low /\ q = DefaultQ /\ m * t - m * l + m = m * q /\ 4 * q <= W
  BY <1>1, SolinasTerms, ModulusFacts
<1>3. m \in 0 .. W - 1
  BY <1>1
<1> DEFINE Cut(x) == \E h \in 0 .. W - 1, r \in 0 .. W - 1 :
                       /\ r = x % W /\ h = (x \div W) % W
                       /\ x = W * h + r
<1>4. ASSUME NEW s \in 0 .. W - 1
      PROVE  Cut(m * s)
  <2>1. PICK x \in Nat : x = m * s
    <3>1. m \in Nat /\ s \in Nat
      BY <1>3
    <3>2. m * s \in Nat
      BY ONLY <3>1
    <3>3. QED
      BY <3>2
  <2>2. PICK r \in 0 .. W - 1, h \in Nat : r = x % W /\ h = x \div W /\ x = W * h + r
    <3>1. x % W \in 0 .. W - 1 /\ x = W * (x \div W) + (x % W)
      BY ONLY <1>1, x \in Nat, DivMod
    <3>2. x \div W \in Nat
      BY ONLY <1>1, x \in Nat
    <3>3. QED
      BY ONLY <3>1, <3>2
  <2>3. x < W * W
    BY ONLY <2>1, m \in 0 .. W - 1, s \in 0 .. W - 1, W \in Nat
  <2>4. W * h < W * W
    BY ONLY <2>2, <2>3, W \in Nat, h \in Nat, x \in Nat, r \in 0 .. W - 1
  <2>5. h < W
    BY ONLY <2>4, W \in Nat, h \in Nat
  <2>6. h \in 0 .. W - 1
    BY ONLY <2>5, W \in Nat, h \in Nat
  <2>7. h % W = h
    BY ONLY <1>1, <2>6, ModSmall
  <2>8. Cut(x)
    BY ONLY <2>2, <2>6, <2>7
  <2> HIDE DEF Cut
  <2>9. QED
    BY <2>1, <2>8
<1>5. PICK th \in 0 .. W - 1, tl \in 0 .. W - 1 :
        tl = Low64(m * t) /\ th = High64(m * t) /\ m * t = W * th + tl
  <2>1. Cut(m * t)
    <3> HIDE DEF Cut
    <3>1. QED
      BY <1>4
  <2>2. QED
    BY ONLY <1>1, <2>1 DEF Low64, High64
<1>6. PICK lh \in 0 .. W - 1, ll \in 0 .. W - 1 :
        ll = Low64(m * l) /\ lh = High64(m * l) /\ m * l = W * lh + ll
  <2>1. Cut(m * l)
    <3> HIDE DEF Cut
    <3>1. QED
      BY <1>4
  <2>2. QED
    BY ONLY <1>1, <2>1 DEF Low64, High64
<1> HIDE DEF Cut

\* The residue of a small number is the number or one word more or less.
<1>7. ASSUME NEW x \in Int, NEW k \in Int, x - W * k \in 0 .. W - 1
      PROVE  x % W = x - W * k
  <2>1. PICK r \in 0 .. W - 1 : r = x - W * k
    BY <1>7
  <2>2. x = W * k + r
    BY <2>1
  <2>3. x % W = r
    BY ONLY <1>1, <2>2, x \in Int, k \in Int, r \in 0 .. W - 1, DivModUnique
  <2>4. QED
    BY <2>1, <2>3
<1>8. PICK borrow \in {0, 1}, diff \in 0 .. W - 1 :
        /\ borrow = IF tl < ll THEN 1 ELSE 0
        /\ diff = tl - ll + W * borrow
  OBVIOUS
<1>9. Low64(tl - ll) = diff
  <2>1. (tl - ll) - W * (-borrow) = diff /\ -borrow \in Int /\ tl - ll \in Int
    BY <1>8
  <2>2. (tl - ll) % W = diff
    BY ONLY <1>7, <2>1, diff \in 0 .. W - 1
  <2>3. QED
    BY <1>1, <2>2 DEF Low64
<1>10. PICK carry \in {0, 1}, low \in 0 .. W - 1 :
         /\ carry = IF diff + m >= W THEN 1 ELSE 0
         /\ low = diff + m - W * carry
  BY ONLY <1>1, m \in 0 .. W - 1, <1>3, diff \in 0 .. W - 1, W \in Nat
<1>11. Low64(diff + m) = low
  <2>1. diff + m \in Int /\ carry \in Int /\ (diff + m) - W * carry = low
    BY <1>3, <1>10
  <2>2. (diff + m) % W = low
    BY ONLY <1>7, <2>1, low \in 0 .. W - 1
  <2>3. QED
    BY <1>1, <2>2 DEF Low64
<1>12. (IF low < diff THEN 1 ELSE 0) = carry
  <2>1. CASE diff + m >= W
    BY ONLY <1>1, <1>3, <1>10, <2>1, W \in Nat, diff \in 0 .. W - 1, low \in 0 .. W - 1
  <2>2. CASE ~(diff + m >= W)
    BY ONLY <1>1, <1>3, <1>10, <2>2, W \in Nat, diff \in 0 .. W - 1, low \in 0 .. W - 1
  <2>3. QED
    BY <2>1, <2>2
<1>13. PICK high \in Int : high = th - lh - borrow + carry
  OBVIOUS
<1>14. /\ ShiftedMultiple(m).low = low
       /\ ShiftedMultiple(m).high = high % W
  <2>1. (IF tl < ll THEN 1 ELSE 0) = borrow
    BY ONLY <1>8
  <2>2. QED
    BY ONLY <1>1, <1>2, <1>5, <1>6, <1>9, <1>11, <1>12, <1>13, <2>1 DEF ShiftedMultiple, Low64
<1>15. m * q = W * high + low
  <2>1. W * high = W * th - W * lh - W * borrow + W * carry
    BY ONLY <1>13, W \in Nat, th \in 0 .. W - 1, lh \in 0 .. W - 1, borrow \in {0, 1}, carry \in {0, 1}
  <2>2. PICK wt \in Int, wl \in Int, wb \in Int, wc \in Int :
          wt = W * th /\ wl = W * lh /\ wb = W * borrow /\ wc = W * carry
    OBVIOUS
  <2>3. m * q = wt + tl - (wl + ll) + m
    BY ONLY <1>2, <1>5, <1>6, <2>2
  <2>4. diff = tl - ll + wb /\ low = diff + m - wc
    BY ONLY <1>8, <1>10, <2>2
  <2>5. W * high = wt - wl - wb + wc
    BY ONLY <2>1, <2>2
  <2>6. W * high + low = wt + tl - (wl + ll) + m
    BY ONLY <1>3, <2>4, <2>5, wt \in Int, wl \in Int, wb \in Int, wc \in Int, W \in Nat,
       tl \in 0 .. W - 1, ll \in 0 .. W - 1, high \in Int
  <2>7. QED
    BY ONLY <2>3, <2>6
<1>16. high \in 0 .. W - 1
  <2>1. 0 <= m * q /\ m * q < W * W
    BY ONLY <1>2, <1>3, W \in Nat, q \in Nat
  <2>2. W * high < W * W /\ W * high > W * (-1)
    BY <1>15, <2>1
  <2>3. high < W /\ high > -1
    BY ONLY <2>2, W \in Nat, high \in Int, <1>1
  <2>4. QED
    BY <2>3
<1>17. high % W = high
  BY ONLY <1>1, <1>16, ModSmall
<1>18. QED
  BY ONLY <1>1, <1>2, <1>14, <1>15, <1>16, <1>17, low \in 0 .. W - 1 DEF Holds

\* solinas_mont_mul_x8.
LEMMA SolinasMulWideAgrees ==
  ASSUME DefaultQ \in Moduli, NEW a \in 0 .. DefaultQ - 1, NEW b \in 0 .. DefaultQ - 1
  PROVE  SolinasMulWide(a, b) = MontgomeryMul(a, b, DefaultQ)
<1> DEFINE q == DefaultQ
           p == SplitProduct(a, b)
           m == Low64(Low64(a * b) * NegInverse[q])
<1>1. /\ a * b \in Nat /\ m \in Words /\ m * q \in Nat
      /\ MontgomeryMul(a, b, q) = CondSub(High64(a * b + m * q), q)
  BY MontgomeryParts
<1>2. q \in Nat /\ a \in Words /\ b \in Nat /\ 4 * b <= Word
  BY ModulusFacts, WordFacts
<1>3. Holds(p, a * b)
  BY ONLY <1>2, SplitProductHolds
<1>4. p.low = Low64(a * b)
  BY ONLY <1>1, <1>3, HoldsWords DEF Low64
<1>5. SolinasMulWide(a, b) = CondSub(HighOfSum(p, ShiftedMultiple(m)), q)
  BY ONLY <1>4 DEF SolinasMulWide
<1> HIDE DEF m, p
<1>6. Holds(ShiftedMultiple(m), m * q)
  BY <1>1, ShiftedMultipleHolds
<1> HIDE DEF q
<1>7. HighOfSum(p, ShiftedMultiple(m)) = High64(a * b + m * q)
  BY ONLY <1>1, <1>3, <1>6, HighOfSumIsHigh
<1>8. QED
  BY ONLY <1>1, <1>5, <1>7 DEF q

\* Whatever kernel the host and the modulus select, the product is that of
\* montgomery_mul_at.
LEMMA KernelsAgree ==
  ASSUME NEW q \in Moduli, NEW k \in Kernels(q), NEW a \in 0 .. q - 1, NEW b \in 0 .. q - 1
  PROVE  Mul(k, a, b, q) = MontgomeryMul(a, b, q)
<1>1. CASE k = "classical"
  BY <1>1 DEF Mul
<1>2. CASE k = "split"
  BY <1>2, SplitMulAgrees DEF Mul
<1>3. CASE k = "splitScalar"
  BY <1>3, SplitMulScalarAgrees DEF Mul
<1>4. CASE k = "solinas" /\ q = DefaultQ
  <2>1. Mul(k, a, b, q) = SolinasMul(a, b)
    BY ONLY <1>4 DEF Mul
  <2>2. SolinasMul(a, b) = MontgomeryMul(a, b, q)
    BY <1>4, SolinasMulAgrees
  <2>3. QED
    BY <2>1, <2>2
<1>5. CASE k = "solinasWide" /\ q = DefaultQ
  <2>1. Mul(k, a, b, q) = SolinasMulWide(a, b)
    BY ONLY <1>5 DEF Mul
  <2>2. SolinasMulWide(a, b) = MontgomeryMul(a, b, q)
    BY <1>5, SolinasMulWideAgrees
  <2>3. QED
    BY <2>1, <2>2
<1>6. QED
  BY <1>1, <1>2, <1>3, <1>4, <1>5 DEF Kernels
-----------------------------------------------------------------------------
(* Standard form: Shoup, Barrett and signed values                         *)

\* A word stands for every number congruent to one it stands for.
LEMMA StandsSame ==
  ASSUME NEW q \in Moduli, NEW w, NEW x \in Int, NEW y \in Int, StandsFor(w, x, q), Same(x, y, q)
  PROVE  StandsFor(w, y, q)
<1>1. q \in Nat /\ Word \in Nat /\ w \in 0 .. q - 1 /\ w \in Int
  BY ModulusFacts DEF StandsFor
<1>2. PICK k \in Int : x = y + q * k
  BY DEF Same
<1>3. PICK l \in Int : w = x * Word + q * l
  BY DEF StandsFor, Same
<1>4. w = y * Word + q * (k * Word + l) /\ k * Word + l \in Int
  BY <1>1, <1>2, <1>3
<1>5. QED
  BY <1>1, <1>4 DEF StandsFor, Same

\* The quotient estimated with one word of precision is at most one too small.
LEMMA QuotientEstimate ==
  ASSUME NEW q \in Nat, NEW W \in Nat, W > 0, NEW a \in Nat, a < W, NEW c \in Nat,
         NEW B \in Nat, NEW e \in Nat, e <= q, c * W = q * B + e,
         NEW h \in Nat, NEW f \in Nat, f < W, a * B = W * h + f, q > 0
  PROVE  a * c - h * q >= 0 /\ a * c - h * q < 2 * q
<1> DEFINE d == a * c - h * q
<1>1. d \in Int
  OBVIOUS
<1>2. W * d = q * f + a * e
  <2>1. a * (c * W) = q * (a * B) + a * e
    <3>1. a * (q * B + e) = q * (a * B) + a * e
      BY ONLY a \in Nat, q \in Nat, B \in Nat, e \in Nat
    <3>2. QED
      BY <3>1
  <2>2. q * (W * h + f) = W * (h * q) + q * f
    BY ONLY q \in Nat, W \in Nat, h \in Nat, f \in Nat
  <2>3. q * (a * B) = q * (W * h + f)
    OBVIOUS
  <2>4. W * d = W * (a * c) - W * (h * q)
    BY ONLY q \in Nat, W \in Nat, h \in Nat, a \in Nat, c \in Nat
  <2>5. W * (a * c) = a * (c * W)
    BY ONLY W \in Nat, a \in Nat, c \in Nat
  <2>6. PICK x \in Nat, y \in Nat, z \in Nat, u \in Nat : x = W * (h * q) /\ y = q * f /\ z = a * e /\ u = W * (a * c)
    OBVIOUS
  <2> HIDE DEF d
  <2>7. QED
    BY ONLY <2>1, <2>2, <2>3, <2>4, <2>5, <2>6, x \in Nat, y \in Nat, z \in Nat, u \in Nat
<1>3. q * f < q * W /\ q * f \in Nat
  BY ONLY q \in Nat, W \in Nat, f \in Nat, f < W, q > 0
<1>4. a * e <= q * W /\ a * e \in Nat
  <2>1. a * e <= W * e
    BY ONLY a \in Nat, W \in Nat, e \in Nat, a < W
  <2>2. W * e <= W * q
    BY ONLY q \in Nat, W \in Nat, e \in Nat, e <= q
  <2>3. QED
    BY <2>1, <2>2
<1> HIDE DEF d
<1>5. W * d >= 0 /\ W * d < W * (2 * q)
  <2>1. W * (2 * q) = q * W + q * W
    OBVIOUS
  <2>2. QED
    BY ONLY <1>2, <1>3, <1>4, <2>1, q \in Nat, W \in Nat, q * W \in Nat
<1>6. d >= 0 /\ d < 2 * q
  BY ONLY <1>1, <1>5, W \in Nat, W > 0, q \in Nat
<1>7. QED
  BY <1>6 DEF d

\* A difference that fits below 2q is reduced by one conditional subtraction.
LEMMA ReduceOnce ==
  ASSUME NEW q \in Moduli, NEW x \in Nat, NEW h \in Nat, x - h * q >= 0, x - h * q < 2 * q
  PROVE  /\ CondSub(Low64(x - h * q), q) \in 0 .. q - 1
         /\ Same(CondSub(Low64(x - h * q), q), x, q)
<1>1. PICK W \in Nat \ {0} : W = Word
  BY WordFacts
<1>2. q \in Nat /\ q > 0 /\ 4 * q <= W
  BY <1>1, ModulusFacts
<1>3. PICK t \in Nat : t = x - h * q /\ t < 2 * q
  BY <1>2
<1>4. Low64(x - h * q) = t
  <2>1. t \in 0 .. W - 1
    BY <1>2, <1>3
  <2>2. t % W = t
    BY ONLY <1>1, <2>1, ModSmall
  <2>3. QED
    BY <1>1, <1>3, <2>2 DEF Low64
<1>5. CondSub(t, q) \in 0 .. q - 1 /\ Same(CondSub(t, q), t, q)
  BY <1>2, <1>3, CondSubReduces
<1>6. t = x + q * (-h) /\ -h \in Int
  BY <1>2, <1>3
<1>7. Same(t, x, q)
  BY <1>6 DEF Same
<1>8. Same(CondSub(t, q), x, q)
  BY <1>2, <1>5, <1>7, SameTransitive
<1>9. QED
  BY <1>4, <1>5, <1>8

\* shoup_mul_at: the product of any word with a residue, reduced.
LEMMA ShoupMulReduces ==
  ASSUME NEW q \in Moduli, NEW a \in Words, NEW b \in 0 .. q - 1
  PROVE  ShoupMul(a, b, q) \in 0 .. q - 1 /\ Same(ShoupMul(a, b, q), a * b, q)
<1>1. PICK W \in Nat \ {0} : W = Word /\ Words = 0 .. W - 1
  BY WordFacts
<1>2. q \in Nat \ {0} /\ q > 0
  BY ModulusFacts
<1>3. a \in Nat /\ a < W /\ b \in Nat
  BY <1>1, <1>2
<1>4. b * W \in Nat
  BY <1>3
<1>5. PICK B \in Nat, e \in Nat : B = (b * W) \div q /\ e <= q /\ b * W = q * B + e
  <2>1. PICK x \in Nat : x = b * W
    BY <1>4
  <2>2. x = q * (x \div q) + (x % q) /\ x % q \in 0 .. q - 1
    BY ONLY <1>2, x \in Nat, DivMod
  <2>3. x \div q \in Nat /\ x % q <= q /\ x % q \in Nat
    BY ONLY <1>2, <2>2, x \in Nat
  <2>4. QED
    BY ONLY <2>1, <2>2, <2>3
<1>6. PICK h \in Nat, f \in Nat : h = (a * B) \div W /\ f < W /\ a * B = W * h + f
  <2>1. PICK x \in Nat : x = a * B
    BY <1>3
  <2>2. x = W * (x \div W) + (x % W) /\ x % W \in 0 .. W - 1
    BY ONLY W \in Nat \ {0}, x \in Nat, DivMod
  <2>3. x \div W \in Nat /\ x % W < W /\ x % W \in Nat
    BY ONLY <2>2, W \in Nat \ {0}, x \in Nat
  <2>4. QED
    BY ONLY <2>1, <2>2, <2>3
<1>7. a * b - h * q >= 0 /\ a * b - h * q < 2 * q
  BY ONLY <1>2, <1>3, <1>5, <1>6, QuotientEstimate, W \in Nat \ {0}, B \in Nat, e \in Nat, h \in Nat, f \in Nat
<1>8. ShoupMul(a, b, q) = CondSub(Low64(a * b - h * q), q)
  BY ONLY <1>1, <1>5, <1>6 DEF ShoupMul, ShoupPrecompute
<1>9. PICK x \in Nat : x = a * b
  BY <1>3
<1>10. QED
  BY <1>7, <1>8, <1>9, ReduceOnce

\* reduce_by_public_modulus.
LEMMA BarrettReduces ==
  ASSUME NEW q \in Moduli, NEW a \in Words
  PROVE  /\ ReduceByPublicModulus(a, q) \in 0 .. q - 1
         /\ Same(ReduceByPublicModulus(a, q), a, q)
<1>1. PICK W \in Nat \ {0} : W = Word /\ Words = 0 .. W - 1
  BY WordFacts
<1>2. q \in Nat \ {0} /\ q > 0 /\ q < W
  BY <1>1, ModulusFacts
<1>3. a \in Nat /\ a < W
  BY <1>1
<1>4. PICK B \in Nat, e \in Nat : B = (W - 1) \div q /\ e <= q /\ 1 * W = q * B + e
  <2>1. PICK x \in Nat : x = W - 1
    OBVIOUS
  <2>2. x = q * (x \div q) + (x % q) /\ x % q \in 0 .. q - 1
    BY ONLY <1>2, x \in Nat, DivMod
  <2>3. PICK k \in Nat, r \in 0 .. q - 1 : k = x \div q /\ r = x % q /\ x = q * k + r
    <3>1. x \div q \in Nat
      BY ONLY <1>2, x \in Nat
    <3>2. QED
      BY <2>2, <3>1
  <2>4. r + 1 \in Nat /\ r + 1 <= q /\ 1 * W = q * k + (r + 1)
    BY <1>2, <2>1, <2>3
  <2>5. QED
    BY ONLY <2>1, <2>3, <2>4
<1>5. PICK h \in Nat, f \in Nat : h = (a * B) \div W /\ f < W /\ a * B = W * h + f
  <2>1. PICK x \in Nat : x = a * B
    BY <1>3
  <2>2. x = W * (x \div W) + (x % W) /\ x % W \in 0 .. W - 1
    BY ONLY W \in Nat \ {0}, x \in Nat, DivMod
  <2>3. x \div W \in Nat /\ x % W < W /\ x % W \in Nat
    BY ONLY <2>2, W \in Nat \ {0}, x \in Nat
  <2>4. QED
    BY ONLY <2>1, <2>2, <2>3
<1>6. a * 1 - h * q >= 0 /\ a * 1 - h * q < 2 * q /\ a * 1 = a
  <2>1. 1 \in Nat
    OBVIOUS
  <2>2. a * 1 - h * q >= 0 /\ a * 1 - h * q < 2 * q
    BY ONLY <1>2, <1>3, <1>4, <1>5, <2>1, QuotientEstimate, W \in Nat \ {0}, B \in Nat, e \in Nat, h \in Nat, f \in Nat
  <2>3. QED
    BY <1>3, <2>2
<1>7. h * q \in 0 .. W - 1 /\ h \in 0 .. W - 1
  <2>1. h * q \in Nat /\ h * q <= a
    BY <1>2, <1>3, <1>6
  <2>2. h <= h * q
    BY ONLY <1>2, h \in Nat
  <2>3. QED
    BY <1>3, <2>1, <2>2
<1>8. (h * q) % W = h * q /\ h % W = h
  <2>1. PICK y \in 0 .. W - 1 : y = h * q
    BY <1>7
  <2>2. y % W = y /\ h % W = h
    BY ONLY <1>7, W \in Nat \ {0}, y \in 0 .. W - 1, ModSmall
  <2>3. QED
    BY <2>1, <2>2
<1>9. ReduceByPublicModulus(a, q) = CondSub(Low64(a - h * q), q)
  BY ONLY <1>1, <1>4, <1>5, <1>8 DEF ReduceByPublicModulus, High64, Low64
<1>10. a - h * q >= 0 /\ a - h * q < 2 * q
  BY ONLY <1>6
<1>11. QED
  BY <1>3, <1>9, <1>10, ReduceOnce

\* from_signed.
LEMMA FromSignedReduces ==
  ASSUME NEW q \in Moduli, NEW v \in SignedWords
  PROVE  FromSigned(v, q) \in 0 .. q - 1 /\ Same(FromSigned(v, q), v, q)
<1>1. PICK W \in Nat \ {0} : W = Word /\ Words = 0 .. W - 1 /\ W > 8
  <2>1. PICK p \in Moduli : p = q
    OBVIOUS
  <2>2. QED
    BY ModulusFacts, WordFacts
<1>2. q \in Nat \ {0} /\ q > 0
  BY ModulusFacts
<1>3. v \in Int
  BY <1>1 DEF SignedWords
<1>4. PICK a \in 0 .. W - 1 : a = IF v < 0 THEN -v ELSE v
  BY <1>1 DEF SignedWords
<1>5. Low64(IF v < 0 THEN -v ELSE v) = a
  BY ONLY <1>1, <1>4, ModSmall DEF Low64
<1>6. PICK rem \in 0 .. q - 1 : rem = ReduceByPublicModulus(a, q) /\ Same(rem, a, q)
  BY <1>1, BarrettReduces
<1>7. FromSigned(v, q) = IF v < 0 THEN CondSub(q - rem, q) ELSE rem
  BY ONLY <1>5, <1>6 DEF FromSigned
<1>8. PICK k \in Int : rem = a + q * k
  BY <1>6 DEF Same
<1>9. CASE v < 0
  <2>1. q - rem \in Nat /\ q - rem < 2 * q
    BY <1>2
  <2>2. CondSub(q - rem, q) \in 0 .. q - 1 /\ Same(CondSub(q - rem, q), q - rem, q)
    BY <1>2, <2>1, CondSubReduces
  <2>3. q - rem = v + q * (1 - k) /\ 1 - k \in Int
    BY <1>2, <1>3, <1>4, <1>8, <1>9
  <2>4. Same(q - rem, v, q)
    BY <2>3 DEF Same
  <2>5. Same(CondSub(q - rem, q), v, q)
    BY <1>2, <1>3, <2>1, <2>2, <2>4, SameTransitive
  <2>6. QED
    BY <1>7, <1>9, <2>2, <2>5
<1>10. CASE ~(v < 0)
  BY <1>4, <1>6, <1>7, <1>10
<1>11. QED
  BY <1>9, <1>10

\* to_signed: the representative nearest to zero.
LEMMA ToSignedNearest ==
  ASSUME NEW q \in Moduli, NEW v \in 0 .. q - 1
  PROVE  ToSigned(v, q) % q = v /\ 2 * ToSigned(v, q) \in -q .. q
<1>1. q \in Nat \ {0} /\ v \in Int
  BY ModulusFacts
<1>2. v = q * 0 + v /\ v - q = q * (-1) + v
  BY <1>1
<1>3. v % q = v /\ (v - q) % q = v
  <2>1. 0 \in Int /\ -1 \in Int /\ v - q \in Int
    BY <1>1
  <2>2. QED
    BY ONLY <1>1, <1>2, <2>1, v \in 0 .. q - 1, DivModUnique
<1>4. -(q - v) = v - q
  BY <1>1
<1>5. ToSigned(v, q) = IF v <= q \div 2 THEN v ELSE v - q
  BY ONLY <1>4 DEF ToSigned
<1>6. (v <= q \div 2 => 2 * v \in -q .. q) /\ (~(v <= q \div 2) => 2 * (v - q) \in -q .. q)
  BY <1>1
<1>7. QED
  BY ONLY <1>3, <1>5, <1>6
-----------------------------------------------------------------------------
(* Powers                                                                  *)

\* p lists the powers of v up to the n-th.
IsPow(p, v, n) ==
  /\ p \in [0 .. n -> Nat]
  /\ \A i \in 0 .. n : p[i] = IF i = 0 THEN 1 ELSE p[i - 1] * v

\* Every natural number has its list of powers.
LEMMA PowExists ==
  ASSUME NEW v \in Nat, NEW n \in Nat
  PROVE  \E p : IsPow(p, v, n)
<1> DEFINE G == [i \in 0 .. n |-> [s \in Nat |-> s * v]]
<1>1. Recurs(Nat, n, 1, G)
  BY DEF Recurs
<1> HIDE DEF G
<1>2. PICK f : Solves(f, Nat, n, 1, G)
  BY ONLY <1>1, RecursionExists, Zenon
<1>3. ASSUME NEW i \in 0 .. n, i # 0
      PROVE  f[i] = f[i - 1] * v
  <2>1. i - 1 \in 0 .. n
    BY <1>3
  <2>2. f[i - 1] \in Nat
    BY <1>2, <2>1 DEF Solves
  <2>3. f[i] = G[i][f[i - 1]]
    BY <1>2, <1>3 DEF Solves
  <2>4. QED
    BY <2>2, <2>3 DEF G
<1>4. QED
  BY <1>2, <1>3 DEF IsPow, Solves

\* Two lists of powers of one number agree.
LEMMA PowUnique ==
  ASSUME NEW v \in Nat, NEW n \in Nat, NEW m \in Nat, NEW p, NEW r,
         IsPow(p, v, n), IsPow(r, v, m), n <= m
  PROVE  p[n] = r[n]
<1> DEFINE T == {i \in 0 .. n : p[i] = r[i]}
<1>1. 0 \in T
  BY DEF IsPow
<1>2. ASSUME NEW i \in 0 .. n, i # n, i \in T
      PROVE  i + 1 \in T
  <2>1. i + 1 \in 0 .. n /\ i + 1 \in 0 .. m /\ i + 1 # 0 /\ (i + 1) - 1 = i
    BY <1>2
  <2>2. p[i + 1] = p[i] * v /\ r[i + 1] = r[i] * v
    BY ONLY <2>1, IsPow(p, v, n), IsPow(r, v, m) DEF IsPow
  <2>3. QED
    BY <1>2, <2>1, <2>2
<1> HIDE DEF T
<1>3. \A i \in 0 .. n : i \in T
  BY <1>1, <1>2, Induction
<1>4. n \in 0 .. n
  OBVIOUS
<1>5. QED
  BY <1>3, <1>4 DEF T

\* The law of exponents.
LEMMA PowSum ==
  ASSUME NEW v \in Nat, NEW n \in Nat, NEW m \in Nat, NEW p, NEW r, NEW t,
         IsPow(p, v, n), IsPow(r, v, m), IsPow(t, v, n + m)
  PROVE  t[n + m] = p[n] * r[m] /\ p[n] \in Nat /\ r[m] \in Nat
<1> DEFINE T == {j \in 0 .. m : t[n + j] = p[n] * r[j]}
<1>1. \A j \in 0 .. m : r[j] \in Nat
  BY DEF IsPow
<1>2. p[n] \in Nat
  BY DEF IsPow
<1>3. 0 \in T
  <2>1. n + m \in Nat /\ n <= n + m /\ n + 0 = n
    OBVIOUS
  <2>2. t[n] = p[n]
    BY <2>1, PowUnique
  <2>3. r[0] = 1 /\ 0 \in 0 .. m
    BY DEF IsPow
  <2>4. QED
    BY <1>2, <2>1, <2>2, <2>3
<1>4. ASSUME NEW j \in 0 .. m, j # m, j \in T
      PROVE  j + 1 \in T
  <2>1. /\ j + 1 \in 0 .. m /\ j + 1 # 0 /\ (j + 1) - 1 = j
        /\ n + (j + 1) \in 0 .. n + m /\ n + (j + 1) # 0 /\ (n + (j + 1)) - 1 = n + j
    BY <1>4
  <2>2. r[j + 1] = r[j] * v
    BY ONLY <2>1, IsPow(r, v, m) DEF IsPow
  <2>3. t[n + (j + 1)] = t[n + j] * v
    BY ONLY <2>1, IsPow(t, v, n + m) DEF IsPow
  <2>4. t[n + j] = p[n] * r[j]
    BY <1>4
  <2>5. PICK x \in Nat, y \in Nat : x = p[n] /\ y = r[j]
    BY <1>1, <1>2
  <2>6. (x * y) * v = x * (y * v)
    OBVIOUS
  <2>7. t[n + (j + 1)] = p[n] * r[j + 1]
    BY ONLY <2>2, <2>3, <2>4, <2>5, <2>6
  <2>8. QED
    BY <2>1, <2>7
<1> HIDE DEF T
<1>5. \A j \in 0 .. m : j \in T
  BY <1>3, <1>4, Induction
<1>6. m \in 0 .. m
  OBVIOUS
<1>7. QED
  BY <1>1, <1>2, <1>5, <1>6 DEF T

\* The word w is the Montgomery form of v to the n.
Raised(w, v, n, q) == \E p : IsPow(p, v, n) /\ StandsFor(w, p[n], q)

\* The product of two powers is the power of the sum.
LEMMA RaisedProduct ==
  ASSUME NEW q \in Moduli, NEW v \in Nat, NEW n \in Nat, NEW m \in Nat, NEW y, NEW z,
         Raised(y, v, n, q), Raised(z, v, m, q)
  PROVE  Raised(MontgomeryMul(y, z, q), v, n + m, q)
<1>1. PICK p : IsPow(p, v, n) /\ StandsFor(y, p[n], q)
  BY DEF Raised
<1>2. PICK r : IsPow(r, v, m) /\ StandsFor(z, r[m], q)
  BY DEF Raised
<1>3. n + m \in Nat
  OBVIOUS
<1>4. PICK t : IsPow(t, v, n + m)
  BY <1>3, PowExists
<1>5. t[n + m] = p[n] * r[m] /\ p[n] \in Nat /\ r[m] \in Nat
  BY <1>1, <1>2, <1>4, PowSum
<1>6. PICK x \in Int, u \in Int : x = p[n] /\ u = r[m]
  BY <1>5
<1>7. StandsFor(y, x, q) /\ StandsFor(z, u, q)
  BY <1>1, <1>2, <1>6
<1>8. StandsFor(MontgomeryMul(y, z, q), x * u, q)
  BY <1>7, MulStands
<1>9. QED
  BY <1>4, <1>5, <1>6, <1>8 DEF Raised

\* The zeroth and the first power.
LEMMA RaisedBase ==
  ASSUME NEW q \in Moduli, NEW v \in Nat, NEW w
  PROVE  /\ StandsFor(w, 1, q) => Raised(w, v, 0, q)
         /\ StandsFor(w, v, q) => Raised(w, v, 1, q)
<1>1. PICK p : IsPow(p, v, 1)
  BY PowExists
<1>2. p[0] = 1 /\ p[1] = v
  <2>1. 0 \in 0 .. 1 /\ 1 \in 0 .. 1
    OBVIOUS
  <2>2. p[0] = 1 /\ p[1] = p[0] * v
    BY <1>1, <2>1 DEF IsPow
  <2>3. QED
    BY <2>2
<1>3. PICK r : IsPow(r, v, 0)
  BY PowExists
<1>4. r[0] = 1
  BY <1>3 DEF IsPow
<1>5. QED
  BY <1>1, <1>2, <1>3, <1>4 DEF Raised

\* The rounds of the loop exist.
LEMMA PowRounds ==
  ASSUME NEW q \in Moduli, NEW a \in 0 .. q - 1, NEW e \in Nat
  PROVE  \E r \in [0 .. Bits -> [result : 0 .. q - 1, base : 0 .. q - 1, exp : 0 .. e]] :
           /\ r[0] = [result |-> ToMontgomery(1, q), base |-> a, exp |-> e]
           /\ \A i \in 0 .. Bits : i # 0 => r[i] = PowRound(r[i - 1], q)
           /\ PowMod(a, e, q) = r[Bits].result
<1> DEFINE S == [result : 0 .. q - 1, base : 0 .. q - 1, exp : 0 .. e]
           s0 == [result |-> ToMontgomery(1, q), base |-> a, exp |-> e]
           G == [i \in 0 .. Bits |-> [s \in S |-> PowRound(s, q)]]
           F(g) == [i \in 0 .. Bits |-> IF i = 0 THEN s0 ELSE PowRound(g[i - 1], q)]
<1>0. Bits \in Nat
  BY WordAssumption
<1>1. s0 \in S
  <2>1. 1 \in 0 .. Word - 1
    BY ModulusFacts
  <2>2. ToMontgomery(1, q) \in 0 .. q - 1
    BY <2>1, ToMontgomeryStands DEF StandsFor
  <2>3. QED
    BY <2>2
<1>2. ASSUME NEW s \in S
      PROVE  PowRound(s, q) \in S
  <2>1. ASSUME NEW x \in 0 .. q - 1, NEW y \in 0 .. q - 1
        PROVE  MontgomeryMul(x, y, q) \in 0 .. q - 1
    <3>1. q \in Nat /\ q > 0 /\ q <= Word /\ Word \in Nat
      BY ModulusFacts
    <3>2. x \in Nat /\ y \in Nat /\ x * y < q * Word
      BY <3>1
    <3>3. QED
      BY <3>2, MontgomeryProduct
  <2>2. s.result \in 0 .. q - 1 /\ s.base \in 0 .. q - 1 /\ s.exp \in 0 .. e
    BY <1>2
  <2>3. s.exp \div 2 \in 0 .. e
    BY <2>2
  <2>4. QED
    BY <1>2, <2>1, <2>2, <2>3 DEF PowRound
<1> HIDE DEF S, s0
<1>3. G \in [0 .. Bits -> [S -> S]]
  BY <1>2
<1>4. PICK f : Solves(f, S, Bits, s0, G)
  <2> HIDE DEF G
  <2>1. Recurs(S, Bits, s0, G)
    BY <1>0, <1>1, <1>3 DEF Recurs
  <2>2. QED
    BY ONLY <1>0, <2>1, RecursionExists, Zenon
<1>5. ASSUME NEW i \in 0 .. Bits, i # 0
      PROVE  f[i - 1] \in S /\ f[i] = PowRound(f[i - 1], q)
  <2>1. i - 1 \in 0 .. Bits
    BY <1>0, <1>5
  <2>2. f[i - 1] \in S
    BY <1>4, <2>1 DEF Solves
  <2>3. f[i] = G[i][f[i - 1]]
    BY <1>4, <1>5 DEF Solves
  <2>4. QED
    BY <2>2, <2>3
<1>6. f = F(f)
  <2>1. f = [i \in 0 .. Bits |-> f[i]]
    BY <1>4 DEF Solves
  <2>2. f[0] = s0
    <3>1. 0 \in 0 .. Bits
      BY <1>0
    <3>2. f[0] = IF 0 = 0 THEN s0 ELSE G[0][f[0 - 1]]
      BY ONLY <1>4, <3>1, Zenon DEF Solves
    <3>3. QED
      BY ONLY <3>2, Zenon
  <2>3. QED
    BY <1>5, <2>1, <2>2
<1>7. PowMod(a, e, q) = (CHOOSE y : y = F(y))[Bits].result
  BY Zenon DEF PowMod, s0
<1>8. PICK y : y = F(y) /\ PowMod(a, e, q) = y[Bits].result
  <2> HIDE DEF F
  <2>1. QED
    BY <1>6, <1>7, Zenon
<1>9. 0 \in 0 .. Bits
  BY <1>0
<1>10. y[0] = s0 /\ \A i \in 0 .. Bits : i # 0 => y[i] = PowRound(y[i - 1], q)
  BY <1>8, <1>9
<1>11. \A i \in 0 .. Bits : y[i] \in S
  <2> DEFINE T == {i \in 0 .. Bits : y[i] \in S}
  <2>1. 0 \in T
    BY <1>1, <1>9, <1>10
  <2>2. ASSUME NEW i \in 0 .. Bits, i # Bits, i \in T
        PROVE  i + 1 \in T
    <3>1. i + 1 \in 0 .. Bits /\ i + 1 # 0 /\ (i + 1) - 1 = i
      BY <1>0, <2>2
    <3>2. y[i + 1] = PowRound(y[i], q) /\ y[i] \in S
      BY ONLY <1>10, <2>2, <3>1
    <3>3. QED
      BY <1>2, <3>1, <3>2
  <2> HIDE DEF T
  <2>3. \A i \in 0 .. Bits : i \in T
    BY <1>0, <2>1, <2>2, Induction
  <2>4. QED
    BY <2>3 DEF T
<1>12. y \in [0 .. Bits -> S]
  BY <1>8, <1>11
<1>13. QED
  BY <1>8, <1>10, <1>12 DEF S, s0

\* ModQ::pow: every round keeps result times base to the exp the power it began with.
LEMMA PowRaises ==
  ASSUME NEW q \in Moduli, NEW v \in Nat, NEW a, StandsFor(a, v, q), NEW e \in Words
  PROVE  Raised(PowMod(a, e, q), v, e, q)
<1>0. /\ Bits \in Nat /\ e \in Nat /\ e < 2 ^ Bits /\ 2 ^ 0 = 1
      /\ \A i \in 0 .. Bits : 2 ^ i \in Nat \ {0}
      /\ \A i \in 0 .. Bits : i # Bits => 2 ^ (i + 1) = 2 ^ i * 2
  <2>1. Bits \in Nat /\ Bits > 0
    BY WordAssumption
  <2>2. \A i \in 0 .. Bits : 2 ^ i \in Nat \ {0}
    BY ONLY <2>1, ExponentLaw
  <2>3. Bits \in 0 .. Bits
    BY ONLY <2>1
  <2>4. e \in Nat /\ e < 2 ^ Bits
    BY ONLY e \in Words, <2>2, <2>3 DEF Words, Word
  <2>5. 2 ^ 1 = 2 /\ 2 ^ 0 = 1
    BY ONLY TRUE
  <2>6. ASSUME NEW i \in 0 .. Bits, i # Bits
        PROVE  2 ^ (i + 1) = 2 ^ i * 2
    <3>1. i \in 0 .. 2 * Bits /\ 1 \in 0 .. 2 * Bits - i
      BY ONLY <2>1, <2>6
    <3>2. 2 ^ (i + 1) = 2 ^ i * 2 ^ 1
      BY ONLY <3>1, ExponentLaw
    <3>3. QED
      BY ONLY <2>5, <3>2
  <2>7. QED
    BY ONLY <2>1, <2>2, <2>4, <2>5, <2>6
<1>1. a \in 0 .. q - 1
  BY DEF StandsFor
<1>2. PICK r \in [0 .. Bits -> [result : 0 .. q - 1, base : 0 .. q - 1, exp : 0 .. e]] :
           /\ r[0] = [result |-> ToMontgomery(1, q), base |-> a, exp |-> e]
           /\ \A i \in 0 .. Bits : i # 0 => r[i] = PowRound(r[i - 1], q)
           /\ PowMod(a, e, q) = r[Bits].result
  BY <1>0, <1>1, PowRounds
<1> DEFINE Kept(s) == \E m \in Nat, c \in Nat :
                        e = m * s.exp + c /\ Raised(s.base, v, m, q) /\ Raised(s.result, v, c, q)
           T == {i \in 0 .. Bits : Kept(r[i]) /\ r[i].exp * 2 ^ i <= e}
<1>3. 0 \in T
  <2>1. 1 \in 0 .. Word - 1
    BY ONLY q \in Moduli, ModulusFacts
  <2>2. StandsFor(ToMontgomery(1, q), 1, q)
    BY <2>1, ToMontgomeryStands
  <2>3. Raised(ToMontgomery(1, q), v, 0, q) /\ Raised(a, v, 1, q)
    BY <2>2, RaisedBase
  <2>4. e = 1 * e + 0 /\ 0 \in Nat /\ 1 \in Nat
    BY ONLY <1>0
  <2>5. r[0].result = ToMontgomery(1, q) /\ r[0].base = a /\ r[0].exp = e
    BY <1>2
  <2>6. Kept(r[0])
    BY ONLY <2>3, <2>4, <2>5
  <2>7. r[0].exp * 2 ^ 0 <= e /\ 0 \in 0 .. Bits
    BY ONLY <1>0, <2>5
  <2> HIDE DEF Kept
  <2>8. QED
    BY <2>6, <2>7
<1>4. ASSUME NEW i \in 0 .. Bits, i # Bits, i \in T
      PROVE  i + 1 \in T
  <2>1. i + 1 \in 0 .. Bits /\ i + 1 # 0 /\ (i + 1) - 1 = i
    BY ONLY <1>0, <1>4
  <2>2. r[i + 1] = PowRound(r[i], q)
    BY ONLY <1>2, <2>1
  <2>3. PICK x \in 0 .. e, g \in 0 .. q - 1, h \in 0 .. q - 1 :
          r[i].exp = x /\ r[i].base = g /\ r[i].result = h
    BY <1>2
  <2>4. PICK m \in Nat, c \in Nat : e = m * x + c /\ Raised(g, v, m, q) /\ Raised(h, v, c, q)
    BY <1>4, <2>3
  <2>5. PICK y \in Nat \ {0} : y = 2 ^ i /\ 2 ^ (i + 1) = y * 2
    BY ONLY <1>0, <1>4
  <2>9. x * y <= e
    BY ONLY <1>4, <2>3, <2>5
  <2>6. CASE x = 0
    <3>1. r[i + 1] = r[i]
      BY ONLY <2>2, <2>3, <2>6 DEF PowRound
    <3>2. Kept(r[i + 1])
      BY <1>4, <3>1
    <3>3. r[i + 1].exp * 2 ^ (i + 1) <= e
      <4>1. r[i + 1].exp = 0
        BY ONLY <2>3, <2>6, <3>1
      <4>2. QED
        BY ONLY <1>0, <2>5, <4>1
    <3>4. QED
      BY <2>1, <3>2, <3>3
  <2>7. CASE x # 0
    <3>1. PICK x2 \in Nat, b \in {0, 1} : x2 = x \div 2 /\ b = x % 2 /\ x = 2 * x2 + b
      <4>1. x \in Nat
        BY ONLY <1>0, x \in 0 .. e
      <4>2. x \div 2 \in Nat
        BY ONLY <4>1
      <4>3. x % 2 = 0 \/ x % 2 = 1
        BY ONLY <4>1
      <4>4. x = 2 * (x \div 2) + (x % 2)
        <5>1. x \in Int /\ 2 \in Nat \ {0}
          BY ONLY <4>1
        <5>2. QED
          BY ONLY <5>1, DivMod
      <4>5. QED
        BY ONLY <4>2, <4>3, <4>4
    <3>2. PICK m2 \in Nat, cm \in Nat : m2 = m + m /\ cm = c + m
      OBVIOUS
    <3>3. Raised(MontgomeryMul(g, g, q), v, m2, q) /\ Raised(MontgomeryMul(h, g, q), v, cm, q)
      BY <2>4, <3>2, RaisedProduct
    <3>4. /\ r[i + 1].exp = x2 /\ r[i + 1].base = MontgomeryMul(g, g, q)
          /\ r[i + 1].result = IF b = 1 THEN MontgomeryMul(h, g, q) ELSE h
      BY ONLY <2>2, <2>3, <2>7, <3>1 DEF PowRound
    <3>5. m * x = m2 * x2 + m * b
      BY ONLY <3>1, <3>2, m \in Nat, x2 \in Nat, b \in {0, 1}
    <3>6. Kept(r[i + 1])
      <4>1. CASE b = 1
        <5>1. e = m2 * x2 + cm
          BY ONLY <2>4, <3>2, <3>5, <4>1, m \in Nat, c \in Nat, m2 * x2 \in Nat
        <5>2. QED
          BY ONLY <2>4, <3>3, <3>4, <4>1, <5>1, m2 \in Nat, cm \in Nat
      <4>2. CASE b = 0
        <5>1. e = m2 * x2 + c
          BY ONLY <2>4, <3>5, <4>2, m \in Nat, c \in Nat, m2 * x2 \in Nat
        <5>2. e = m2 * r[i + 1].exp + c /\ r[i + 1].result = h
          BY ONLY <3>4, <4>2, <5>1
        <5>3. Raised(r[i + 1].base, v, m2, q) /\ Raised(r[i + 1].result, v, c, q)
          BY ONLY <2>4, <3>3, <3>4, <5>2
        <5>4. QED
          BY ONLY <5>2, <5>3, m2 \in Nat, c \in Nat
      <4>3. QED
        BY <4>1, <4>2
    <3>7. r[i + 1].exp * 2 ^ (i + 1) <= e
      <4>1. x * y = x2 * (y * 2) + b * y
        BY ONLY <3>1, x2 \in Nat, b \in {0, 1}, y \in Nat \ {0}
      <4>2. PICK u \in Nat, w \in Nat : u = x2 * (y * 2) /\ w = b * y
        BY ONLY x2 \in Nat, b \in {0, 1}, y \in Nat \ {0}
      <4>3. x * y = u + w
        BY ONLY <4>1, <4>2
      <4>4. u <= e
        BY ONLY <1>0, <2>9, <4>3, u \in Nat, w \in Nat
      <4>5. QED
        BY ONLY <2>5, <3>4, <4>2, <4>4
    <3>8. QED
      BY ONLY <2>1, <3>6, <3>7
  <2>8. QED
    BY <2>6, <2>7
<1> HIDE DEF T
<1>5. \A i \in 0 .. Bits : i \in T
  BY <1>0, <1>3, <1>4, Induction
<1>6. Bits \in T /\ Bits \in 0 .. Bits
  BY <1>0, <1>5
<1>7. Kept(r[Bits]) /\ r[Bits].exp * 2 ^ Bits <= e
  BY <1>6 DEF T
<1>8. r[Bits].exp = 0
  <2>1. PICK x \in Nat, y \in Nat : x = r[Bits].exp /\ y = 2 ^ Bits
    BY <1>0, <1>2, <1>6
  <2>2. x * y <= e /\ e < y
    BY ONLY <1>0, <1>7, <2>1
  <2>3. x >= 1 => x * y >= y
    BY ONLY x \in Nat, y \in Nat
  <2>4. QED
    BY ONLY <1>0, <2>1, <2>2, <2>3, x \in Nat, y \in Nat
<1>9. PICK m \in Nat, c \in Nat : e = m * 0 + c /\ Raised(r[Bits].result, v, c, q)
  BY ONLY <1>7, <1>8
<1>10. c = e
  BY ONLY <1>0, <1>9
<1>11. QED
  BY ONLY <1>2, <1>9, <1>10

\* Powers reduced at every factor are the powers reduced at the end.
LEMMA ResiduePower ==
  ASSUME NEW q \in Nat, q > 1, NEW v \in Nat, NEW e \in Nat, NEW s0, s0 = 1, NEW p, IsPow(p, v, e),
         NEW y, y = CHOOSE g : g = [k \in 0 .. e |-> IF k = 0 THEN s0 ELSE (g[k - 1] * v) % q]
  PROVE  y[e] = p[e] % q
<1> DEFINE F(g) == [k \in 0 .. e |-> IF k = 0 THEN s0 ELSE (g[k - 1] * v) % q]
           G == [k \in 0 .. e |-> [s \in Nat |-> (s * v) % q]]
<1>1. ASSUME NEW s \in Nat
      PROVE  (s * v) % q \in Nat
  <2>1. PICK x \in Nat : x = s * v
    OBVIOUS
  <2>2. x % q \in Nat
    BY ONLY x \in Nat, q \in Nat, q > 1
  <2>3. QED
    BY <2>1, <2>2
<1>2. PICK f : Solves(f, Nat, e, s0, G)
  <2>1. Recurs(Nat, e, s0, G)
    BY <1>1 DEF Recurs
  <2> HIDE DEF G
  <2>2. QED
    BY ONLY <2>1, RecursionExists, Zenon
<1>3. f = F(f)
  <2>1. f = [k \in 0 .. e |-> f[k]]
    BY <1>2 DEF Solves
  <2>2. ASSUME NEW k \in 0 .. e
        PROVE  f[k] = IF k = 0 THEN s0 ELSE (f[k - 1] * v) % q
    <3>1. k # 0 => f[k - 1] \in Nat
      BY <1>2 DEF Solves
    <3>2. f[k] = IF k = 0 THEN s0 ELSE G[k][f[k - 1]]
      BY ONLY <1>2, k \in 0 .. e, Zenon DEF Solves
    <3>3. QED
      BY <3>1, <3>2
  <2>3. QED
    BY ONLY <2>1, <2>2, Zenon
<1>4. y = F(y)
  <2>1. y = CHOOSE g : g = F(g)
    OBVIOUS
  <2> HIDE DEF F
  <2>2. QED
    BY ONLY <1>3, <2>1, Zenon
<1>5. \A k \in 0 .. e : y[k] = IF k = 0 THEN s0 ELSE (y[k - 1] * v) % q
  BY ONLY <1>4, Zenon
<1> DEFINE T == {k \in 0 .. e : y[k] = p[k] % q}
<1>6. \A k \in 0 .. e : p[k] = IF k = 0 THEN 1 ELSE p[k - 1] * v
  BY DEF IsPow
<1>7. \A k \in 0 .. e : p[k] \in Nat
  BY DEF IsPow
<1>8. 0 \in T
  <2>0. 0 \in 0 .. e
    OBVIOUS
  <2>1. y[0] = 1 /\ p[0] = 1
    BY ONLY <1>5, <1>6, <2>0, s0 = 1
  <2>2. 1 % q = 1
    BY ONLY q \in Nat, q > 1
  <2>3. QED
    BY ONLY <2>0, <2>1, <2>2
<1>9. ASSUME NEW k \in 0 .. e, k # e, k \in T
      PROVE  k + 1 \in T
  <2>1. k + 1 \in 0 .. e /\ k + 1 # 0 /\ (k + 1) - 1 = k
    BY <1>9
  <2>2. y[k + 1] = (y[k] * v) % q /\ p[k + 1] = p[k] * v
    BY ONLY <1>5, <1>6, <2>1
  <2>3. PICK x \in Nat : x = p[k]
    BY <1>7
  <2>4. y[k] = x % q
    BY <1>9, <2>3
  <2>5. ((x % q) * v) % q = (x * v) % q
    <3>1. q \in Nat \ {0}
      OBVIOUS
    <3>2. PICK r \in Int : r = x % q
      BY ONLY x \in Nat, q \in Nat, q > 1
    <3>3. Same(r, x, q)
      BY ONLY <3>1, <3>2, x \in Nat, SameMod
    <3>4. Same(v, v, q)
      BY SameReflexive
    <3>5. Same(r * v, x * v, q)
      BY ONLY <3>1, <3>3, <3>4, r \in Int, x \in Nat, v \in Nat, SameProduct
    <3>6. PICK a \in Int, b \in Int : a = r * v /\ b = x * v
      OBVIOUS
    <3>7. a % q = b % q
      BY ONLY <3>1, <3>5, <3>6, a \in Int, b \in Int, SameRemainders
    <3>8. QED
      BY <3>2, <3>6, <3>7
  <2>6. y[k + 1] = p[k + 1] % q
    BY ONLY <2>2, <2>3, <2>4, <2>5
  <2>7. QED
    BY <2>1, <2>6
<1> HIDE DEF T
<1>10. \A k \in 0 .. e : k \in T
  BY <1>8, <1>9, Induction
<1>11. e \in 0 .. e
  OBVIOUS
<1>12. QED
  BY ONLY <1>10, <1>11 DEF T

\* Power of Residues.
LEMMA PowerReads ==
  ASSUME NEW q \in Moduli, NEW v \in Nat, NEW e \in Nat, NEW p, IsPow(p, v, e)
  PROVE  R!Power(v, e, q) = p[e] % q
<1>1. q \in Nat /\ q > 1 /\ 1 % q = 1
  BY ModulusFacts, ModSmall
<1>2. PICK y : y = CHOOSE g : g = [k \in 0 .. e |-> IF k = 0 THEN 1 % q ELSE (g[k - 1] * v) % q]
  BY Zenon
<1>3. R!Power(v, e, q) = y[e]
  BY <1>2, Zenon DEF R!Power, R!Product
<1>4. PICK s0 : s0 = 1 % q
  BY Zenon
<1>5. y = CHOOSE g : g = [k \in 0 .. e |-> IF k = 0 THEN s0 ELSE (g[k - 1] * v) % q]
  BY <1>2, <1>4, Zenon
<1>6. y[e] = p[e] % q
  BY ONLY <1>1, <1>4, <1>5, q \in Nat, v \in Nat, e \in Nat, IsPow(p, v, e), ResiduePower
<1>7. QED
  BY <1>3, <1>6

\* An even power is a square.
LEMMA PowHalf ==
  ASSUME NEW v \in Nat, NEW n \in Nat, NEW p, IsPow(p, v, n), NEW h \in Nat, h + h <= n
  PROVE  p[h + h] = p[h] * p[h] /\ p[h] \in Nat
<1>1. PICK t : IsPow(t, v, h)
  BY PowExists
<1>2. PICK m \in Nat : m = h + h
  OBVIOUS
<1>3. PICK s : IsPow(s, v, m)
  BY PowExists
<1>4. s[m] = t[h] * t[h] /\ t[h] \in Nat
  BY ONLY <1>1, <1>2, <1>3, v \in Nat, h \in Nat, PowSum
<1>5. h <= n /\ m <= n
  BY <1>2
<1>6. s[m] = p[m]
  BY ONLY <1>3, <1>5, m \in Nat, n \in Nat, v \in Nat, IsPow(p, v, n), PowUnique
<1>7. t[h] = p[h]
  BY ONLY <1>1, <1>5, h \in Nat, n \in Nat, v \in Nat, IsPow(p, v, n), PowUnique
<1>8. QED
  BY ONLY <1>2, <1>4, <1>6, <1>7

\* Fermat's theorem on the powers of v: halving the exponent finds them reduced.
LEMMA FermatPower ==
  ASSUME NEW q \in Moduli, NEW v \in 1 .. q - 1, NEW p, IsPow(p, v, q - 1)
  PROVE  p[q - 1] % q = 1
<1> DEFINE n == q - 1
           F(g) == [k \in 0 .. n |-> IF k = 0 THEN 1
                                     ELSE IF k % 2 = 0 THEN (g[k \div 2] * g[k \div 2]) % q
                                     ELSE (g[k - 1] * v) % q]
           f == [k \in 0 .. n |-> p[k] % q]
<1>1. q \in Nat \ {0} /\ q > 1 /\ n \in Nat /\ v \in Nat
  BY ModulusFacts
<1>2. \A k \in 0 .. n : p[k] \in Nat /\ p[k] = IF k = 0 THEN 1 ELSE p[k - 1] * v
  BY DEF IsPow
<1>3. ASSUME NEW k \in 0 .. n, k # 0
      PROVE  /\ k % 2 = 0 =>
                  /\ (k \div 2) \in 0 .. k - 1
                  /\ p[k] % q = ((p[k \div 2] % q) * (p[k \div 2] % q)) % q
             /\ k - 1 \in 0 .. k - 1 /\ p[k] % q = ((p[k - 1] % q) * v) % q
  <2>0. k \in Nat
    BY ONLY <1>1, <1>3
  <2>1. ASSUME k % 2 = 0
        PROVE  /\ (k \div 2) \in 0 .. k - 1
               /\ p[k] % q = ((p[k \div 2] % q) * (p[k \div 2] % q)) % q
    <3>1. PICK h \in Nat : h = k \div 2 /\ k = h + h /\ h \in 0 .. k - 1 /\ h \in 0 .. n
      <4>1. PICK h \in Int : h = k \div 2 /\ k = 2 * h
        <5>1. k \in Int /\ 2 \in Nat \ {0}
          BY ONLY <2>0
        <5>2. k = 2 * (k \div 2) + (k % 2) /\ (k \div 2) \in Int
          BY ONLY <5>1, DivMod
        <5>3. QED
          BY ONLY <2>1, <5>2
      <4>2. QED
        BY ONLY <1>1, <1>3, <2>0, <4>1
    <3>2. p[k] = p[h] * p[h] /\ p[h] \in Nat
      <4>1. h + h <= n
        BY ONLY <1>3, <3>1, <1>1
      <4>2. QED
        BY ONLY <1>1, <3>1, <4>1, IsPow(p, v, q - 1), PowHalf
    <3>3. (p[h] * p[h]) % q = ((p[h] % q) * (p[h] % q)) % q
      BY ONLY <1>1, <3>2, ReducedFactors
    <3>4. QED
      BY ONLY <3>1, <3>2, <3>3
  <2>2. k - 1 \in 0 .. k - 1 /\ p[k] % q = ((p[k - 1] % q) * v) % q
    <3>1. k - 1 \in 0 .. k - 1 /\ k - 1 \in 0 .. n
      BY ONLY <1>1, <1>3, <2>0
    <3>2. p[k] = p[k - 1] * v /\ p[k - 1] \in Nat
      BY ONLY <1>2, <1>3, <3>1
    <3>3. (p[k - 1] * v) % q = ((p[k - 1] % q) * v) % q
      BY ONLY <1>1, <3>2, ReducedFactors
    <3>4. QED
      BY ONLY <3>1, <3>2, <3>3
  <2>3. QED
    BY <2>1, <2>2
<1>4. p[0] % q = 1 /\ 0 \in 0 .. n
  <2>1. 0 \in 0 .. n /\ p[0] = 1
    BY ONLY <1>1, <1>2
  <2>2. 1 % q = 1
    BY ONLY <1>1
  <2>3. QED
    BY ONLY <2>1, <2>2
<1>5. f = F(f)
  <2>1. ASSUME NEW k \in 0 .. n
        PROVE  f[k] = IF k = 0 THEN 1
                      ELSE IF k % 2 = 0 THEN (f[k \div 2] * f[k \div 2]) % q
                      ELSE (f[k - 1] * v) % q
    <3>1. CASE k = 0
      BY ONLY <1>4, <3>1
    <3>2. CASE k # 0
      <4>1. k - 1 \in 0 .. n /\ (k % 2 = 0 => (k \div 2) \in 0 .. n)
        <5>1. \A j \in 0 .. k - 1 : j \in 0 .. n
          BY ONLY <1>1, k \in 0 .. n
        <5>2. QED
          BY <1>3, <3>2, <5>1
      <4>2. f[k] = p[k] % q /\ f[k - 1] = p[k - 1] % q
        BY ONLY <4>1, k \in 0 .. n, Zenon
      <4>3. k % 2 = 0 => f[k \div 2] = p[k \div 2] % q
        BY ONLY <4>1, Zenon
      <4> HIDE DEF f
      <4>4. QED
        BY ONLY <1>3, <3>2, <4>2, <4>3, k \in 0 .. n, Zenon
    <3>3. QED
      BY <3>1, <3>2
  <2>2. f = [k \in 0 .. n |-> f[k]]
    BY Zenon
  <2> HIDE DEF f
  <2>3. QED
    BY ONLY <2>1, <2>2, Zenon
<1>6. PICK y : y = CHOOSE g : g = F(g)
  BY Zenon
<1>7. y[q - 1] = 1
  BY ONLY <1>6, Fermat, q \in Moduli, v \in 1 .. q - 1, Zenon
<1> HIDE DEF f
<1>8. y = F(y)
  <2> HIDE DEF F
  <2>1. QED
    BY ONLY <1>5, <1>6, Zenon
<1>9. \A k \in 0 .. n : y[k] = IF k = 0 THEN 1
                               ELSE IF k % 2 = 0 THEN (y[k \div 2] * y[k \div 2]) % q
                               ELSE (y[k - 1] * v) % q
  BY ONLY <1>8, Zenon
<1> DEFINE T == {k \in 0 .. n : \A j \in 0 .. k : y[j] = p[j] % q}
<1>10. 0 \in T
  <2>1. y[0] = 1
    BY ONLY <1>4, <1>9
  <2>2. \A j \in 0 .. 0 : j = 0
    BY ONLY TRUE
  <2>3. QED
    BY ONLY <1>4, <2>1, <2>2
<1>11. ASSUME NEW i \in 0 .. n, i # n, i \in T
       PROVE  i + 1 \in T
  <2>1. PICK k \in 0 .. n : k = i + 1 /\ k # 0
    BY ONLY <1>1, <1>11
  <2>2. \A j \in 0 .. k - 1 : y[j] = p[j] % q
    BY ONLY <1>1, <1>11, <2>1
  <2>3. y[k] = p[k] % q
    <3>1. CASE k % 2 = 0
      <4>1. y[k] = (y[k \div 2] * y[k \div 2]) % q
        BY ONLY <1>9, <2>1, <3>1, Zenon
      <4>2. (k \div 2) \in 0 .. k - 1 /\ p[k] % q = ((p[k \div 2] % q) * (p[k \div 2] % q)) % q
        BY ONLY <1>3, <2>1, <3>1, Zenon
      <4>3. y[k \div 2] = p[k \div 2] % q
        BY ONLY <2>2, <4>2, Zenon
      <4>4. QED
        BY ONLY <4>1, <4>2, <4>3, Zenon
    <3>2. CASE k % 2 # 0
      <4>1. y[k] = (y[k - 1] * v) % q
        BY ONLY <1>9, <2>1, <3>2, Zenon
      <4>2. k - 1 \in 0 .. k - 1 /\ p[k] % q = ((p[k - 1] % q) * v) % q
        BY ONLY <1>3, <2>1, Zenon
      <4>3. y[k - 1] = p[k - 1] % q
        BY ONLY <2>2, <4>2, Zenon
      <4>4. QED
        BY ONLY <4>1, <4>2, <4>3, Zenon
    <3>3. QED
      BY <3>1, <3>2
  <2>4. \A j \in 0 .. k : j \in 0 .. k - 1 \/ j = k
    BY ONLY <1>1, <2>1
  <2>5. \A j \in 0 .. k : y[j] = p[j] % q
    BY ONLY <2>2, <2>3, <2>4
  <2>6. QED
    BY ONLY <2>1, <2>5
<1> HIDE DEF T
<1>12. \A k \in 0 .. n : k \in T
  BY ONLY <1>1, <1>10, <1>11, Induction
<1>13. n \in T /\ n \in 0 .. n
  BY ONLY <1>1, <1>12
<1>14. y[n] = p[n] % q
  BY ONLY <1>13 DEF T
<1>15. QED
  BY ONLY <1>7, <1>14
-----------------------------------------------------------------------------
(* The operations in Montgomery form                                       *)

\* mul_acc_ntt_domain and the products of the other callers, by any kernel.
LEMMA KernelStands ==
  ASSUME NEW q \in Moduli, NEW k \in Kernels(q), NEW a, NEW b, NEW x \in Int, NEW y \in Int,
         StandsFor(a, x, q), StandsFor(b, y, q)
  PROVE  StandsFor(Mul(k, a, b, q), x * y, q)
<1>1. a \in 0 .. q - 1 /\ b \in 0 .. q - 1
  BY DEF StandsFor
<1>2. Mul(k, a, b, q) = MontgomeryMul(a, b, q)
  BY <1>1, KernelsAgree
<1>3. QED
  BY <1>2, MulStands

\* mul_acc_ntt_domain, by any kernel.
LEMMA MulAccStands ==
  ASSUME NEW q \in Moduli, NEW k \in Kernels(q), NEW acc, NEW a, NEW b,
         NEW v \in Int, NEW x \in Int, NEW y \in Int,
         StandsFor(acc, v, q), StandsFor(a, x, q), StandsFor(b, y, q)
  PROVE  StandsFor(MulAcc(k, acc, a, b, q), v + x * y, q)
<1>1. PICK z \in Int : z = x * y
  OBVIOUS
<1>2. StandsFor(Mul(k, a, b, q), z, q)
  BY <1>1, KernelStands
<1>3. StandsFor(AddMod(acc, Mul(k, a, b, q), q), v + z, q)
  BY <1>2, AddStands
<1>4. QED
  BY <1>1, <1>3 DEF MulAcc

\* A sum of four residues does not wrap, and three conditional subtractions reduce it.
LEMMA ReduceFour ==
  ASSUME NEW q \in Moduli, NEW t \in Nat, t < 4 * q
  PROVE  /\ CondSub(CondSub(CondSub(Low64(t), q), q), q) \in 0 .. q - 1
         /\ Same(CondSub(CondSub(CondSub(Low64(t), q), q), q), t, q)
<1>1. PICK W \in Nat \ {0} : W = Word /\ 4 * q <= W /\ q \in Nat /\ q > 0
  BY WordFacts, ModulusFacts
<1>2. t \in 0 .. W - 1
  BY <1>1
<1>3. Low64(t) = t
  BY ONLY <1>1, <1>2, ModSmall DEF Low64
<1> DEFINE r == CondSub(CondSub(CondSub(t, q), q), q)
<1>4. r \in 0 .. q - 1 /\ (r = t \/ r = t - q \/ r = t - 2 * q \/ r = t - 3 * q)
  BY <1>1, <1>2 DEF CondSub
<1> HIDE DEF r
<1>5. t = t + q * 0 /\ t - q = t + q * (-1) /\ t - 2 * q = t + q * (-2) /\ t - 3 * q = t + q * (-3)
  BY ONLY <1>1, q \in Nat, t \in 0 .. W - 1
<1>6. PICK k \in {0, -1, -2, -3} : r = t + q * k
  BY ONLY <1>4, <1>5
<1>7. Same(r, t, q)
  BY <1>6 DEF Same
<1>8. QED
  BY <1>3, <1>4, <1>7 DEF r

\* mul_acc3_ntt_domain.
LEMMA MulAcc3Stands ==
  ASSUME NEW q \in Moduli, NEW k \in Kernels(q), NEW acc, NEW a, NEW b,
         NEW v \in Int, NEW x \in Int, NEW y \in Int,
         StandsFor(acc, v, q), StandsFor(a, x, q), StandsFor(b, y, q)
  PROVE  StandsFor(MulAcc3(k, acc, <<a, b, a>>, <<b, a, b>>, q), v + 3 * (x * y), q)
<1>1. q \in Nat /\ Word \in Nat /\ acc \in 0 .. q - 1
  BY ModulusFacts DEF StandsFor
<1>2. PICK z \in Int : z = x * y
  OBVIOUS
<1>3. PICK m, n : m = Mul(k, a, b, q) /\ n = Mul(k, b, a, q)
  BY Zenon
<1>4. StandsFor(m, z, q) /\ StandsFor(n, z, q)
  <2>1. y * x = z
    BY <1>2
  <2>2. QED
    BY <1>2, <1>3, <2>1, KernelStands
<1>5. m \in 0 .. q - 1 /\ n \in 0 .. q - 1
  BY <1>4 DEF StandsFor
<1>6. MulAcc3(k, acc, <<a, b, a>>, <<b, a, b>>, q)
        = CondSub(CondSub(CondSub(Low64(acc + m + n + m), q), q), q)
  BY ONLY <1>3 DEF MulAcc3
<1>7. PICK r \in 0 .. q - 1, j \in Int :
        /\ r = CondSub(CondSub(CondSub(Low64(acc + m + n + m), q), q), q)
        /\ r = acc + m + n + m + q * j
  <2>1. PICK t \in Nat : t = acc + m + n + m /\ t < 4 * q
    BY ONLY <1>1, <1>5
  <2>2. PICK s \in 0 .. q - 1 : s = CondSub(CondSub(CondSub(Low64(t), q), q), q) /\ Same(s, t, q)
    BY <2>1, ReduceFour
  <2>3. QED
    BY ONLY <2>1, <2>2 DEF Same
<1>8. PICK e \in Int : acc = v * Word + q * e
  BY DEF StandsFor, Same
<1>9. PICK f \in Int : m = z * Word + q * f
  BY <1>4 DEF StandsFor, Same
<1>10. PICK g \in Int : n = z * Word + q * g
  BY <1>4 DEF StandsFor, Same
<1>11. r = (v + 3 * z) * Word + q * (e + f + g + f + j) /\ e + f + g + f + j \in Int
  BY ONLY <1>1, <1>7, <1>8, <1>9, <1>10, v \in Int, z \in Int, e \in Int, f \in Int, g \in Int, j \in Int,
     r \in 0 .. q - 1
<1>12. Same(r, (v + 3 * z) * Word, q)
  BY <1>11 DEF Same
<1>13. QED
  BY <1>2, <1>6, <1>7, <1>12 DEF StandsFor

\* shoup_mul_at keeps the form of its first factor.
LEMMA ShoupStands ==
  ASSUME NEW q \in Moduli, NEW a, NEW x \in Int, StandsFor(a, x, q), NEW b \in 0 .. q - 1
  PROVE  StandsFor(ShoupMul(a, b, q), x * b, q)
<1>1. q \in Nat /\ Word \in Nat /\ a \in 0 .. q - 1 /\ a \in Words
  BY ModulusFacts, WordFacts DEF StandsFor
<1>2. PICK r \in 0 .. q - 1 : r = ShoupMul(a, b, q) /\ Same(r, a * b, q)
  BY <1>1, ShoupMulReduces
<1>3. PICK k \in Int : r = a * b + q * k
  BY <1>2 DEF Same
<1>4. PICK l \in Int : a = x * Word + q * l
  BY DEF StandsFor, Same
<1>5. r = (x * b) * Word + q * (l * b + k) /\ l * b + k \in Int
  BY <1>1, <1>3, <1>4
<1>6. Same(r, (x * b) * Word, q)
  BY <1>5 DEF Same
<1>7. QED
  BY <1>2, <1>6 DEF StandsFor

\* ModQ::inv: Fermat's power is an inverse.
LEMMA InverseReads ==
  ASSUME NEW q \in Moduli, NEW w \in 0 .. q - 1, FromMontgomery(w, q) # 0
  PROVE  /\ InvMod(w, q) \in 0 .. q - 1
         /\ FromMontgomery(InvMod(w, q), q) \in 0 .. q - 1
         /\ (FromMontgomery(w, q) * FromMontgomery(InvMod(w, q), q)) % q = 1
<1>1. q \in Nat \ {0} /\ q >= 3 /\ q - 2 \in Nat /\ q - 1 \in Nat /\ (q - 2) + 1 = q - 1
  BY ModulusFacts
<1>2. PICK v \in 1 .. q - 1 : v = FromMontgomery(w, q) /\ StandsFor(w, v, q)
  BY ReducedStands
<1>3. v \in Nat
  BY <1>1
<1>4. Raised(InvMod(w, q), v, q - 2, q)
  <2>1. q - 2 \in Words
    BY ModulusFacts DEF Words
  <2>2. QED
    BY <1>2, <1>3, <2>1, PowRaises DEF InvMod
<1>5. PICK p : IsPow(p, v, q - 2) /\ StandsFor(InvMod(w, q), p[q - 2], q)
  BY <1>4 DEF Raised
<1>6. PICK r : IsPow(r, v, q - 1)
  BY <1>1, <1>3, PowExists
<1>7. PICK z \in Nat : z = p[q - 2]
  BY <1>1, <1>5 DEF IsPow
<1>8. r[q - 1] = z * v
  <2>1. r[q - 2] = p[q - 2]
    BY ONLY <1>1, <1>3, <1>5, <1>6, PowUnique
  <2>2. q - 1 \in 0 .. q - 1 /\ q - 1 # 0 /\ (q - 1) - 1 = q - 2
    BY <1>1
  <2>3. r[q - 1] = r[q - 2] * v
    BY ONLY <1>6, <2>2 DEF IsPow
  <2>4. QED
    BY ONLY <1>7, <2>1, <2>3
<1>9. r[q - 1] % q = 1
  BY <1>6, FermatPower
<1>10. FromMontgomery(InvMod(w, q), q) = z % q
  BY <1>5, <1>7, FromMontgomeryReads
<1>11. PICK u \in 0 .. q - 1 : u = z % q /\ Same(u, z, q)
  <2>0. q \in Nat \ {0} /\ z \in Int
    BY <1>1
  <2>1. z \in Int /\ z % q \in 0 .. q - 1
    BY ONLY <2>0
  <2>2. Same(z % q, z, q)
    BY ONLY <1>1, <2>1, SameMod
  <2>3. QED
    BY ONLY <2>1, <2>2
<1>12. (v * u) % q = 1
  <2>1. Same(v, v, q)
    BY <1>1, <1>3, SameReflexive
  <2>2. Same(v * u, v * z, q)
    BY ONLY <1>1, <1>3, <1>11, <2>1, z \in Nat, u \in 0 .. q - 1, SameProduct
  <2>3. PICK x \in Int, y \in Int : x = v * u /\ y = v * z
    BY <1>3
  <2>4. x % q = y % q
    BY ONLY <1>1, <2>2, <2>3, x \in Int, y \in Int, SameRemainders
  <2>5. y = z * v
    BY ONLY <1>3, <2>3, z \in Nat
  <2>6. QED
    BY ONLY <1>8, <1>9, <2>3, <2>4, <2>5
<1>13. InvMod(w, q) \in 0 .. q - 1
  BY <1>5 DEF StandsFor
<1>14. QED
  BY <1>2, <1>10, <1>11, <1>12, <1>13
-----------------------------------------------------------------------------
(* The steps of ResidueWords                                               *)

\* The inductive invariant: words are reduced.
Inv == modulus \in Moduli /\ word \in 0 .. modulus - 1

\* A word of q and the residue it stands for, which is one of the set rs.
Gives(w, q, rs) == w \in 0 .. q - 1 /\ FromMontgomery(w, q) \in rs

\* A word that stands for x gives its residue.
LEMMA StandsGives ==
  ASSUME NEW q \in Moduli, NEW w, NEW x \in Int, StandsFor(w, x, q)
  PROVE  Gives(w, q, {x % q})
BY FromMontgomeryReads DEF Gives, StandsFor

\* An operand lifted into Montgomery form.
LEMMA LiftedStands ==
  ASSUME NEW q \in Moduli, NEW x \in Nat
  PROVE  x % q \in 0 .. q - 1 /\ StandsFor(ToMontgomery(x % q, q), x % q, q)
<1>1. q \in Nat \ {0} /\ q <= Word /\ Word \in Nat
  BY ModulusFacts
<1>2. x % q \in 0 .. q - 1
  BY ONLY <1>1, x \in Nat
<1>3. PICK r \in 0 .. Word - 1 : r = x % q
  BY <1>1, <1>2
<1>4. QED
  BY <1>2, <1>3, ToMontgomeryStands

\* Add of words gives Sum of residues; the same for the other operations.
LEMMA AddGives ==
  ASSUME NEW q \in Moduli, NEW w, NEW v \in Nat, StandsFor(w, v, q), NEW a, NEW b \in Nat, StandsFor(a, b, q)
  PROVE  Gives(AddMod(w, a, q), q, {R!Sum(v, b, q)})
<1>1. PICK s \in Int : s = v + b
  OBVIOUS
<1>2. StandsFor(AddMod(w, a, q), s, q)
  BY <1>1, AddStands
<1>3. QED
  BY <1>1, <1>2, StandsGives DEF R!Sum

\* Subtract gives Difference.
LEMMA SubGives ==
  ASSUME NEW q \in Moduli, NEW w, NEW v \in 0 .. q - 1, StandsFor(w, v, q), NEW a, NEW b \in 0 .. q - 1, StandsFor(a, b, q)
  PROVE  Gives(SubMod(w, a, q), q, {R!Difference(v, b, q)})
<1>1. q \in Nat \ {0}
  BY ModulusFacts
<1>2. PICK s \in Int : s = v - b
  BY <1>1
<1>3. StandsFor(SubMod(w, a, q), s, q)
  BY <1>1, <1>2, SubStands
<1>4. PICK d \in 0 .. q - 1 : d = IF v >= b THEN v - b ELSE q - (b - v)
  <2>1. v >= b => v - b \in 0 .. q - 1
    BY ONLY <1>1, v \in 0 .. q - 1, b \in 0 .. q - 1
  <2>2. ~(v >= b) => q - (b - v) \in 0 .. q - 1
    BY ONLY <1>1, v \in 0 .. q - 1, b \in 0 .. q - 1
  <2>3. QED
    BY ONLY <2>1, <2>2
<1>5. Same(d, s, q)
  <2>1. d = s + q * 0 \/ d = s + q * 1
    BY <1>1, <1>2, <1>4
  <2>2. QED
    BY <2>1 DEF Same
<1>6. d = s % q
  BY ONLY <1>1, <1>5, s \in Int, d \in 0 .. q - 1, SameResidue
<1>7. QED
  BY <1>3, <1>4, <1>6, StandsGives DEF R!Difference

\* Negate gives Negation.
LEMMA NegGives ==
  ASSUME NEW q \in Moduli, NEW w, NEW v \in 0 .. q - 1, StandsFor(w, v, q)
  PROVE  Gives(NegMod(w, q), q, {R!Negation(v, q)})
<1>1. q \in Nat \ {0}
  BY ModulusFacts
<1>2. PICK s \in Int : s = -v
  BY <1>1
<1>3. StandsFor(NegMod(w, q), s, q)
  BY <1>1, <1>2, NegStands
<1>4. PICK d \in 0 .. q - 1 : d = IF v = 0 THEN 0 ELSE q - v
  BY <1>1
<1>5. Same(d, s, q)
  <2>1. d = s + q * 0 \/ d = s + q * 1
    BY <1>1, <1>2, <1>4
  <2>2. QED
    BY <2>1 DEF Same
<1>6. d = s % q
  BY ONLY <1>1, <1>5, s \in Int, d \in 0 .. q - 1, SameResidue
<1>7. QED
  BY <1>3, <1>4, <1>6, StandsGives DEF R!Negation

\* A word that stands for a product gives Product.
LEMMA MulGives ==
  ASSUME NEW q \in Moduli, NEW w, NEW v \in Nat, NEW b \in Nat, StandsFor(w, v * b, q)
  PROVE  Gives(w, q, {R!Product(v, b, q)})
<1>1. PICK s \in Int : s = v * b
  OBVIOUS
<1>2. QED
  BY <1>1, StandsGives DEF R!Product

\* A sum whose second term is reduced along the way.
LEMMA MulAddGives ==
  ASSUME NEW q \in Moduli, NEW w, NEW v \in Nat, NEW x \in Int, NEW a \in Nat, NEW b \in Nat,
         StandsFor(w, v + x, q), Same(x, a * b, q)
  PROVE  Gives(w, q, {R!Sum(v, R!Product(a, b, q), q)})
<1>1. q \in Nat \ {0}
  BY ModulusFacts
<1>2. PICK y \in Nat : y = a * b
  OBVIOUS
<1>3. PICK r \in 0 .. q - 1 : r = y % q
  BY ONLY <1>1, y \in Nat
<1>4. Same(r, y, q)
  BY <1>1, <1>3, SameMod
<1>5. Same(x, r, q)
  <2>1. Same(y, r, q)
    BY <1>1, <1>4, SameSymmetric
  <2>2. QED
    BY <1>1, <1>2, <2>1, SameTransitive
<1>6. Same(v, v, q)
  BY <1>1, SameReflexive
<1>7. PICK s \in Int, t \in Int : s = v + x /\ t = v + r
  BY <1>1
<1>8. Same(s, t, q)
  BY <1>1, <1>5, <1>6, <1>7, SameSum
<1>9. StandsFor(w, t, q)
  BY <1>7, <1>8, StandsSame
<1>10. Gives(w, q, {t % q})
  BY <1>9, StandsGives
<1>11. QED
  BY <1>2, <1>3, <1>7, <1>10 DEF R!Sum, R!Product

\* pow of a word gives Power of its residue.
LEMMA PowGives ==
  ASSUME NEW q \in Moduli, NEW w, NEW v \in Nat, StandsFor(w, v, q), NEW e \in Words
  PROVE  Gives(PowMod(w, e, q), q, {R!Power(v, e, q)})
<1>0. e \in Nat
  BY WordFacts DEF Words
<1>1. PICK p : IsPow(p, v, e) /\ StandsFor(PowMod(w, e, q), p[e], q)
  BY PowRaises DEF Raised
<1>2. PICK x \in Int : x = p[e]
  BY <1>0, <1>1 DEF IsPow
<1>3. R!Power(v, e, q) = x % q
  BY <1>0, <1>1, <1>2, PowerReads
<1>4. QED
  BY <1>1, <1>2, <1>3, StandsGives

\* One step keeps the word reduced and gives what the abstract operation gives.
LEMMA StepGives ==
  ASSUME TypedInputs, Inv, Next
  PROVE  Gives(word', modulus, R!Results(call', Residue, modulus))
<1>0. PICK q \in Moduli : q = modulus
  BY DEF Inv
<1>1. PICK w \in 0 .. q - 1, v \in 0 .. q - 1 :
        q = modulus /\ w = word /\ v = Residue /\ StandsFor(w, v, q)
  BY <1>0, ReducedStands DEF Inv, Residue
<1>2. q \in Nat \ {0} /\ q <= Word /\ Word \in Nat /\ v \in Nat
  BY ModulusFacts
<1>3. ASSUME NEW x \in Operands
      PROVE  /\ x \in Nat /\ x % q \in 0 .. q - 1 /\ x % q \in Nat
             /\ Lifted(x) = ToMontgomery(x % q, q) /\ StandsFor(Lifted(x), x % q, q)
  BY <1>1, <1>2, LiftedStands DEF TypedInputs, Lifted
<1>4. ASSUME NEW x \in Loads, Load(x)
      PROVE  Gives(word', q, R!Results(call', v, q))
  <2>1. x \in 0 .. Word - 1 /\ x \in Int
    BY WordFacts DEF TypedInputs
  <2>2. word' = ToMontgomery(x, q) /\ call'.op = "load" /\ call'.arg = x
    BY <1>1, <1>4 DEF Load
  <2>3. Gives(word', q, {x % q})
    BY <2>1, <2>2, ToMontgomeryStands, StandsGives
  <2>4. R!Results(call', v, q) = {x % q}
    BY ONLY <2>2 DEF R!Results
  <2>5. QED
    BY <2>3, <2>4
<1>5. ASSUME NEW x \in Samples, LoadSample(x)
      PROVE  Gives(word', q, R!Results(call', v, q))
  <2>1. x \in SignedWords /\ x \in Int
    BY WordFacts DEF TypedInputs, SignedWords
  <2>2. word' = ToMontgomery(FromSigned(x, q), q) /\ call'.op = "load" /\ call'.arg = x
    BY <1>1, <1>5 DEF LoadSample
  <2>3. PICK r \in 0 .. q - 1 : r = FromSigned(x, q) /\ Same(r, x, q)
    BY <2>1, FromSignedReduces
  <2>4. r \in 0 .. Word - 1 /\ r \in Int
    BY <1>2
  <2>5. StandsFor(word', x, q)
    BY <2>1, <2>2, <2>3, <2>4, ToMontgomeryStands, StandsSame
  <2>6. Gives(word', q, {x % q})
    BY <2>1, <2>5, StandsGives
  <2>7. R!Results(call', v, q) = {x % q}
    BY ONLY <2>2 DEF R!Results
  <2>8. QED
    BY <2>6, <2>7
<1>6. ASSUME NEW x \in Operands, Add(x)
      PROVE  Gives(word', q, R!Results(call', v, q))
  <2>1. PICK b \in 0 .. q - 1 : b = x % q /\ b \in Nat /\ StandsFor(Lifted(x), b, q)
    BY <1>3
  <2>2. word' = AddMod(w, Lifted(x), q) /\ call'.op = "add" /\ call'.arg = b
    BY <1>1, <1>6, <2>1 DEF Add, Called
  <2>3. Gives(word', q, {R!Sum(v, b, q)})
    BY <1>1, <1>2, <2>1, <2>2, AddGives
  <2>4. R!Results(call', v, q) = {R!Sum(v, b, q)}
    BY ONLY <2>2 DEF R!Results
  <2>5. QED
    BY <2>3, <2>4
<1>7. ASSUME NEW x \in Operands, Subtract(x)
      PROVE  Gives(word', q, R!Results(call', v, q))
  <2>1. PICK b \in 0 .. q - 1 : b = x % q /\ b \in Nat /\ StandsFor(Lifted(x), b, q)
    BY <1>3
  <2>2. word' = SubMod(w, Lifted(x), q) /\ call'.op = "sub" /\ call'.arg = b
    BY <1>1, <1>7, <2>1 DEF Subtract, Called
  <2>3. Gives(word', q, {R!Difference(v, b, q)})
    BY <1>1, <2>1, <2>2, SubGives
  <2>4. R!Results(call', v, q) = {R!Difference(v, b, q)}
    BY ONLY <2>2 DEF R!Results
  <2>5. QED
    BY <2>3, <2>4
<1>8. ASSUME NEW x \in Operands, MultiplyShoup(x)
      PROVE  Gives(word', q, R!Results(call', v, q))
  <2>1. PICK b \in 0 .. q - 1 : b = x % q /\ b \in Nat
    BY <1>3
  <2>2. word' = ShoupMul(w, b, q) /\ call'.op = "mul" /\ call'.arg = b
    BY <1>1, <1>8, <2>1 DEF MultiplyShoup, Called
  <2>3. StandsFor(word', v * b, q)
    BY <1>1, <1>2, <2>2, ShoupStands
  <2>4. Gives(word', q, {R!Product(v, b, q)})
    BY <1>2, <2>1, <2>3, MulGives
  <2>5. R!Results(call', v, q) = {R!Product(v, b, q)}
    BY ONLY <2>2 DEF R!Results
  <2>6. QED
    BY <2>4, <2>5
<1>9. ASSUME Negate
      PROVE  Gives(word', q, R!Results(call', v, q))
  <2>1. word' = NegMod(w, q) /\ call'.op = "negate"
    BY <1>1, <1>9 DEF Negate
  <2>2. Gives(word', q, {R!Negation(v, q)})
    BY <1>1, <2>1, NegGives
  <2>3. R!Results(call', v, q) = {R!Negation(v, q)}
    BY ONLY <2>1 DEF R!Results
  <2>4. QED
    BY <2>2, <2>3
<1>10. ASSUME Invert
       PROVE  Gives(word', q, R!Results(call', v, q))
  <2>1. v = FromMontgomery(w, q)
    BY <1>1 DEF Residue
  <2>2. word' = (IF v = 0 THEN w ELSE InvMod(w, q)) /\ call'.op = "invert"
    BY <1>1, <1>10, <2>1 DEF Invert
  <2>3. R!Results(call', v, q) = IF v = 0 THEN {0} ELSE {u \in 0 .. q - 1 : R!Product(v, u, q) = 1}
    BY ONLY <2>2 DEF R!Results
  <2>4. CASE v = 0
    BY <2>1, <2>2, <2>3, <2>4 DEF Gives
  <2>5. CASE v # 0
    <3>1. PICK u \in 0 .. q - 1 :
            u = FromMontgomery(InvMod(w, q), q) /\ (v * u) % q = 1 /\ InvMod(w, q) \in 0 .. q - 1
      BY <2>1, <2>5, InverseReads
    <3>2. R!Product(v, u, q) = 1
      BY <3>1 DEF R!Product
    <3>3. QED
      BY ONLY <2>2, <2>3, <2>5, <3>1, <3>2 DEF Gives
  <2>6. QED
    BY <2>4, <2>5
<1>11. ASSUME NEW e \in Exponents, Raise(e)
       PROVE  Gives(word', q, R!Results(call', v, q))
  <2>1. word' = PowMod(w, e, q) /\ call'.op = "pow" /\ call'.arg = e /\ e \in Words
    BY <1>1, <1>11 DEF Raise, TypedInputs
  <2>2. Gives(word', q, {R!Power(v, e, q)})
    BY <1>1, <1>2, <2>1, PowGives
  <2>3. R!Results(call', v, q) = {R!Power(v, e, q)}
    BY ONLY <2>1 DEF R!Results
  <2>4. QED
    BY <2>2, <2>3
<1>12. ASSUME NEW k \in Kernels(q), NEW x \in Operands, Multiply(k, x)
       PROVE  Gives(word', q, R!Results(call', v, q))
  <2>1. PICK b \in 0 .. q - 1 : b = x % q /\ b \in Nat /\ StandsFor(Lifted(x), b, q)
    BY <1>3
  <2>2. word' = Mul(k, w, Lifted(x), q) /\ call'.op = "mul" /\ call'.arg = b
    BY <1>1, <1>12, <2>1 DEF Multiply, Called
  <2>3. StandsFor(word', v * b, q)
    BY <1>1, <1>2, <2>1, <2>2, KernelStands
  <2>4. Gives(word', q, {R!Product(v, b, q)})
    BY <1>2, <2>1, <2>3, MulGives
  <2>5. R!Results(call', v, q) = {R!Product(v, b, q)}
    BY ONLY <2>2 DEF R!Results
  <2>6. QED
    BY <2>4, <2>5
<1>13. ASSUME NEW k \in Kernels(q), NEW x \in Operands, NEW y \in Operands, Accumulate(k, x, y)
       PROVE  Gives(word', q, R!Results(call', v, q))
  <2>1. PICK a \in 0 .. q - 1 : a = x % q /\ a \in Nat /\ StandsFor(Lifted(x), a, q)
    BY <1>3
  <2>2. PICK b \in 0 .. q - 1 : b = y % q /\ b \in Nat /\ StandsFor(Lifted(y), b, q)
    BY <1>3
  <2>3. /\ word' = MulAcc(k, w, Lifted(x), Lifted(y), q)
        /\ call'.op = "muladd" /\ call'.arg = a /\ call'.by = b
    BY <1>1, <1>13, <2>1, <2>2 DEF Accumulate
  <2>4. PICK z \in Int : z = a * b
    BY <2>1, <2>2
  <2>5. StandsFor(word', v + z, q)
    BY <1>1, <1>2, <2>1, <2>2, <2>3, <2>4, MulAccStands
  <2>6. Same(z, a * b, q)
    BY ONLY <1>2, <2>4, SameReflexive, z \in Int
  <2>7. Gives(word', q, {R!Sum(v, R!Product(a, b, q), q)})
    BY ONLY <1>2, <2>1, <2>2, <2>5, <2>6, MulAddGives, q \in Moduli, z \in Int
  <2>8. R!Results(call', v, q) = {R!Sum(v, R!Product(a, b, q), q)}
    BY ONLY <2>3 DEF R!Results
  <2>9. QED
    BY <2>7, <2>8
<1>14. ASSUME NEW k \in Kernels(q), NEW x \in Operands, NEW y \in Operands, AccumulateThree(k, x, y)
       PROVE  Gives(word', q, R!Results(call', v, q))
  <2>1. PICK a \in 0 .. q - 1 : a = x % q /\ a \in Nat /\ StandsFor(Lifted(x), a, q)
    BY <1>3
  <2>2. PICK b \in 0 .. q - 1 : b = y % q /\ b \in Nat /\ StandsFor(Lifted(y), b, q)
    BY <1>3
  <2>3. PICK n \in Nat, c \in 0 .. q - 1 : n = x /\ c = (3 * n) % q /\ Same(c, 3 * n, q)
    <3>1. PICK n \in Nat, m \in Nat : n = x /\ m = 3 * n
      BY <1>3
    <3>2. m % q \in 0 .. q - 1
      BY ONLY <1>2, m \in Nat
    <3>3. Same(m % q, m, q)
      BY <1>2, SameMod
    <3>4. QED
      BY ONLY <3>1, <3>2, <3>3
  <2>4. c \in Nat /\ a = n % q /\ Same(a, n, q)
    <3>1. Same(n % q, n, q)
      BY <1>2, SameMod
    <3>2. QED
      BY <1>2, <2>1, <2>3, <3>1
  <2>5. /\ word' = MulAcc3(k, w, <<Lifted(x), Lifted(y), Lifted(x)>>,
                                 <<Lifted(y), Lifted(x), Lifted(y)>>, q)
        /\ call'.op = "muladd" /\ call'.arg = c /\ call'.by = b
    BY <1>1, <1>14, <2>2, <2>3 DEF AccumulateThree
  <2>6. StandsFor(word', v + 3 * (a * b), q)
    BY <1>1, <1>2, <2>1, <2>2, <2>5, MulAcc3Stands
  <2>7. PICK z \in Int : z = 3 * (a * b)
    BY <2>1, <2>2
  <2>8. Same(z, c * b, q)
    <3>1. PICK i \in Int : a = n + q * i
      BY <2>4 DEF Same
    <3>2. PICK j \in Int : c = 3 * n + q * j
      BY <2>3 DEF Same
    <3>3. z = c * b + q * ((3 * i - j) * b) /\ (3 * i - j) * b \in Int
      BY ONLY <1>2, <2>2, <2>7, <3>1, <3>2, n \in Nat, i \in Int, j \in Int
    <3>4. QED
      BY <3>3 DEF Same
  <2>9. Gives(word', q, {R!Sum(v, R!Product(c, b, q), q)})
    BY <1>2, <2>2, <2>4, <2>6, <2>7, <2>8, MulAddGives
  <2>10. R!Results(call', v, q) = {R!Sum(v, R!Product(c, b, q), q)}
    BY ONLY <2>5 DEF R!Results
  <2>11. QED
    BY <2>9, <2>10
<1>15. Gives(word', q, R!Results(call', v, q))
  <2>1. \/ \E x \in Loads : Load(x)
        \/ \E x \in Samples : LoadSample(x)
        \/ \E x \in Operands : Add(x) \/ Subtract(x) \/ MultiplyShoup(x)
        \/ Negate \/ Invert
        \/ \E e \in Exponents : Raise(e)
        \/ \E k \in Kernels(q), x \in Operands :
             Multiply(k, x) \/ \E y \in Operands : Accumulate(k, x, y) \/ AccumulateThree(k, x, y)
    BY <1>1 DEF Next
  <2>2. QED
    BY ONLY <2>1, <1>4, <1>5, <1>6, <1>7, <1>8, <1>9, <1>10, <1>11, <1>12, <1>13, <1>14
<1>16. QED
  BY <1>1, <1>15
-----------------------------------------------------------------------------
(* The theorems                                                            *)

\* The first word is reduced and stands for zero.
LEMMA InitialResidue ==
  ASSUME Init
  PROVE  Inv /\ Residue = 0
<1>1. modulus \in Moduli /\ word = 0
  BY DEF Init
<1>2. modulus \in Nat \ {0}
  BY <1>1, ModulusFacts
<1>3. word \in 0 .. modulus - 1 /\ 0 \in 0 .. Word - 1
  BY <1>1, <1>2, WordFacts
<1>4. word = 0 * Word + modulus * 0 /\ 0 \in Int
  BY <1>1, <1>2, WordFacts
<1>5. StandsFor(word, 0, modulus)
  BY <1>3, <1>4 DEF StandsFor, Same
<1>6. Residue = 0 % modulus
  BY <1>1, <1>5, FromMontgomeryReads DEF Residue
<1>7. 0 % modulus = 0
  BY <1>2
<1>8. QED
  BY <1>1, <1>3, <1>6, <1>7 DEF Inv

\* Every step keeps the invariant and is a step of Residues.
LEMMA InvStep ==
  ASSUME TypedInputs, Inv, [Next]_vars
  PROVE  Inv' /\ [R!Next]_<<modulus, Residue, call>>
<1>1. CASE Next
  <2>1. modulus' = modulus
    BY <1>1 DEF Next
  <2>2. Gives(word', modulus, R!Results(call', Residue, modulus))
    BY <1>1, StepGives
  <2>3. Residue' = FromMontgomery(word', modulus)
    BY <2>1 DEF Residue
  <2>4. Residue' \in R!Results(call', Residue, modulus)
    BY <2>2, <2>3 DEF Gives
  <2>5. Inv'
    BY <2>1, <2>2 DEF Inv, Gives
  <2>6. R!Next
    BY <2>1, <2>4 DEF R!Next
  <2>7. QED
    BY <2>5, <2>6
<1>2. CASE UNCHANGED vars
  <2>1. modulus' = modulus /\ word' = word /\ call' = call
    BY <1>2 DEF vars
  <2>2. Residue' = Residue
    BY <2>1 DEF Residue
  <2>3. QED
    BY <2>1, <2>2 DEF Inv
<1>3. QED
  BY <1>1, <1>2

\* The invariant gives the property that is run.
LEMMA InvReduced ==
  ASSUME Inv
  PROVE  WordsReduced
<1>1. Residue \in 0 .. modulus - 1
  BY ReducedStands DEF Inv, Residue
<1>2. ToSigned(Residue, modulus) % modulus = Residue /\ 2 * ToSigned(Residue, modulus) \in -modulus .. modulus
  BY <1>1, ToSignedNearest DEF Inv
<1>3. QED
  BY <1>2 DEF WordsReduced, Inv

\* WordsReduced: whatever kernel made a word, and in whatever order the operations came,
\* it is below its modulus and its signed form is the representative nearest to zero,
\* for words of any width and any moduli below a quarter of one.
THEOREM WordsStayReduced ==
  ASSUME TypedInputs
  PROVE  Spec => []WordsReduced
<1>1. Init => Inv
  BY InitialResidue
<1>2. Inv /\ [Next]_vars => Inv'
  BY InvStep
<1>3. Inv => WordsReduced
  BY InvReduced
<1>4. QED
  BY <1>1, <1>2, <1>3, PTL DEF Spec

\* WordsImplementResidues: every operation on a word in Montgomery form, by every kernel,
\* is the operation of modular.rs on the residue the word stands for.
THEOREM WordsAreResidues ==
  ASSUME TypedInputs
  PROVE  Spec => WordsImplementResidues
<1>1. Init => Inv /\ R!Init
  BY InitialResidue DEF Init, R!Init
<1>2. Inv /\ [Next]_vars => Inv' /\ [R!Next]_<<modulus, Residue, call>>
  BY InvStep
<1>3. QED
  BY <1>1, <1>2, PTL DEF Spec, WordsImplementResidues, R!Spec
-----------------------------------------------------------------------------
(* Residues modulo a prime                                                 *)

\* A product of two reduced words is reduced.
LEMMA ProductReduces ==
  ASSUME NEW q \in Moduli, NEW x \in 0 .. q - 1, NEW y \in 0 .. q - 1
  PROVE  MontgomeryMul(x, y, q) \in 0 .. q - 1
<1>1. q \in Nat /\ q > 0 /\ q <= Word /\ Word \in Nat
  BY ModulusFacts
<1>2. x \in Nat /\ y \in Nat /\ x * y < q * Word
  BY <1>1
<1>3. QED
  BY <1>2, MontgomeryProduct

\* Sums and differences of reduced words are reduced.
LEMMA SumReduces ==
  ASSUME NEW q \in Moduli, NEW a \in 0 .. q - 1, NEW b \in 0 .. q - 1
  PROVE  AddMod(a, b, q) \in 0 .. q - 1 /\ SubMod(a, b, q) \in 0 .. q - 1 /\ NegMod(a, q) \in 0 .. q - 1
<1>1. q \in Nat /\ q > 0
  BY ModulusFacts
<1>2. a + b \in Nat /\ a + b < 2 * q
  BY <1>1
<1>3. AddMod(a, b, q) \in 0 .. q - 1
  BY <1>1, <1>2, CondSubReduces DEF AddMod
<1>4. SubMod(a, b, q) \in 0 .. q - 1 /\ NegMod(a, q) \in 0 .. q - 1
  BY <1>1 DEF SubMod, NegMod
<1>5. QED
  BY <1>3, <1>4

\* The list that Fermat's theorem is stated of.
LEMMA PowersListed ==
  ASSUME NEW b \in Nat, NEW n \in Nat
  PROVE  \E p : IsPow(p, b, n) /\ p[n] = PowerOf(b, n)
<1>1. PICK p \in [0 .. n -> Nat] :
        /\ PowerOf(b, n) = p[n] /\ p[0] = 1
        /\ \A i \in 0 .. n : i # 0 => p[i] = p[i - 1] * b
  BY ONLY n \in Nat, b \in Nat, PowerList
<1>2. QED
  BY <1>1 DEF IsPow

\* Fermat's theorem: q - 2 factors invert.
LEMMA FermatInverse ==
  ASSUME NEW q \in Moduli, NEW u \in 1 .. q - 1
  PROVE  Same(PowerOf(u, q - 2) * u, 1, q)
<1>1. q \in Nat \ {0} /\ q >= 3 /\ u \in Nat /\ q - 1 \in Nat /\ q - 2 \in Nat /\ (q - 2) + 1 = q - 1
  BY ModulusFacts
<1>2. PICK p : IsPow(p, u, q - 1) /\ p[q - 1] = PowerOf(u, q - 1)
  BY <1>1, PowersListed
<1>3. PowerOf(u, q - 1) % q = 1
  BY <1>2, FermatPower
<1>4. PICK x \in Nat : x = PowerOf(u, q - 1) /\ x = PowerOf(u, q - 2) * u
  BY ONLY <1>1, PowerOfStep
<1>5. Same(x % q, x, q) /\ x \in Int /\ x % q = 1 /\ 1 \in Int
  BY <1>1, <1>3, <1>4, SameMod
<1>6. Same(x, 1, q)
  BY <1>1, <1>5, SameSymmetric
<1>7. QED
  BY <1>4, <1>6

\* There are no divisors of zero.
LEMMA NoZeroDivisors ==
  ASSUME NEW q \in Moduli, NEW u \in 1 .. q - 1, NEW x \in Int, Same(u * x, 0, q)
  PROVE  Same(x, 0, q)
<1>1. q \in Nat /\ u \in Nat /\ q - 2 \in Nat
  BY ModulusFacts
<1>2. PICK v \in Int : v = PowerOf(u, q - 2)
  BY <1>1, PowerOfStep
<1>3. Same(v * u, 1, q)
  BY <1>2, FermatInverse
<1>4. PICK k \in Int : v * u = 1 + q * k
  BY <1>3 DEF Same
<1>5. PICK l \in Int : u * x = 0 + q * l
  BY DEF Same
<1>6. x = 0 + q * (v * l - k * x)
  <2>1. PICK m \in Int, n \in Int : m = k * x /\ n = v * l
    OBVIOUS
  <2>2. v * (u * x) = (v * u) * x
    BY ONLY <1>1, v \in Int, x \in Int
  <2>3. (1 + q * k) * x = x + q * m
    BY ONLY <1>1, <2>1, k \in Int, x \in Int
  <2>4. v * (0 + q * l) = q * n
    BY ONLY <1>1, <2>1, v \in Int, l \in Int
  <2>5. x + q * m = q * n
    BY ONLY <1>4, <1>5, <2>2, <2>3, <2>4
  <2>6. x = 0 + q * (n - m)
    BY ONLY <1>1, <2>5, x \in Int, m \in Int, n \in Int
  <2>7. QED
    BY ONLY <2>1, <2>6
<1>7. v * l - k * x \in Int
  OBVIOUS
<1>8. QED
  BY <1>6, <1>7 DEF Same
-----------------------------------------------------------------------------
(* What words mean                                                         *)

\* By path p the word w is reduced and has the residue of x.
Reads(p, w, q) == IF p = "shoup" THEN w ELSE FromMontgomery(w, q)
Means(p, w, x, q) == w \in 0 .. q - 1 /\ Same(Reads(p, w, q), x, q)

\* A reading is reduced, and a function of what is read.
LEMMA ReadsReduced ==
  ASSUME NEW q \in Moduli, NEW p, NEW w \in 0 .. q - 1
  PROVE  Reads(p, w, q) \in 0 .. q - 1 /\ Means(p, w, Reads(p, w, q), q)
<1>1. q \in Nat
  BY ModulusFacts
<1>2. Reads(p, w, q) \in 0 .. q - 1
  BY ReducedStands DEF Reads
<1>3. Reads(p, w, q) \in Int
  BY <1>1, <1>2
<1>4. Same(Reads(p, w, q), Reads(p, w, q), q)
  BY ONLY <1>1, <1>3, SameReflexive
<1>5. QED
  BY <1>2, <1>4 DEF Means

\* What a word means is so up to congruence, and is what the word reads as.
LEMMA MeansSame ==
  ASSUME NEW q \in Moduli, NEW p, NEW w, NEW x \in Int, Means(p, w, x, q)
  PROVE  /\ w \in 0 .. q - 1 /\ Reads(p, w, q) = x % q
         /\ \A y \in Int : Same(x, y, q) => Means(p, w, y, q)
<1>1. q \in Nat \ {0} /\ q \in Nat
  BY ModulusFacts
<1>2. w \in 0 .. q - 1 /\ Same(Reads(p, w, q), x, q)
  BY DEF Means
<1>3. Reads(p, w, q) \in 0 .. q - 1
  BY <1>2, ReadsReduced
<1>4. Reads(p, w, q) = x % q
  BY ONLY <1>1, <1>2, <1>3, x \in Int, SameResidue
<1>5. ASSUME NEW y \in Int, Same(x, y, q)
      PROVE  Means(p, w, y, q)
  <2>1. Reads(p, w, q) \in Int
    BY <1>1, <1>3
  <2>2. Same(Reads(p, w, q), y, q)
    BY ONLY <1>1, <1>2, <1>5, <2>1, x \in Int, y \in Int, SameTransitive
  <2>3. QED
    BY <1>2, <2>2 DEF Means
<1>6. QED
  BY <1>2, <1>4, <1>5

\* By a kernel in Montgomery form a word means what it stands for.
LEMMA MeansStands ==
  ASSUME NEW q \in Moduli, NEW p, p # "shoup", NEW w, NEW x \in Int
  PROVE  Means(p, w, x, q) <=> StandsFor(w, x, q)
<1>1. q \in Nat \ {0} /\ q \in Nat
  BY ModulusFacts
<1>2. ASSUME Means(p, w, x, q)
      PROVE  StandsFor(w, x, q)
  <2>1. w \in 0 .. q - 1 /\ Same(FromMontgomery(w, q), x, q)
    BY <1>2 DEF Means, Reads
  <2>2. FromMontgomery(w, q) \in 0 .. q - 1 /\ StandsFor(w, FromMontgomery(w, q), q)
    BY <2>1, ReducedStands
  <2>3. FromMontgomery(w, q) \in Int
    BY <1>1, <2>2
  <2>4. QED
    BY ONLY <2>1, <2>2, <2>3, q \in Moduli, x \in Int, StandsSame
<1>3. ASSUME StandsFor(w, x, q)
      PROVE  Means(p, w, x, q)
  <2>1. FromMontgomery(w, q) = x % q
    BY <1>3, FromMontgomeryReads
  <2>2. Same(x % q, x, q)
    BY ONLY <1>1, x \in Int, SameMod
  <2>3. w \in 0 .. q - 1
    BY <1>3 DEF StandsFor
  <2>4. QED
    BY <2>1, <2>2, <2>3 DEF Means, Reads
<1>4. QED
  BY <1>2, <1>3

\* Neg of a word means the negation.
LEMMA NegMeans ==
  ASSUME NEW q \in Moduli, NEW p, NEW w, NEW x \in Int, Means(p, w, x, q)
  PROVE  Means(p, NegMod(w, q), (-1) * x, q)
<1>1. q \in Nat /\ q > 0 /\ -x \in Int /\ (-1) * x = -x
  BY ModulusFacts
<1>2. CASE p = "shoup"
  <2>1. w \in 0 .. q - 1 /\ Same(w, x, q)
    BY <1>2 DEF Means, Reads
  <2>2. PICK k \in Int : w = x + q * k
    BY <2>1 DEF Same
  <2>3. NegMod(w, q) \in 0 .. q - 1
    BY <2>1, SumReduces
  <2>4. CASE w = 0
    <3>1. NegMod(w, q) = -x + q * (-k) /\ -k \in Int
      BY ONLY <1>1, <2>2, <2>4, k \in Int, x \in Int DEF NegMod
    <3>2. QED
      BY <1>1, <1>2, <2>3, <3>1 DEF Means, Reads, Same
  <2>5. CASE w # 0
    <3>1. NegMod(w, q) = -x + q * (1 - k) /\ 1 - k \in Int
      BY ONLY <1>1, <2>1, <2>2, <2>5, k \in Int, x \in Int DEF NegMod
    <3>2. QED
      BY <1>1, <1>2, <2>3, <3>1 DEF Means, Reads, Same
  <2>6. QED
    BY <2>4, <2>5
<1>3. CASE p # "shoup"
  <2>1. StandsFor(w, x, q)
    BY <1>3, MeansStands
  <2>2. StandsFor(NegMod(w, q), -x, q)
    BY <2>1, NegStands
  <2>3. Means(p, NegMod(w, q), -x, q)
    BY <1>1, <1>3, <2>2, MeansStands
  <2>4. QED
    BY <1>1, <2>3
<1>4. QED
  BY <1>2, <1>3

\* scalar_mul of a word means the multiple, whichever form the word has.
LEMMA ScalarMeans ==
  ASSUME NEW q \in Moduli, NEW p, NEW w, NEW x \in Int, Means(p, w, x, q), NEW k \in Nat
  PROVE  Means(p, (w * (k % q)) % q, k * x, q)
<1>1. q \in Nat \ {0} /\ q \in Nat /\ Word \in Nat /\ k \in Int
  BY ModulusFacts
<1>2. PICK r \in Nat : r = k % q /\ Same(r, k, q)
  BY <1>1, ResidueOf
<1>3. w \in Nat
  <2>1. w \in 0 .. q - 1
    BY DEF Means
  <2>2. QED
    BY <1>1, <2>1
<1>4. PICK y \in Nat, z \in Int : y = w * r /\ z = k * x
  BY <1>3
<1>5. y % q \in 0 .. q - 1 /\ y % q \in Int /\ Same(y % q, y, q)
  <2>1. y % q \in 0 .. q - 1 /\ y % q \in Nat /\ Same(y % q, y, q)
    BY ONLY <1>1, y \in Nat, ResidueOf
  <2>2. QED
    BY <2>1
<1>6. ASSUME NEW v \in Int, Same(w, v, q)
      PROVE  Same(y % q, k * v, q)
  <2>1. PICK u \in Int, t \in Int : u = v * k /\ t = k * v /\ u = t
    OBVIOUS
  <2>2. Same(y, u, q)
    BY ONLY <1>1, <1>2, <1>3, <1>4, <1>6, <2>1, v \in Int, r \in Nat, r \in Int, w \in Int, SameProduct
  <2>3. Same(y % q, u, q)
    BY ONLY <1>1, <1>5, <2>2, y \in Int, u \in Int, SameTransitive
  <2>4. QED
    BY <2>1, <2>3
<1>7. CASE p = "shoup"
  <2>1. Same(w, x, q)
    BY <1>7 DEF Means, Reads
  <2>2. Same(y % q, k * x, q)
    BY <1>6, <2>1
  <2>3. QED
    BY <1>2, <1>4, <1>5, <1>7, <2>2 DEF Means, Reads
<1>8. CASE p # "shoup"
  <2>1. StandsFor(w, x, q)
    BY <1>8, MeansStands
  <2>2. PICK v \in Int : v = x * Word /\ Same(w, v, q)
    BY <1>1, <2>1 DEF StandsFor
  <2>3. Same(y % q, k * v, q)
    BY <1>6, <2>2
  <2>4. k * v = (k * x) * Word
    BY ONLY <1>1, <2>2, x \in Int, k \in Nat
  <2>5. StandsFor(y % q, z, q)
    BY <1>4, <1>5, <2>3, <2>4 DEF StandsFor
  <2>6. Means(p, y % q, z, q)
    BY <1>8, <2>5, MeansStands
  <2>7. QED
    BY <1>2, <1>4, <2>6
<1>9. QED
  BY <1>7, <1>8

\* Three times a word, added to a word, and three conditional subtractions.
LEMMA TripleMeans ==
  ASSUME NEW q \in Moduli, NEW w, NEW v, NEW z \in Int, NEW x \in Int,
         Means("classical", w, z, q), Means("classical", v, x, q)
  PROVE  Means("classical", CondSub(CondSub(CondSub(w + 3 * v, q), q), q), z + 3 * x, q)
<1>1. q \in Nat \ {0} /\ q \in Nat /\ q >= 3 /\ Word \in Nat \ {0} /\ 4 * q <= Word
  BY ModulusFacts
<1>2. StandsFor(w, z, q) /\ StandsFor(v, x, q)
  <2>1. "classical" # "shoup"
    OBVIOUS
  <2>2. QED
    BY <2>1, MeansStands
<1>3. PICK m \in Nat, g \in Nat : /\ m = v /\ g = w /\ m < q /\ g < q
                                  /\ Same(m, x * Word, q) /\ Same(g, z * Word, q)
  BY <1>1, <1>2 DEF StandsFor
<1>4. PICK t \in Nat : t = g + 3 * m
  OBVIOUS
<1>5. t < 4 * q /\ t \in 0 .. Word - 1
  BY ONLY <1>1, <1>3, <1>4, t \in Nat, m \in Nat, g \in Nat
<1>6. Low64(t) = t
  BY <1>1, <1>5, ModSmall DEF Low64
<1>7. PICK c \in Nat : /\ c = CondSub(CondSub(CondSub(t, q), q), q)
                       /\ c \in 0 .. q - 1 /\ Same(c, t, q)
  <2>1. /\ CondSub(CondSub(CondSub(Low64(t), q), q), q) \in 0 .. q - 1
        /\ Same(CondSub(CondSub(CondSub(Low64(t), q), q), q), t, q)
    BY <1>5, ReduceFour
  <2>2. QED
    BY <1>1, <1>6, <2>1
<1>8. PICK l \in Int, h \in Int, s \in Int, o \in Int :
        l = x * Word /\ h = z * Word /\ s = z + 3 * x /\ o = s * Word
  BY <1>1
<1>9. o = h + 3 * l
  BY ONLY <1>1, <1>8, x \in Int, z \in Int
<1>10. PICK i \in Int, k \in Int : m = l + q * i /\ g = h + q * k
  BY <1>3, <1>8 DEF Same
<1>11. t = o + q * (k + 3 * i) /\ k + 3 * i \in Int
  BY ONLY <1>1, <1>4, <1>9, <1>10, i \in Int, k \in Int, h \in Int, l \in Int, m \in Nat, g \in Nat
<1>12. Same(t, o, q)
  BY <1>11 DEF Same
<1>13. Same(c, o, q)
  BY ONLY <1>1, <1>7, <1>12, c \in Int, t \in Int, o \in Int, SameTransitive
<1>14. StandsFor(c, s, q)
  BY <1>7, <1>8, <1>13 DEF StandsFor
<1>15. Means("classical", c, s, q)
  BY <1>14, MeansStands
<1>16. QED
  BY <1>3, <1>4, <1>7, <1>8, <1>15
-----------------------------------------------------------------------------
(* The roots of unity                                                      *)

\* The dimension is a power of two.
LEMMA Dimension ==
  \E K \in 1 .. Bits : N = 2 ^ K /\ N \in Nat /\ N >= 2 /\ N - 1 \in Nat
<1>1. PICK K \in 1 .. Bits : N = 2 ^ K
  BY DimensionAssumption
<1>2. Bits \in Nat /\ 1 \in 0 .. 2 * Bits /\ K - 1 \in 0 .. 2 * Bits - 1 /\ 1 + (K - 1) = K
      /\ K - 1 \in 0 .. 2 * Bits
  BY <1>1, WordAssumption
<1>3. 2 ^ K = 2 ^ 1 * 2 ^ (K - 1) /\ 2 ^ (K - 1) \in Nat \ {0}
  BY <1>2, ExponentLaw
<1>4. 2 ^ 1 = 2
  OBVIOUS
<1>5. PICK h \in Nat : N = 2 * h /\ h >= 1
  BY <1>1, <1>3, <1>4
<1>6. QED
  BY <1>1, <1>5

\* mod_pow returns a residue.
LEMMA StdPowReduces ==
  ASSUME NEW q \in Moduli, NEW b \in Nat, NEW e \in Nat
  PROVE  StdPow(b, e, q) \in 0 .. q - 1
<1> DEFINE S == [result : 0 .. q - 1, base : 0 .. q - 1, exp : Nat]
           s0 == [result |-> 1, base |-> b % q, exp |-> e]
           G == [i \in 0 .. Bits |-> [s \in S |-> StdPowRound(s, q)]]
           F(g) == [i \in 0 .. Bits |-> IF i = 0 THEN s0 ELSE StdPowRound(g[i - 1], q)]
<1>0. Bits \in Nat /\ q \in Nat \ {0} /\ q >= 3
  BY ModulusFacts
<1>1. s0 \in S
  BY <1>0
<1>2. ASSUME NEW s \in S
      PROVE  StdPowRound(s, q) \in S
  <2>1. PICK x \in 0 .. q - 1, y \in 0 .. q - 1, n \in Nat : s = [result |-> x, base |-> y, exp |-> n]
    BY <1>2
  <2>2. x * y \in Nat /\ y * y \in Nat
    BY ONLY <1>0, x \in 0 .. q - 1, y \in 0 .. q - 1
  <2>3. (x * y) % q \in 0 .. q - 1 /\ (y * y) % q \in 0 .. q - 1
    <3>1. PICK u \in Nat, v \in Nat : u = x * y /\ v = y * y
      BY <2>2
    <3>2. u % q \in 0 .. q - 1 /\ v % q \in 0 .. q - 1
      BY ONLY <1>0, u \in Nat, v \in Nat
    <3>3. QED
      BY ONLY <3>1, <3>2
  <2>4. n \div 2 \in Nat
    OBVIOUS
  <2>5. QED
    BY <2>1, <2>3, <2>4 DEF StdPowRound
<1> HIDE DEF S, s0
<1>3. Recurs(S, Bits, s0, G)
  BY <1>0, <1>1, <1>2 DEF Recurs
<1>4. PICK f : Solves(f, S, Bits, s0, G)
  <2> HIDE DEF G
  <2>1. QED
    BY ONLY <1>3, RecursionExists, Zenon
<1>5. /\ f = [i \in 0 .. Bits |-> f[i]] /\ f[0] = s0
      /\ \A i \in 0 .. Bits : i # 0 => f[i - 1] \in S /\ f[i] = G[i][f[i - 1]]
  <2> HIDE DEF G
  <2>1. QED
    BY ONLY <1>3, <1>4, SolvedSteps
<1>6. f = F(f)
  <2>1. \A i \in 0 .. Bits : i # 0 => f[i] = StdPowRound(f[i - 1], q)
    BY <1>5
  <2>2. QED
    BY <1>5, <2>1
<1>7. StdPow(b, e, q) = (CHOOSE y : y = F(y))[Bits].result
  BY Zenon DEF StdPow, s0
<1>8. PICK y : y = F(y) /\ StdPow(b, e, q) = y[Bits].result
  <2> HIDE DEF F
  <2>1. QED
    BY <1>6, <1>7, Zenon
<1>9. Solves(y, S, Bits, s0, G)
  <2>1. y = [i \in 0 .. Bits |-> y[i]] /\ y[0] = s0
    BY <1>0, <1>8
  <2>2. ASSUME NEW i \in 0 .. Bits, i # 0, y[i - 1] \in S
        PROVE  y[i] = G[i][y[i - 1]]
    BY <1>8, <2>2
  <2> HIDE DEF G, F
  <2>3. QED
    BY <1>3, <2>1, <2>2, RecursionSolved
<1>10. y[Bits] \in S
  <2> HIDE DEF G
  <2>1. QED
    BY ONLY <1>3, <1>9, SolvedSteps
<1>11. QED
  BY <1>8, <1>10 DEF S

\* find_primitive_root returns a residue, the first candidate that is a root.
LEMMA PsiReduced ==
  ASSUME NEW q \in NttModuli
  PROVE  q \in Moduli /\ Psi[q] \in 0 .. q - 1
<1>1. q \in Moduli
  BY DEF NttModuli
<1>2. q \in Nat /\ q >= 3
  BY <1>1, ModulusFacts
<1>3. PICK d \in Nat \ {0} : d = 2 * N
  BY Dimension
<1> DEFINE T == {g \in 2 .. q - 1 : IsRoot(Candidate(g, q), q)}
           Leads(g) == /\ IsRoot(Candidate(g, q), q)
                       /\ \A h \in 2 .. g - 1 : ~IsRoot(Candidate(h, q), q)
<1>4. \E g \in 2 .. q - 1 : Leads(g)
  <2>1. T \in SUBSET Nat /\ \E x : x \in T
    BY <1>2, RootsExist
  <2>2. PICK m \in T : \A n \in T : m <= n
    <3> HIDE DEF T
    <3>1. QED
      BY <2>1, LeastNat
  <2>3. ASSUME NEW h \in 2 .. m - 1
        PROVE  ~IsRoot(Candidate(h, q), q)
    <3>1. h \in 2 .. q - 1 /\ ~(m <= h)
      BY <1>2, <2>3
    <3>2. QED
      BY <2>2, <3>1
  <2>4. QED
    BY <2>2, <2>3
<1>5. PICK g \in 2 .. q - 1 : Psi[q] = Candidate(g, q)
  <2>1. Psi[q] = Candidate(CHOOSE g \in 2 .. q - 1 : Leads(g), q)
    BY DEF Psi
  <2> HIDE DEF Leads
  <2>2. QED
    BY <1>4, <2>1
<1>6. g \in Nat /\ (q - 1) \div d \in Nat
  BY <1>2
<1>7. QED
  BY <1>1, <1>3, <1>5, <1>6, StdPowReduces DEF Candidate
-----------------------------------------------------------------------------
(* The blocks of butterflies                                               *)

\* Half a power of two, and how the larger powers come from the smaller ones.
LEMMA Powers ==
  /\ 2 ^ 0 = 1
  /\ \A i \in 0 .. Bits : 2 ^ i \in Nat /\ 2 ^ i >= 1 /\ 2 ^ i \in PowersOfTwo
  /\ \A i \in 1 .. Bits : i - 1 \in 0 .. Bits /\ 2 ^ i = 2 * 2 ^ (i - 1)
  /\ \A i \in 0 .. Bits, j \in 0 .. Bits : i <= j => \E c \in Nat : c >= 1 /\ 2 ^ j = 2 ^ i * c
<1>0. Bits \in Nat /\ 2 ^ 1 = 2
  BY WordAssumption
<1>1. ASSUME NEW i \in 0 .. Bits
      PROVE  2 ^ i \in Nat /\ 2 ^ i >= 1 /\ 2 ^ i \in PowersOfTwo
  <2>1. i \in 0 .. 2 * Bits
    BY <1>0
  <2>2. 2 ^ i \in Nat \ {0}
    BY <2>1, ExponentLaw
  <2>3. QED
    BY <2>2 DEF PowersOfTwo
<1>2. ASSUME NEW i \in 0 .. Bits, NEW j \in 0 .. Bits, i <= j
      PROVE  2 ^ (j - i) \in Nat /\ 2 ^ (j - i) >= 1 /\ 2 ^ j = 2 ^ i * 2 ^ (j - i)
  <2>1. i \in 0 .. 2 * Bits /\ j - i \in 0 .. 2 * Bits - i /\ i + (j - i) = j /\ j - i \in 0 .. Bits
    BY <1>0, <1>2
  <2>2. 2 ^ (i + (j - i)) = 2 ^ i * 2 ^ (j - i)
    BY <2>1, ExponentLaw
  <2>3. QED
    BY <1>1, <2>1, <2>2
<1>3. 2 ^ 0 = 1
  <2>1. 0 \in 0 .. Bits /\ 0 - 0 = 0 /\ 0 <= 0
    BY <1>0
  <2>2. PICK x \in Nat : x = 2 ^ 0 /\ x >= 1
    BY <1>1, <2>1
  <2>3. 2 ^ 0 = 2 ^ 0 * 2 ^ (0 - 0)
    BY ONLY <1>2, <2>1
  <2>4. x = x * x
    BY ONLY <2>1, <2>2, <2>3
  <2>5. x = 1
    BY ONLY <2>2, <2>4, x \in Nat
  <2>6. QED
    BY <2>2, <2>5
<1>4. ASSUME NEW i \in 1 .. Bits
      PROVE  i - 1 \in 0 .. Bits /\ 2 ^ i = 2 * 2 ^ (i - 1)
  <2>1. i - 1 \in 0 .. Bits /\ 1 \in 0 .. Bits /\ i \in 0 .. Bits /\ 1 <= i
    BY <1>0
  <2>2. 2 ^ i = 2 ^ 1 * 2 ^ (i - 1)
    BY ONLY <1>2, <2>1
  <2>3. QED
    BY <1>0, <2>1, <2>2
<1>5. ASSUME NEW i \in 0 .. Bits, NEW j \in 0 .. Bits, i <= j
      PROVE  \E c \in Nat : c >= 1 /\ 2 ^ j = 2 ^ i * c
  <2>1. 2 ^ (j - i) \in Nat /\ 2 ^ (j - i) >= 1 /\ 2 ^ j = 2 ^ i * 2 ^ (j - i)
    BY ONLY <1>2, <1>5
  <2>2. QED
    BY ONLY <2>1
<1>6. QED
  BY <1>1, <1>3, <1>4, <1>5

\* The lowest bit of a position is a part of it.
LEMMA LowBitPart ==
  ASSUME NEW k \in 1 .. N - 1
  PROVE  LowBit(k) \in 1 .. k /\ LowBit(k) \in PowersOfTwo /\ k % (2 * LowBit(k)) = LowBit(k)
<1>1. PICK K \in 1 .. Bits : N = 2 ^ K /\ N \in Nat /\ N >= 2
  BY Dimension
<1>2. Bits \in Nat /\ K \in 0 .. Bits /\ 0 \in 0 .. K /\ k \in Nat /\ k >= 1
  BY WordAssumption, <1>1
<1> DEFINE T == {j \in 0 .. K : k % 2 ^ j # 0}
<1>3. K \in T
  <2>1. k % N = k
    BY <1>1, ModSmall
  <2>2. QED
    BY <1>1, <1>2, <2>1
<1>4. PICK m \in T : \A n \in T : m <= n
  <2>1. T \in SUBSET Nat
    BY <1>2
  <2> HIDE DEF T
  <2>2. QED
    BY <1>3, <2>1, LeastNat
<1>5. m \in 0 .. K /\ k % 2 ^ m # 0
  BY <1>4
<1>6. m # 0
  <2>1. k % 1 = 0
    BY <1>2
  <2>2. QED
    BY <1>5, <2>1, Powers
<1>7. m \in 1 .. Bits /\ m - 1 \in 0 .. K /\ m - 1 \in 0 .. Bits
  BY <1>1, <1>2, <1>5, <1>6
<1>8. k % 2 ^ (m - 1) = 0
  <2>1. m - 1 \notin T
    <3>1. ~(m <= m - 1)
      BY <1>5
    <3> HIDE DEF T
    <3>2. QED
      BY <1>4, <3>1
  <2>2. QED
    BY <1>7, <2>1
<1>9. PICK p \in Nat : p = 2 ^ (m - 1) /\ p >= 1 /\ p \in PowersOfTwo /\ 2 ^ m = 2 * p
  BY <1>7, Powers
<1>10. k % (2 * p) = p
  <2>1. PICK c \in Int : k = p * c
    <3>1. k \in Int /\ p \in Nat \ {0}
      BY <1>2, <1>9
    <3>2. k = p * (k \div p) + (k % p) /\ k \div p \in Int
      BY ONLY <3>1, DivMod
    <3>3. k = p * (k \div p)
      BY ONLY <1>8, <1>9, <3>1, <3>2
    <3>4. QED
      BY <3>2, <3>3
  <2>2. PICK d \in Int, e \in 0 .. 1 : c = 2 * d + e
    <3>1. c = 2 * (c \div 2) + (c % 2) /\ c \div 2 \in Int /\ c % 2 \in 0 .. 1
      OBVIOUS
    <3>2. QED
      BY <3>1
  <2>3. k = (2 * p) * d + p * e
    BY ONLY <2>1, <2>2, p \in Nat, d \in Int, e \in 0 .. 1
  <2>4. PICK w \in Nat \ {0} : w = 2 * p
    BY <1>9
  <2>5. 0 \in 0 .. w - 1 /\ p \in 0 .. w - 1
    BY <1>9, <2>4
  <2>6. e # 0
    <3>1. ASSUME e = 0
          PROVE  FALSE
      <4>1. k = w * d + 0
        BY ONLY <2>3, <2>4, <3>1, p \in Nat, d \in Int, k \in 1 .. N - 1, w \in Nat
      <4>2. k % w = 0
        BY ONLY <2>4, <2>5, <4>1, k \in Int, d \in Int, <1>2, DivModUnique
      <4>3. QED
        BY <1>5, <1>9, <2>4, <4>2
    <3>2. QED
      BY <3>1
  <2>7. k = w * d + p
    BY <2>2, <2>3, <2>4, <2>6
  <2>8. QED
    BY ONLY <1>2, <2>4, <2>5, <2>7, d \in Int, DivModUnique
<1>11. PICK l \in PowersOfTwo : l = LowBit(k) /\ k % (2 * l) = l
  <2>1. \E l \in PowersOfTwo : k % (2 * l) = l
    BY <1>9, <1>10
  <2>2. QED
    BY <2>1 DEF LowBit
<1>12. l \in Nat /\ l >= 1
  BY <1>11, Powers DEF PowersOfTwo
<1>13. l <= k
  <2>1. PICK w \in Nat \ {0} : w = 2 * l
    BY <1>12
  <2>2. k = w * (k \div w) + l /\ k \div w \in Nat
    <3>1. k = w * (k \div w) + (k % w) /\ k \div w \in Nat
      <4>1. k \in Int
        BY <1>2
      <4>2. k = w * (k \div w) + (k % w)
        BY ONLY <4>1, w \in Nat \ {0}, DivMod
      <4>3. k \div w \in Nat
        BY ONLY <1>2, w \in Nat \ {0}
      <4>4. QED
        BY <4>2, <4>3
    <3>2. QED
      BY ONLY <1>11, <2>1, <3>1
  <2>3. w * (k \div w) \in Nat
    BY <2>1, <2>2
  <2>4. QED
    BY <1>2, <1>12, <2>2, <2>3
<1>14. QED
  BY <1>2, <1>11, <1>12, <1>13

\* Block k is a low and a high half of the array, of equal lengths.
LEMMA BlockFits ==
  ASSUME NEW k \in 1 .. N - 1
  PROVE  Half(k) \in Nat /\ Start(k) \in Nat /\ Start(k) + 2 * Half(k) <= N
<1>1. PICK K \in 1 .. Bits : N = 2 ^ K /\ N \in Nat /\ N >= 2
  BY Dimension
<1>2. Bits \in Nat /\ K \in 0 .. Bits /\ 0 \in 0 .. K /\ k \in Nat /\ k >= 1 /\ k < N
  BY WordAssumption, <1>1
<1> DEFINE T == {j \in 0 .. K : k < 2 ^ j}
<1>3. K \in T
  BY <1>1, <1>2
<1>4. PICK m \in T : \A n \in T : m <= n
  <2>1. T \in SUBSET Nat
    BY <1>2
  <2> HIDE DEF T
  <2>2. QED
    BY <1>3, <2>1, LeastNat
<1>5. m \in 0 .. K /\ k < 2 ^ m
  BY <1>4
<1>6. m # 0
  <2>1. ~(k < 1)
    BY <1>2
  <2>2. QED
    BY <1>5, <2>1, Powers
<1>7. m \in 1 .. Bits /\ m - 1 \in 0 .. K /\ m - 1 \in 0 .. Bits
  BY <1>1, <1>2, <1>5, <1>6
<1>8. ~(k < 2 ^ (m - 1))
  <2>1. m - 1 \notin T
    <3>1. ~(m <= m - 1)
      BY <1>5
    <3> HIDE DEF T
    <3>2. QED
      BY <1>4, <3>1
  <2>2. QED
    BY <1>7, <2>1
<1>9. PICK p \in Nat : p = 2 ^ (m - 1) /\ p >= 1 /\ p \in PowersOfTwo /\ 2 ^ m = 2 * p
  BY <1>7, Powers
<1>10. p <= k /\ k < 2 * p
  BY <1>2, <1>5, <1>8, <1>9
<1>11. PICK h \in PowersOfTwo : h = HighBit(k) /\ h <= k /\ k < 2 * h
  <2>1. \E h \in PowersOfTwo : h <= k /\ k < 2 * h
    BY <1>9, <1>10
  <2>2. QED
    BY <2>1 DEF HighBit
<1>12. PICK i \in 0 .. Bits : h = 2 ^ i
  BY <1>11 DEF PowersOfTwo
<1>13. h \in Nat /\ h >= 1
  BY <1>12, Powers
<1>14. i < K
  <2>1. ASSUME K <= i
        PROVE  FALSE
    <3>1. PICK c \in Nat : c >= 1 /\ 2 ^ i = 2 ^ K * c
      BY <1>2, <2>1, Powers
    <3>2. h = N * c
      BY <1>1, <1>12, <3>1
    <3>3. N * c >= N
      BY ONLY <1>1, <3>1, c \in Nat
    <3>4. h <= k /\ k < N /\ N <= h
      BY <1>2, <1>11, <3>2, <3>3
    <3>5. QED
      BY ONLY <1>1, <1>2, <1>13, <3>4
  <2>2. QED
    BY <1>2, <2>1
<1>15. i + 1 \in 1 .. Bits /\ i + 1 \in 0 .. Bits /\ i + 1 <= K /\ (i + 1) - 1 = i
  BY <1>1, <1>2, <1>14
<1>16. PICK g \in Nat : g >= 1 /\ N = (2 * h) * g
  <2>1. 2 ^ (i + 1) = 2 * h
    BY <1>12, <1>15, Powers
  <2>2. PICK c \in Nat : c >= 1 /\ 2 ^ K = 2 ^ (i + 1) * c
    BY <1>2, <1>15, Powers
  <2>3. QED
    BY <1>1, <2>1, <2>2
<1>17. Half(k) = g
  <2>1. PICK w \in Nat \ {0} : w = 2 * h
    BY <1>13
  <2>2. N = w * g + 0 /\ 0 \in 0 .. w - 1 /\ w * g \in Nat
    BY <1>1, <1>16, <2>1
  <2>3. N \div w = g
    BY ONLY <1>1, <2>1, <2>2, g \in Nat, DivModUnique
  <2>4. QED
    BY <1>11, <2>1, <2>3 DEF Half
<1>18. PICK d \in Nat : d = k - h /\ d + 1 <= h
  BY <1>2, <1>11, <1>13
<1>19. Start(k) = (2 * d) * g
  BY <1>11, <1>17, <1>18 DEF Start
<1>20. (2 * d) * g \in Nat
  OBVIOUS
<1>21. (2 * d) * g + 2 * g <= (2 * h) * g
  <2>1. PICK e \in Nat : h = d + 1 + e
    <3>1. h - (d + 1) \in Nat /\ h = d + 1 + (h - (d + 1))
      BY <1>13, <1>18
    <3>2. QED
      BY <3>1
  <2>2. (2 * h) * g = (2 * d) * g + 2 * g + (2 * e) * g /\ (2 * e) * g \in Nat
    BY ONLY <2>1, d \in Nat, e \in Nat, g \in Nat
  <2>3. QED
    BY ONLY <1>20, <2>2, g \in Nat
<1>22. QED
  BY <1>16, <1>17, <1>19, <1>20, <1>21

\* The halves are within the array, and one is the other moved.
LEMMA Halves ==
  ASSUME NEW k \in 1 .. N - 1
  PROVE  /\ Half(k) \in Nat
         /\ \A j \in LowHalf(k) : j \in Idx /\ j + Half(k) \in HighHalf(k)
         /\ \A j \in HighHalf(k) : j \in Idx /\ j - Half(k) \in LowHalf(k)
<1>1. PICK s \in Nat, h \in Nat : s = Start(k) /\ h = Half(k) /\ s + 2 * h <= N
  BY BlockFits
<1>2. N \in Nat
  BY Dimension
<1>3. /\ \A j \in s .. s + h - 1 : j \in 0 .. N - 1 /\ j + h \in s + h .. s + 2 * h - 1
      /\ \A j \in s + h .. s + 2 * h - 1 : j \in 0 .. N - 1 /\ j - h \in s .. s + h - 1
  BY <1>1, <1>2
<1>4. QED
  BY <1>1, <1>3 DEF LowHalf, HighHalf, Idx
-----------------------------------------------------------------------------
(* The twiddle ladders                                                     *)

\* The consecutive powers that compute_twiddle_factors starts with are reduced.
LEMMA PowersReduced ==
  ASSUME NEW q \in Moduli, NEW first \in 0 .. q - 1, NEW base \in 0 .. q - 1, NEW p,
         p = CHOOSE y : y = [e \in 0 .. N |-> IF e = 0 THEN first ELSE MontgomeryMul(y[e - 1], base, q)]
  PROVE  /\ \A e \in 0 .. N : p[e] \in 0 .. q - 1
         /\ p[0] = first /\ \A e \in 1 .. N : p[e] = MontgomeryMul(p[e - 1], base, q)
<1> DEFINE S == 0 .. q - 1
           Step(s) == MontgomeryMul(s, base, q)
           G == [i \in 0 .. N |-> [s \in S |-> Step(s)]]
           F(g) == [e \in 0 .. N |-> IF e = 0 THEN first ELSE MontgomeryMul(g[e - 1], base, q)]
<1>0. N \in Nat
  BY Dimension
<1>1. \A s \in S : Step(s) \in S
  BY ProductReduces
<1> HIDE DEF S, Step
<1>2. Recurs(S, N, first, G)
  BY <1>0, <1>1 DEF Recurs, S
<1>3. PICK f : Solves(f, S, N, first, G)
  <2> HIDE DEF G
  <2>1. QED
    BY ONLY <1>2, RecursionExists, Zenon
<1>4. /\ f = [i \in 0 .. N |-> f[i]] /\ f[0] = first
      /\ \A i \in 0 .. N : i # 0 => f[i - 1] \in S /\ f[i] = G[i][f[i - 1]]
  <2> HIDE DEF G
  <2>1. QED
    BY ONLY <1>2, <1>3, SolvedSteps
<1>5. f = F(f)
  <2>1. \A i \in 0 .. N : i # 0 => f[i] = Step(f[i - 1])
    BY <1>4
  <2>2. QED
    BY <1>4, <2>1 DEF Step
<1>6. p = F(p)
  <2>1. p = CHOOSE y : y = F(y)
    OBVIOUS
  <2> HIDE DEF F
  <2>2. QED
    BY <1>5, <2>1, Zenon
<1>7. Solves(p, S, N, first, G)
  <2>1. p = [i \in 0 .. N |-> p[i]] /\ p[0] = first
    BY ONLY <1>0, <1>6
  <2>2. ASSUME NEW i \in 0 .. N, i # 0, p[i - 1] \in S
        PROVE  p[i] = G[i][p[i - 1]]
    <3>1. p[i] = Step(p[i - 1])
      BY ONLY <1>6, <2>2 DEF Step
    <3>2. QED
      BY ONLY <2>2, <3>1
  <2> HIDE DEF G, F
  <2>3. QED
    BY ONLY <1>2, <2>1, <2>2, RecursionSolved
<1>8. p[0] = first /\ \A e \in 1 .. N : p[e] = MontgomeryMul(p[e - 1], base, q)
  BY ONLY <1>0, <1>6
<1>9. QED
  BY ONLY <1>7, <1>8 DEF Solves, S

\* compute_twiddle_factors fills the ladder with residues.
LEMMA LadderReduced ==
  ASSUME NEW q \in Moduli, NEW psi \in 0 .. q - 1
  PROVE  Ladder(psi, q) \in [Idx -> 0 .. q - 1]
<1> DEFINE Power(g) == [e \in 0 .. N |-> IF e = 0 THEN ToMontgomery(1, q)
                                         ELSE MontgomeryMul(g[e - 1], ToMontgomery(psi, q), q)]
           p == CHOOSE y : y = Power(y)
           S == [Idx -> 0 .. q - 1]
           s0 == [j \in Idx |-> 0]
           Entry(f, k) == IF k = HighBit(k) THEN p[N \div (2 * k)]
                          ELSE MontgomeryMul(f[k - LowBit(k)], f[LowBit(k)], q)
           Step(f, k) == [f EXCEPT ![k] = Entry(f, k)]
           G == [i \in 0 .. N - 1 |-> [s \in S |-> IF i = 0 THEN s ELSE Step(s, i)]]
           F(g) == [i \in 0 .. N - 1 |-> IF i = 0 THEN s0 ELSE Step(g[i - 1], i)]
<1>0. q \in Nat /\ q >= 3 /\ 4 * q <= Word /\ Word \in Nat /\ N \in Nat /\ N - 1 \in Nat
  BY ModulusFacts, Dimension
<1>1. \A e \in 0 .. N : p[e] \in 0 .. q - 1
  <2>1. 1 \in 0 .. Word - 1 /\ psi \in 0 .. Word - 1
    BY <1>0
  <2>2. PICK a \in 0 .. q - 1, b \in 0 .. q - 1 : a = ToMontgomery(1, q) /\ b = ToMontgomery(psi, q)
    BY <2>1, ToMontgomeryStands DEF StandsFor
  <2>3. p = CHOOSE y : y = [e \in 0 .. N |-> IF e = 0 THEN a ELSE MontgomeryMul(y[e - 1], b, q)]
    BY <2>2, Zenon
  <2> HIDE DEF p
  <2>4. QED
    BY ONLY <2>3, q \in Moduli, a \in 0 .. q - 1, b \in 0 .. q - 1, PowersReduced
<1>2. Ladder(psi, q) = (CHOOSE y : y = F(y))[N - 1]
  BY Zenon DEF Ladder
<1> HIDE DEF p
<1>3. ASSUME NEW f \in S, NEW k \in 0 .. N - 1, k # 0
      PROVE  Step(f, k) \in S
  <2>1. k \in 1 .. N - 1 /\ k \in Idx
    BY <1>0, <1>3 DEF Idx
  <2>2. PICK l \in 1 .. k : l = LowBit(k)
    BY <2>1, LowBitPart
  <2>3. l \in Idx /\ k - l \in Idx
    BY <1>0, <2>1 DEF Idx
  <2>4. MontgomeryMul(f[k - l], f[l], q) \in 0 .. q - 1
    BY <1>3, <2>3, ProductReduces
  <2>5. N \div (2 * k) \in 0 .. N
    <3>1. PICK w \in Nat \ {0} : w = 2 * k
      BY <2>1
    <3>2. PICK d \in Nat : d = N \div w
      BY ONLY <1>0, w \in Nat \ {0}
    <3>3. w * d <= N
      <4>1. N \in Int
        BY <1>0
      <4>2. N = w * (N \div w) + (N % w) /\ N % w \in 0 .. w - 1
        BY ONLY <4>1, w \in Nat \ {0}, DivMod
      <4>3. PICK r \in Nat : N = w * d + r
        BY <3>2, <4>2
      <4>4. w * d \in Nat
        OBVIOUS
      <4>5. QED
        BY ONLY <4>3, <4>4, r \in Nat
    <3>4. d <= w * d
      BY ONLY w \in Nat \ {0}, d \in Nat
    <3>5. w * d \in Nat
      OBVIOUS
    <3>6. d \in 0 .. N
      BY ONLY <1>0, <3>3, <3>4, <3>5, d \in Nat
    <3>7. QED
      BY <3>1, <3>2, <3>6
  <2>6. Entry(f, k) \in 0 .. q - 1
    BY <1>1, <2>2, <2>4, <2>5
  <2> HIDE DEF Entry
  <2>7. QED
    BY <1>3, <2>1, <2>6
<1>4. s0 \in S
  BY <1>0
<1> HIDE DEF Step, S, s0
<1>5. Recurs(S, N - 1, s0, G)
  BY <1>0, <1>3, <1>4 DEF Recurs
<1>6. PICK f : Solves(f, S, N - 1, s0, G)
  <2> HIDE DEF G
  <2>1. QED
    BY ONLY <1>5, RecursionExists, Zenon
<1>7. /\ f = [i \in 0 .. N - 1 |-> f[i]] /\ f[0] = s0
      /\ \A i \in 0 .. N - 1 : i # 0 => f[i - 1] \in S /\ f[i] = G[i][f[i - 1]]
  <2> HIDE DEF G
  <2>1. QED
    BY ONLY <1>5, <1>6, SolvedSteps
<1>8. f = F(f)
  <2>1. \A i \in 0 .. N - 1 : i # 0 => f[i] = Step(f[i - 1], i)
    BY <1>7
  <2>2. QED
    BY <1>7, <2>1
<1>9. PICK y : y = F(y) /\ Ladder(psi, q) = y[N - 1]
  <2> HIDE DEF F
  <2>1. QED
    BY <1>2, <1>8, Zenon
<1>10. Solves(y, S, N - 1, s0, G)
  <2>1. y = [i \in 0 .. N - 1 |-> y[i]] /\ y[0] = s0
    BY <1>0, <1>9
  <2>2. ASSUME NEW i \in 0 .. N - 1, i # 0, y[i - 1] \in S
        PROVE  y[i] = G[i][y[i - 1]]
    <3>1. y[i] = Step(y[i - 1], i)
      BY <1>9, <2>2
    <3>2. QED
      BY <2>2, <3>1
  <2> HIDE DEF G, F
  <2>3. QED
    BY <1>5, <2>1, <2>2, RecursionSolved
<1>11. y[N - 1] \in S
  <2> HIDE DEF G
  <2>1. QED
    BY ONLY <1>5, <1>10, SolvedSteps
<1>12. QED
  BY <1>9, <1>11 DEF S

\* NttContext::with_moduli: the factors of the butterflies are reduced.
LEMMA ContextReduced ==
  ASSUME NEW q \in NttModuli
  PROVE  /\ Context[q].psi \in [Idx -> 0 .. q - 1] /\ Context[q].psiInv \in [Idx -> 0 .. q - 1]
         /\ Context[q].nInv \in 0 .. q - 1
<1>1. q \in Moduli /\ Psi[q] \in 0 .. q - 1
  BY PsiReduced
<1>2. q \in Nat /\ q >= 3 /\ 4 * q <= Word /\ Word \in Nat /\ N \in Nat
  BY <1>1, ModulusFacts, Dimension
<1>3. PICK inv \in 0 .. q - 1, nInv \in 0 .. q - 1 :
        inv = StdPow(Psi[q], q - 2, q) /\ nInv = StdPow(N, q - 2, q)
  <2>1. q - 2 \in Nat /\ Psi[q] \in Nat
    BY <1>1, <1>2
  <2>2. QED
    BY <1>1, <1>2, <2>1, StdPowReduces
<1>4. /\ Context[q].psi = Ladder(Psi[q], q) /\ Context[q].psiInv = Ladder(inv, q)
      /\ Context[q].nInv = ToMontgomery(nInv, q)
  <2>1. Context[q] = [psi |-> Ladder(Psi[q], q), psiInv |-> Ladder(inv, q),
                      nInv |-> ToMontgomery(nInv, q),
                      psiStd |-> LadderStd(Psi[q], q), psiInvStd |-> LadderStd(inv, q),
                      nInvStd |-> nInv]
    BY <1>3 DEF Context, ContextOf
  <2>2. QED
    BY <2>1
<1>5. ToMontgomery(nInv, q) \in 0 .. q - 1
  <2>1. nInv \in 0 .. Word - 1
    BY <1>2
  <2>2. QED
    BY <1>1, <2>1, ToMontgomeryStands DEF StandsFor
<1>6. QED
  BY <1>1, <1>3, <1>4, <1>5, LadderReduced
-----------------------------------------------------------------------------
(* The transforms                                                          *)

\* What an iteration leaves is reduced.
LEMMA HalvesReduced ==
  ASSUME NEW q \in Moduli, NEW k \in 1 .. N - 1, NEW c \in [Idx -> 0 .. q - 1], NEW v,
         \A j \in HighHalf(k) : v[j] \in 0 .. q - 1
  PROVE  SumAndDifference(c, v, k, q) \in [Idx -> 0 .. q - 1]
<1>1. ASSUME NEW j \in Idx, j \in LowHalf(k)
      PROVE  AddMod(c[j], v[j + Half(k)], q) \in 0 .. q - 1
  <2>1. c[j] \in 0 .. q - 1 /\ v[j + Half(k)] \in 0 .. q - 1
    BY <1>1, Halves
  <2>2. QED
    BY <2>1, SumReduces
<1>2. ASSUME NEW j \in Idx, j \in HighHalf(k)
      PROVE  SubMod(c[j - Half(k)], v[j], q) \in 0 .. q - 1
  <2>1. j - Half(k) \in Idx
    BY <1>2, Halves
  <2>2. c[j - Half(k)] \in 0 .. q - 1 /\ v[j] \in 0 .. q - 1
    BY <1>2, <2>1
  <2>3. QED
    BY <2>2, SumReduces
<1>3. ASSUME NEW j \in Idx
      PROVE  (CASE j \in LowHalf(k)  -> AddMod(c[j], v[j + Half(k)], q)
                [] j \in HighHalf(k) -> SubMod(c[j - Half(k)], v[j], q)
                [] OTHER             -> c[j]) \in 0 .. q - 1
  <2>1. c[j] \in 0 .. q - 1
    OBVIOUS
  <2>2. ~(j \in LowHalf(k) /\ j \in HighHalf(k))
    <3>1. Start(k) \in Nat /\ Half(k) \in Nat
      BY BlockFits
    <3>2. QED
      BY <3>1 DEF LowHalf, HighHalf
  <2>3. CASE j \in LowHalf(k)
    BY <1>1, <2>2, <2>3
  <2>4. CASE j \in HighHalf(k)
    BY <1>2, <2>2, <2>4
  <2>5. CASE j \notin LowHalf(k) /\ j \notin HighHalf(k)
    BY <2>1, <2>5
  <2>6. QED
    BY <2>3, <2>4, <2>5
<1>4. QED
  BY <1>3 DEF SumAndDifference

\* The classical path multiplies in Montgomery form.
LEMMA ClassicalPath ==
  ASSUME NEW a, NEW b, NEW q
  PROVE  PathMul("classical", a, b, q) = MontgomeryMul(a, b, q)
<1>1. "classical" # "shoup"
  OBVIOUS
<1>2. Mul("classical", a, b, q) = MontgomeryMul(a, b, q)
  BY DEF Mul
<1>3. QED
  BY <1>1, <1>2 DEF PathMul

\* An iteration of forward or of inverse keeps the array reduced.
LEMMA BlocksReduced ==
  ASSUME NEW q \in NttModuli, NEW k \in 1 .. N - 1, NEW c \in [Idx -> 0 .. q - 1]
  PROVE  /\ ForwardBlock("classical", c, k, q) \in [Idx -> 0 .. q - 1]
         /\ InverseBlock("classical", c, k, q) \in [Idx -> 0 .. q - 1]
<1>1. q \in Moduli /\ "classical" # "shoup"
  BY DEF NttModuli
<1>2. k \in Idx
  BY Dimension DEF Idx
<1>3. PICK w \in 0 .. q - 1, u \in 0 .. q - 1 : w = Context[q].psi[k] /\ u = Context[q].psiInv[k]
  BY <1>2, ContextReduced
<1>4. ForwardBlock("classical", c, k, q) \in [Idx -> 0 .. q - 1]
  <2> DEFINE v == [j \in HighHalf(k) |-> PathMul("classical", c[j], w, q)]
  <2>1. ForwardBlock("classical", c, k, q) = SumAndDifference(c, v, k, q)
    BY <1>1, <1>3 DEF ForwardBlock
  <2>2. ASSUME NEW j \in HighHalf(k)
        PROVE  v[j] \in 0 .. q - 1
    <3>1. c[j] \in 0 .. q - 1 /\ v[j] = MontgomeryMul(c[j], w, q)
      BY <2>2, Halves, ClassicalPath
    <3>2. QED
      BY <1>1, <1>3, <3>1, ProductReduces
  <2> HIDE DEF v
  <2>3. QED
    BY <1>1, <2>1, <2>2, HalvesReduced
<1>5. InverseBlock("classical", c, k, q) \in [Idx -> 0 .. q - 1]
  <2>1. \A j \in HighHalf(k) : c[j] \in 0 .. q - 1
    BY Halves
  <2>2. PICK h \in [Idx -> 0 .. q - 1] : h = SumAndDifference(c, c, k, q)
    BY <1>1, <2>1, HalvesReduced
  <2>3. InverseBlock("classical", c, k, q)
          = [j \in Idx |-> IF j \in HighHalf(k) THEN PathMul("classical", h[j], u, q) ELSE h[j]]
    BY <1>1, <1>3, <2>2 DEF InverseBlock
  <2>4. \A j \in Idx : h[j] \in 0 .. q - 1 /\ PathMul("classical", h[j], u, q) \in 0 .. q - 1
    <3>1. ASSUME NEW j \in Idx
          PROVE  h[j] \in 0 .. q - 1 /\ PathMul("classical", h[j], u, q) \in 0 .. q - 1
      <4>1. PICK x \in 0 .. q - 1 : x = h[j]
        BY <2>2
      <4>2. MontgomeryMul(x, u, q) \in 0 .. q - 1
        BY <1>1, <1>3, ProductReduces
      <4>3. QED
        BY <4>1, <4>2, ClassicalPath
    <3>2. QED
      BY <3>1
  <2>5. QED
    BY <2>3, <2>4
<1>6. QED
  BY <1>4, <1>5

\* The loops of the classical path are those.
LEMMA InplaceReduced ==
  ASSUME NEW q \in NttModuli, NEW k \in 1 .. N - 1, NEW c \in [Idx -> 0 .. q - 1]
  PROVE  /\ ForwardInplace(c, k, q) = ForwardBlock("classical", c, k, q)
         /\ InverseInplace(c, k, q) = InverseBlock("classical", c, k, q)
         /\ ForwardInplace(c, k, q) \in [Idx -> 0 .. q - 1]
         /\ InverseInplace(c, k, q) \in [Idx -> 0 .. q - 1]
<1>1. "classical" # "shoup"
  OBVIOUS
<1>2. ForwardInplace(c, k, q) = ForwardBlock("classical", c, k, q)
  BY <1>1, ClassicalPath DEF ForwardInplace, ForwardBlock
<1>3. InverseInplace(c, k, q) = InverseBlock("classical", c, k, q)
  BY <1>1, ClassicalPath DEF InverseInplace, InverseBlock
<1>4. QED
  BY <1>2, <1>3, BlocksReduced

\* The arrays y that whole transforms of c go through.
ForwardBy(y, c, q) ==
  /\ y[0] = [j \in Idx |-> ToMontgomery(c[j], q)]
  /\ \A k \in 1 .. N - 1 : /\ y[k - 1] \in [Idx -> 0 .. q - 1]
                           /\ y[k] = ForwardInplace(y[k - 1], k, q)
  /\ y[N - 1] \in [Idx -> 0 .. q - 1] /\ Forward(c, q) = y[N - 1]
InverseBy(y, c, q) ==
  /\ y[0] = c
  /\ \A i \in 1 .. N - 1 : /\ y[i - 1] \in [Idx -> 0 .. q - 1]
                           /\ y[i] = InverseInplace(y[i - 1], N - i, q)
  /\ y[N - 1] \in [Idx -> 0 .. q - 1]
  /\ Inverse(c, q) = [j \in Idx |->
       FromMontgomery(MontgomeryMul(y[N - 1][j], Context[q].nInv, q), q)]

\* forward: evaluations in Montgomery form, of words of any size.
LEMMA ForwardRounds ==
  ASSUME NEW q \in NttModuli, NEW c, \A j \in Idx : c[j] \in 0 .. Word - 1
  PROVE  \E y : ForwardBy(y, c, q)
<1> DEFINE S == [Idx -> 0 .. q - 1]
           s0 == [j \in Idx |-> ToMontgomery(c[j], q)]
           F(g) == [k \in 0 .. N - 1 |-> IF k = 0 THEN s0 ELSE ForwardInplace(g[k - 1], k, q)]
           G == [i \in 0 .. N - 1 |-> [s \in S |-> IF i = 0 THEN s ELSE ForwardInplace(s, i, q)]]
<1>0. q \in Moduli /\ N \in Nat /\ N - 1 \in Nat /\ \A i \in 0 .. N - 1 : i # 0 => i \in 1 .. N - 1
  BY Dimension DEF NttModuli
<1>1. s0 \in S
  BY <1>0, ToMontgomeryStands DEF StandsFor
<1>2. ASSUME NEW i \in 0 .. N - 1, NEW s \in S
      PROVE  (IF i = 0 THEN s ELSE ForwardInplace(s, i, q)) \in S
  BY <1>0, InplaceReduced
<1>3. Forward(c, q) = (CHOOSE y : y = F(y))[N - 1]
  BY Zenon DEF Forward
<1> HIDE DEF S, s0
<1>4. Recurs(S, N - 1, s0, G)
  BY <1>0, <1>1, <1>2 DEF Recurs
<1>5. PICK f : Solves(f, S, N - 1, s0, G)
  <2> HIDE DEF G
  <2>1. QED
    BY ONLY <1>4, RecursionExists, Zenon
<1>6. /\ f = [i \in 0 .. N - 1 |-> f[i]] /\ f[0] = s0
      /\ \A i \in 0 .. N - 1 : i # 0 => f[i - 1] \in S /\ f[i] = G[i][f[i - 1]]
  <2> HIDE DEF G
  <2>1. QED
    BY ONLY <1>4, <1>5, SolvedSteps
<1>7. f = F(f)
  <2>1. \A i \in 0 .. N - 1 : i # 0 => f[i] = ForwardInplace(f[i - 1], i, q)
    BY <1>6
  <2>2. QED
    BY <1>6, <2>1
<1>8. PICK y : y = F(y) /\ Forward(c, q) = y[N - 1]
  <2> HIDE DEF F
  <2>1. QED
    BY <1>3, <1>7, Zenon
<1>9. Solves(y, S, N - 1, s0, G)
  <2>1. y = [i \in 0 .. N - 1 |-> y[i]] /\ y[0] = s0
    BY <1>0, <1>8
  <2>2. ASSUME NEW i \in 0 .. N - 1, i # 0, y[i - 1] \in S
        PROVE  y[i] = G[i][y[i - 1]]
    BY <1>8, <2>2
  <2> HIDE DEF G, F
  <2>3. QED
    BY <1>4, <2>1, <2>2, RecursionSolved
<1>10. /\ y[N - 1] \in S /\ y[0] = s0
       /\ \A i \in 0 .. N - 1 : i # 0 => y[i - 1] \in S /\ y[i] = G[i][y[i - 1]]
  <2> HIDE DEF G
  <2>1. QED
    BY ONLY <1>4, <1>9, SolvedSteps
<1>11. ASSUME NEW k \in 1 .. N - 1
       PROVE  y[k - 1] \in S /\ y[k] = ForwardInplace(y[k - 1], k, q)
  <2>1. k \in 0 .. N - 1 /\ k # 0
    BY <1>0
  <2>2. y[k - 1] \in S /\ y[k] = G[k][y[k - 1]]
    BY ONLY <1>10, <2>1
  <2>3. QED
    BY <2>1, <2>2
<1>12. QED
  BY <1>8, <1>10, <1>11 DEF S, s0, ForwardBy

\* So the values are reduced.
LEMMA ForwardReduced ==
  ASSUME NEW q \in NttModuli, NEW c, \A j \in Idx : c[j] \in 0 .. Word - 1
  PROVE  Forward(c, q) \in [Idx -> 0 .. q - 1]
<1>1. PICK y : ForwardBy(y, c, q)
  BY ForwardRounds
<1>2. QED
  BY <1>1 DEF ForwardBy

\* inverse: coefficients.
LEMMA InverseRounds ==
  ASSUME NEW q \in NttModuli, NEW c \in [Idx -> 0 .. q - 1]
  PROVE  \E y : InverseBy(y, c, q)
<1> DEFINE S == [Idx -> 0 .. q - 1]
           F(g) == [i \in 0 .. N - 1 |-> IF i = 0 THEN c ELSE InverseInplace(g[i - 1], N - i, q)]
           G == [i \in 0 .. N - 1 |-> [s \in S |-> IF i = 0 THEN s ELSE InverseInplace(s, N - i, q)]]
<1>0. /\ q \in Moduli /\ N \in Nat /\ N - 1 \in Nat
      /\ \A i \in 0 .. N - 1 : i # 0 => N - i \in 1 .. N - 1
  BY Dimension DEF NttModuli
<1>1. ASSUME NEW i \in 0 .. N - 1, NEW s \in S
      PROVE  (IF i = 0 THEN s ELSE InverseInplace(s, N - i, q)) \in S
  BY <1>0, InplaceReduced
<1> DEFINE Blocks == (CHOOSE y : y = F(y))[N - 1]
<1>2. Inverse(c, q)
        = [j \in Idx |-> FromMontgomery(MontgomeryMul(Blocks[j], Context[q].nInv, q), q)]
  BY Zenon DEF Inverse
<1> HIDE DEF S
<1>3. Recurs(S, N - 1, c, G)
  <2>1. c \in S
    BY DEF S
  <2>2. QED
    BY <1>0, <1>1, <2>1 DEF Recurs
<1>4. PICK f : Solves(f, S, N - 1, c, G)
  <2> HIDE DEF G
  <2>1. QED
    BY ONLY <1>3, RecursionExists, Zenon
<1>5. /\ f = [i \in 0 .. N - 1 |-> f[i]] /\ f[0] = c
      /\ \A i \in 0 .. N - 1 : i # 0 => f[i - 1] \in S /\ f[i] = G[i][f[i - 1]]
  <2> HIDE DEF G
  <2>1. QED
    BY ONLY <1>3, <1>4, SolvedSteps
<1>6. f = F(f)
  <2>1. \A i \in 0 .. N - 1 : i # 0 => f[i] = InverseInplace(f[i - 1], N - i, q)
    BY <1>5
  <2>2. QED
    BY <1>5, <2>1
<1>7. PICK y : y = F(y) /\ Blocks = y[N - 1]
  <2> HIDE DEF F
  <2>1. QED
    BY <1>6, Zenon
<1>8. Solves(y, S, N - 1, c, G)
  <2>1. y = [i \in 0 .. N - 1 |-> y[i]] /\ y[0] = c
    BY <1>0, <1>7
  <2>2. ASSUME NEW i \in 0 .. N - 1, i # 0, y[i - 1] \in S
        PROVE  y[i] = G[i][y[i - 1]]
    BY <1>7, <2>2
  <2> HIDE DEF G, F
  <2>3. QED
    BY <1>3, <2>1, <2>2, RecursionSolved
<1>9. /\ y[N - 1] \in S /\ y[0] = c
      /\ \A i \in 0 .. N - 1 : i # 0 => y[i - 1] \in S /\ y[i] = G[i][y[i - 1]]
  <2> HIDE DEF G
  <2>1. QED
    BY ONLY <1>3, <1>8, SolvedSteps
<1>10. ASSUME NEW i \in 1 .. N - 1
       PROVE  y[i - 1] \in S /\ y[i] = InverseInplace(y[i - 1], N - i, q)
  <2>1. i \in 0 .. N - 1 /\ i # 0
    BY <1>0
  <2>2. y[i - 1] \in S /\ y[i] = G[i][y[i - 1]]
    BY ONLY <1>9, <2>1
  <2>3. QED
    BY <2>1, <2>2
<1> HIDE DEF Blocks, F, G
<1>11. QED
  BY <1>2, <1>7, <1>9, <1>10 DEF S, InverseBy

\* So the coefficients are reduced.
LEMMA InverseReduced ==
  ASSUME NEW q \in NttModuli, NEW c \in [Idx -> 0 .. q - 1]
  PROVE  Inverse(c, q) \in [Idx -> 0 .. q - 1]
<1>1. q \in Moduli
  BY DEF NttModuli
<1>2. PICK b \in [Idx -> 0 .. q - 1] :
        Inverse(c, q) = [j \in Idx |-> FromMontgomery(MontgomeryMul(b[j], Context[q].nInv, q), q)]
  <2>1. PICK y : InverseBy(y, c, q)
    BY InverseRounds
  <2>2. QED
    BY <2>1 DEF InverseBy
<1>3. PICK n \in 0 .. q - 1 : n = Context[q].nInv
  BY ContextReduced
<1>4. ASSUME NEW j \in Idx
      PROVE  FromMontgomery(MontgomeryMul(b[j], n, q), q) \in 0 .. q - 1
  <2>1. MontgomeryMul(b[j], n, q) \in 0 .. q - 1
    BY <1>1, ProductReduces
  <2>2. QED
    BY <1>1, <2>1, ReducedStands
<1>5. QED
  BY <1>2, <1>3, <1>4
-----------------------------------------------------------------------------
(* mod_pow and the roots                                                   *)

\* The rounds of mod_pow.
LEMMA StdPowRounds ==
  ASSUME NEW q \in Moduli, NEW b \in Nat, NEW e \in Nat
  PROVE  \E r \in [0 .. Bits -> [result : 0 .. q - 1, base : 0 .. q - 1, exp : Nat]] :
           /\ r[0] = [result |-> 1, base |-> b % q, exp |-> e]
           /\ \A i \in 0 .. Bits : i # 0 => r[i] = StdPowRound(r[i - 1], q)
           /\ StdPow(b, e, q) = r[Bits].result
<1> DEFINE S == [result : 0 .. q - 1, base : 0 .. q - 1, exp : Nat]
           s0 == [result |-> 1, base |-> b % q, exp |-> e]
           G == [i \in 0 .. Bits |-> [s \in S |-> StdPowRound(s, q)]]
           F(g) == [i \in 0 .. Bits |-> IF i = 0 THEN s0 ELSE StdPowRound(g[i - 1], q)]
<1>0. Bits \in Nat /\ q \in Nat \ {0} /\ q >= 3
  BY ModulusFacts
<1>1. s0 \in S
  BY <1>0
<1>2. ASSUME NEW s \in S
      PROVE  StdPowRound(s, q) \in S
  <2>1. PICK x \in 0 .. q - 1, y \in 0 .. q - 1, n \in Nat : s = [result |-> x, base |-> y, exp |-> n]
    BY <1>2
  <2>2. x * y \in Nat /\ y * y \in Nat
    BY ONLY <1>0, x \in 0 .. q - 1, y \in 0 .. q - 1
  <2>3. (x * y) % q \in 0 .. q - 1 /\ (y * y) % q \in 0 .. q - 1
    <3>1. PICK u \in Nat, v \in Nat : u = x * y /\ v = y * y
      BY <2>2
    <3>2. u % q \in 0 .. q - 1 /\ v % q \in 0 .. q - 1
      BY ONLY <1>0, u \in Nat, v \in Nat
    <3>3. QED
      BY ONLY <3>1, <3>2
  <2>4. n \div 2 \in Nat
    OBVIOUS
  <2>5. QED
    BY <2>1, <2>3, <2>4 DEF StdPowRound
<1> HIDE DEF S, s0
<1>3. Recurs(S, Bits, s0, G)
  BY <1>0, <1>1, <1>2 DEF Recurs
<1>4. PICK f : Solves(f, S, Bits, s0, G)
  <2> HIDE DEF G
  <2>1. QED
    BY ONLY <1>3, RecursionExists, Zenon
<1>5. /\ f = [i \in 0 .. Bits |-> f[i]] /\ f[0] = s0
      /\ \A i \in 0 .. Bits : i # 0 => f[i - 1] \in S /\ f[i] = G[i][f[i - 1]]
  <2> HIDE DEF G
  <2>1. QED
    BY ONLY <1>3, <1>4, SolvedSteps
<1>6. f = F(f)
  <2>1. \A i \in 0 .. Bits : i # 0 => f[i] = StdPowRound(f[i - 1], q)
    BY <1>5
  <2>2. QED
    BY <1>5, <2>1
<1>7. StdPow(b, e, q) = (CHOOSE y : y = F(y))[Bits].result
  BY Zenon DEF StdPow, s0
<1>8. PICK y : y = F(y) /\ StdPow(b, e, q) = y[Bits].result
  <2> HIDE DEF F
  <2>1. QED
    BY <1>6, <1>7, Zenon
<1>9. y[0] = s0 /\ \A i \in 0 .. Bits : i # 0 => y[i] = StdPowRound(y[i - 1], q)
  BY <1>0, <1>8
<1>10. Solves(y, S, Bits, s0, G)
  <2>1. y = [i \in 0 .. Bits |-> y[i]]
    BY <1>8
  <2>2. ASSUME NEW i \in 0 .. Bits, i # 0, y[i - 1] \in S
        PROVE  y[i] = G[i][y[i - 1]]
    BY <1>9, <2>2
  <2> HIDE DEF G, F
  <2>3. QED
    BY <1>3, <1>9, <2>1, <2>2, RecursionSolved
<1>11. y \in [0 .. Bits -> S]
  BY <1>10 DEF Solves
<1>12. QED
  BY <1>8, <1>9, <1>11 DEF S, s0

\* mod_pow: every round keeps result times base to the exp the power it began with.
LEMMA StdPowReads ==
  ASSUME NEW q \in Moduli, NEW b \in Nat, NEW e \in Words
  PROVE  StdPow(b, e, q) = PowerOf(b, e) % q /\ StdPow(b, e, q) \in 0 .. q - 1
<1>0. q \in Nat \ {0} /\ q >= 3 /\ Bits \in Nat /\ e \in Nat /\ 0 \in 0 .. Bits /\ Bits \in 0 .. Bits
  BY ModulusFacts DEF Words
<1>1. PICK r \in [0 .. Bits -> [result : 0 .. q - 1, base : 0 .. q - 1, exp : Nat]] :
           /\ r[0] = [result |-> 1, base |-> b % q, exp |-> e]
           /\ \A i \in 0 .. Bits : i # 0 => r[i] = StdPowRound(r[i - 1], q)
           /\ StdPow(b, e, q) = r[Bits].result
  <2>1. e \in Nat
    BY <1>0
  <2>2. QED
    BY ONLY q \in Moduli, b \in Nat, <2>1, StdPowRounds, Zenon
<1>2. /\ \A i \in 0 .. Bits : 2 ^ i \in Nat /\ 2 ^ i >= 1
      /\ \A i \in 0 .. Bits : i # Bits => 2 ^ (i + 1) = 2 * 2 ^ i
  <2>1. ASSUME NEW i \in 0 .. Bits, i # Bits
        PROVE  2 ^ (i + 1) = 2 * 2 ^ i
    <3>1. i + 1 \in 1 .. Bits /\ (i + 1) - 1 = i
      BY <1>0, <2>1
    <3>2. QED
      BY <3>1, Powers
  <2>2. QED
    BY <2>1, Powers
<1> DEFINE Kept(s) == Same(s.result * PowerOf(s.base, s.exp), PowerOf(b, e), q)
           T == {i \in 0 .. Bits : Kept(r[i]) /\ r[i].exp * 2 ^ i <= e}
<1>3. PICK target \in Nat : target = PowerOf(b, e)
  BY <1>0, PowerOfStep
<1>4. 0 \in T
  <2>1. PICK c \in Nat : c = b % q /\ Same(c, b, q)
    <3>1. b % q \in Nat /\ Same(b % q, b, q)
      BY <1>0, ResidueOf
    <3>2. QED
      BY <3>1
  <2>2. Same(PowerOf(c, e), PowerOf(b, e), q) /\ PowerOf(c, e) \in Nat
    BY <1>0, <2>1, PowerSame, PowerOfStep
  <2>3. 1 * PowerOf(c, e) = PowerOf(c, e)
    BY <2>2
  <2>4. r[0].result = 1 /\ r[0].base = c /\ r[0].exp = e
    BY <1>1, <2>1
  <2>5. Kept(r[0])
    BY <2>2, <2>3, <2>4
  <2>6. r[0].exp * 2 ^ 0 <= e
    BY <1>0, <2>4, Powers
  <2> HIDE DEF Kept
  <2>7. QED
    BY <1>0, <2>5, <2>6
<1>5. ASSUME NEW i \in 0 .. Bits, i # Bits, i \in T
      PROVE  i + 1 \in T
  <2>1. i + 1 \in 0 .. Bits /\ i + 1 # 0 /\ (i + 1) - 1 = i
    BY <1>0, <1>5
  <2>2. r[i + 1] = StdPowRound(r[i], q)
    BY ONLY <1>1, <2>1
  <2>3. PICK h \in 0 .. q - 1, g \in 0 .. q - 1, x \in Nat : r[i] = [result |-> h, base |-> g, exp |-> x]
    BY <1>1
  <2>4. Same(h * PowerOf(g, x), target, q) /\ g \in Nat /\ h \in Nat
    BY <1>0, <1>3, <1>5, <2>3
  <2>5. PICK y \in Nat \ {0} : y = 2 ^ i /\ 2 ^ (i + 1) = 2 * y
    BY <1>2, <1>5
  <2>6. x * y <= e
    BY <1>5, <2>3, <2>5
  <2>7. CASE x = 0
    <3>1. r[i + 1] = r[i]
      BY ONLY <2>2, <2>3, <2>7 DEF StdPowRound
    <3>2. Kept(r[i + 1])
      BY <1>5, <3>1
    <3>3. r[i + 1].exp * 2 ^ (i + 1) <= e
      BY <1>0, <2>3, <2>5, <2>7, <3>1
    <3>4. QED
      BY <2>1, <3>2, <3>3
  <2>8. CASE x # 0
    <3>1. PICK z \in Nat, d \in {0, 1} : z = x \div 2 /\ d = x % 2 /\ x = 2 * z + d
      BY ONLY x \in Nat, HalfOf
    <3>2. PICK g2 \in Nat : g2 = g * g
      BY <2>4
    <3>3. PICK m \in 0 .. q - 1 : m = g2 % q /\ m \in Nat /\ Same(m, g2, q)
      <4>1. g2 % q \in 0 .. q - 1 /\ g2 % q \in Nat /\ Same(g2 % q, g2, q)
        BY ONLY <1>0, g2 \in Nat, ResidueOf
      <4>2. QED
        BY <4>1
    <3>4. PICK hg \in Nat : hg = h * g
      BY <2>4
    <3>5. PICK n \in 0 .. q - 1 : /\ n = (IF d = 1 THEN hg % q ELSE h) /\ n \in Nat
                                  /\ Same(n, IF d = 1 THEN hg ELSE h, q)
      <4>1. hg % q \in 0 .. q - 1 /\ hg % q \in Nat /\ Same(hg % q, hg, q)
        BY ONLY <1>0, hg \in Nat, ResidueOf
      <4>2. Same(h, h, q)
        BY <1>0, <2>4, SameReflexive
      <4>3. QED
        BY <2>4, <4>1, <4>2
    <3>6. r[i + 1] = [result |-> n, base |-> m, exp |-> z]
      BY ONLY <2>2, <2>3, <2>8, <3>1, <3>2, <3>3, <3>4, <3>5 DEF StdPowRound
    <3>7. PICK p \in Nat, s \in Nat, t \in Nat :
            p = PowerOf(m, z) /\ s = PowerOf(g2, z) /\ t = PowerOf(g, x) /\ Same(p, s, q)
      <4>1. PowerOf(m, z) \in Nat /\ PowerOf(g2, z) \in Nat /\ PowerOf(g, x) \in Nat
        BY <2>4, <3>3, PowerOfStep
      <4>2. Same(PowerOf(m, z), PowerOf(g2, z), q)
        BY <1>0, <3>3, PowerSame
      <4>3. QED
        BY <4>1, <4>2
    <3>8. t = IF d = 1 THEN s * g ELSE s
      <4>1. PowerOf(g, 2 * z) = s
        BY <2>4, <3>2, <3>7, PowerOfSquare
      <4>2. 2 * z \in Nat /\ PowerOf(g, 2 * z + 1) = PowerOf(g, 2 * z) * g
        <5>1. 2 * z \in Nat
          OBVIOUS
        <5>2. QED
          BY ONLY <2>4, <5>1, PowerOfStep
      <4>3. QED
        BY <3>1, <3>7, <4>1, <4>2
    <3>9. PICK w \in Nat : w = (IF d = 1 THEN hg ELSE h) /\ Same(n, w, q)
      BY <2>4, <3>5
    <3>10. w * s = h * t
      <4>1. (h * g) * s = h * (s * g)
        BY <2>4
      <4>2. QED
        BY <3>1, <3>4, <3>8, <3>9, <4>1
    <3>11. Same(n * p, w * s, q)
      <4>1. n \in Int /\ w \in Int /\ p \in Int /\ s \in Int /\ q \in Nat
        BY <1>0, <3>5
      <4>2. QED
        BY ONLY <3>7, <3>9, <4>1, SameProduct
    <3>12. Same(n * p, target, q)
      <4>1. PICK a \in Int, c \in Int : a = n * p /\ c = h * t
        BY <2>4, <3>5
      <4>2. Same(a, c, q) /\ Same(c, target, q)
        BY <2>4, <3>7, <3>10, <3>11, <4>1
      <4>3. Same(a, target, q)
        BY <1>0, <4>2, SameTransitive
      <4>4. QED
        BY <4>1, <4>3
    <3>13. Kept(r[i + 1])
      BY <1>3, <3>6, <3>7, <3>12
    <3>14. r[i + 1].exp * 2 ^ (i + 1) <= e
      <4>1. x * y = z * (2 * y) + d * y
        BY ONLY <3>1, z \in Nat, d \in {0, 1}, y \in Nat \ {0}
      <4>2. PICK u \in Nat, v \in Nat : u = z * (2 * y) /\ v = d * y
        BY ONLY z \in Nat, d \in {0, 1}, y \in Nat \ {0}
      <4>3. u <= e
        BY ONLY <1>0, <2>6, <4>1, <4>2, u \in Nat, v \in Nat
      <4>4. QED
        BY <2>5, <3>6, <4>2, <4>3
    <3> HIDE DEF Kept
    <3>15. QED
      BY <2>1, <3>13, <3>14
  <2>9. QED
    BY <2>7, <2>8
<1> HIDE DEF T
<1>6. \A i \in 0 .. Bits : i \in T
  BY <1>0, <1>4, <1>5, Induction
<1>7. Kept(r[Bits]) /\ r[Bits].exp * 2 ^ Bits <= e
  BY <1>0, <1>6 DEF T
<1>8. PICK h \in 0 .. q - 1, g \in 0 .. q - 1, x \in Nat : r[Bits] = [result |-> h, base |-> g, exp |-> x]
  BY <1>0, <1>1
<1>9. x = 0
  <2>1. PICK y \in Nat : y = 2 ^ Bits /\ e < y
    BY <1>0, <1>2 DEF Words, Word
  <2>2. x * y <= e
    BY <1>7, <1>8, <2>1
  <2>3. x >= 1 => x * y >= y
    BY ONLY x \in Nat, y \in Nat
  <2>4. PICK m \in Nat : m = x * y
    OBVIOUS
  <2>5. e \in Nat /\ e < y /\ m <= e /\ (x >= 1 => m >= y)
    BY ONLY <1>0, <2>1, <2>2, <2>3, <2>4
  <2>6. QED
    BY ONLY <2>5, m \in Nat, x \in Nat, y \in Nat
<1>10. Same(h, target, q)
  <2>1. PowerOf(g, 0) = 1 /\ h \in Nat
    BY <1>0, PowerOfStep
  <2>2. QED
    BY <1>3, <1>7, <1>8, <1>9, <2>1
<1>11. h = target % q
  BY <1>0, <1>10, SameResidue
<1>12. QED
  BY <1>1, <1>3, <1>8, <1>11

\* The modulus of a context is 1 modulo twice the dimension.
LEMMA RootModulus ==
  ASSUME NEW q \in NttModuli
  PROVE  q \in Moduli /\ N \in 1 .. q - 1 /\ 2 * N < q /\ 2 * N \in Words /\ q \in Words
<1>1. q \in Moduli /\ q % (2 * N) = 1
  BY DEF NttModuli
<1>2. q \in Nat /\ q >= 3 /\ 4 * q <= Word /\ Word \in Nat /\ N \in Nat /\ N >= 2
  BY <1>1, ModulusFacts, Dimension
<1>3. PICK d \in Nat \ {0} : d = 2 * N
  BY <1>2
<1>4. PICK m \in Int : q = d * m + 1
  <2>1. q \in Int
    BY <1>2
  <2>2. q = d * (q \div d) + (q % d) /\ q \div d \in Int
    BY ONLY <2>1, d \in Nat \ {0}, DivMod
  <2>3. QED
    BY <1>1, <1>3, <2>2
<1>5. d < q
  <2>1. m >= 1 => d * m >= d
    BY ONLY d \in Nat \ {0}, m \in Int
  <2>2. m <= 0 => d * m <= 0
    BY ONLY d \in Nat \ {0}, m \in Int
  <2>3. PICK n \in Int : n = d * m
    OBVIOUS
  <2>4. QED
    BY ONLY <1>2, <1>4, <2>1, <2>2, <2>3, d \in Nat \ {0}, m \in Int
<1>6. QED
  BY <1>1, <1>2, <1>3, <1>5 DEF Words

\* find_primitive_root: the N-th power of the root is -1, and with_moduli inverts it
\* and the dimension.
LEMMA RootFacts ==
  ASSUME NEW q \in NttModuli
  PROVE  \E psi \in 1 .. q - 1, inv \in 0 .. q - 1, nInv \in 0 .. q - 1 :
           /\ psi = Psi[q] /\ inv = StdPow(psi, q - 2, q) /\ nInv = StdPow(N, q - 2, q)
           /\ Same(PowerOf(psi, N), -1, q) /\ Same(psi * inv, 1, q) /\ Same(N * nInv, 1, q)
<1>1. /\ q \in Moduli /\ q \in Nat /\ q \in Nat \ {0} /\ q >= 3 /\ N \in 1 .. q - 1 /\ N \in Nat /\ N >= 2
      /\ 2 * N \in Words /\ N \in Words /\ q - 2 \in Words
  BY RootModulus, ModulusFacts, Dimension DEF Words
<1>2. PICK psi \in 0 .. q - 1 : psi = Psi[q] /\ IsRoot(psi, q)
  <2> DEFINE T == {g \in 2 .. q - 1 : IsRoot(Candidate(g, q), q)}
             Least(g) == IsRoot(Candidate(g, q), q) /\ \A h \in 2 .. g - 1 : ~IsRoot(Candidate(h, q), q)
  <2>1. T \in SUBSET Nat /\ \E x : x \in T
    BY <1>1, RootsExist
  <2>2. PICK m \in T : \A n \in T : m <= n
    <3> HIDE DEF T
    <3>1. QED
      BY <2>1, LeastNat
  <2>3. Least(m)
    <3>1. ASSUME NEW h \in 2 .. m - 1
          PROVE  ~IsRoot(Candidate(h, q), q)
      <4>1. h \in 2 .. q - 1 /\ ~(m <= h)
        BY <1>1, <3>1
      <4>2. QED
        BY <2>2, <4>1
    <3>2. QED
      BY <2>2, <3>1
  <2>4. m \in 2 .. q - 1
    BY <2>2
  <2>5. Psi[q] = Candidate(CHOOSE g \in 2 .. q - 1 : Least(g), q)
    BY DEF Psi
  <2>6. PICK g \in 2 .. q - 1 : Least(g) /\ Psi[q] = Candidate(g, q)
    <3> HIDE DEF Least
    <3>1. QED
      BY <2>3, <2>4, <2>5
  <2>7. QED
    BY <2>6, PsiReduced
<1>3. psi \in Nat /\ StdPow(psi, 2 * N, q) = 1 /\ StdPow(psi, N, q) # 1
  BY <1>1, <1>2 DEF IsRoot
<1>4. PICK y \in Nat : y = PowerOf(psi, N)
  BY <1>1, <1>3, PowerOfStep
<1>5. y * y = PowerOf(psi, 2 * N)
  <2>1. 2 * N = N + N
    BY <1>1
  <2>2. QED
    BY <1>1, <1>3, <1>4, <2>1, PowerOfSum
<1>6. PICK u \in 0 .. q - 1 : u = y % q /\ u # 1 /\ Same(u, y, q) /\ u \in Nat
  <2>1. y % q \in 0 .. q - 1 /\ y % q \in Nat /\ Same(y % q, y, q)
    BY ONLY <1>1, y \in Nat, ResidueOf
  <2>2. StdPow(psi, N, q) = PowerOf(psi, N) % q
    BY ONLY <1>1, <1>3, StdPowReads
  <2>3. QED
    BY ONLY <1>3, <1>4, <2>1, <2>2
<1>7. Same(u * u, 1, q)
  <2>1. PICK z \in Nat : z = y * y
    BY ONLY y \in Nat
  <2>2. z % q = 1
    <3>1. StdPow(psi, 2 * N, q) = PowerOf(psi, 2 * N) % q
      BY ONLY <1>1, <1>3, StdPowReads
    <3>2. QED
      BY ONLY <1>3, <1>5, <2>1, <3>1
  <2>3. Same(1, z, q)
    BY ONLY <1>1, <2>2, z \in Nat, ResidueOf
  <2>4. Same(u * u, z, q)
    BY ONLY <1>1, <1>6, <2>1, y \in Nat, SameProduct
  <2>5. PICK v \in Int : v = u * u
    BY <1>6
  <2>6. Same(v, 1, q)
    <3>1. 1 \in Int /\ z \in Int /\ Same(v, z, q)
      BY <2>4, <2>5
    <3>2. Same(z, 1, q)
      BY ONLY <1>1, <2>3, <3>1, SameSymmetric
    <3>3. QED
      BY ONLY <1>1, <3>1, <3>2, v \in Int, SameTransitive
  <2>7. QED
    BY <2>5, <2>6
<1>8. u # 0
  <2>1. ASSUME u = 0
        PROVE  FALSE
    <3>1. PICK k \in Int : 0 = 1 + q * k
      BY <1>7, <2>1 DEF Same
    <3>2. 1 = q * (-k) + 0 /\ 1 = q * 0 + 1
      BY ONLY <1>1, <3>1, k \in Int
    <3>3. 1 \in Int /\ 0 \in Int /\ -k \in Int /\ 0 \in 0 .. q - 1 /\ 1 \in 0 .. q - 1
      BY ONLY <1>1, k \in Int
    <3>4. 1 % q = 0
      BY ONLY <1>1, <3>2, <3>3, DivModUnique
    <3>5. 1 % q = 1
      BY ONLY <1>1, <3>3, ModSmall
    <3>6. QED
      BY <3>4, <3>5
  <2>2. QED
    BY <2>1
<1>9. Same(PowerOf(psi, N), -1, q)
  <2>1. PICK v \in 1 .. q - 1 : v = u - 1
    BY <1>1, <1>6, <1>8
  <2>2. PICK k \in Int : u * u = 1 + q * k
    BY <1>7 DEF Same
  <2>3. v * (u + 1) = 0 + q * k
    <3>1. (u - 1) * (u + 1) = u * u - 1
      BY <1>6
    <3>2. PICK s \in Int, t \in Int : s = u * u /\ t = q * k
      BY <1>1, <1>6
    <3>3. QED
      BY <2>1, <2>2, <3>1, <3>2
  <2>4. Same(v * (u + 1), 0, q) /\ u + 1 \in Int
    BY <1>6, <2>3 DEF Same
  <2>5. Same(u + 1, 0, q)
    BY ONLY <1>1, <2>4, v \in 1 .. q - 1, NoZeroDivisors
  <2>6. Same(-1, -1, q) /\ -1 \in Int /\ 0 \in Int /\ u \in Int
    BY <1>1, <1>6, SameReflexive
  <2>7. Same((u + 1) + (-1), 0 + (-1), q)
    BY ONLY <1>1, <2>4, <2>5, <2>6, SameSum
  <2>8. (u + 1) + (-1) = u /\ 0 + (-1) = -1 /\ y \in Int
    BY <1>6
  <2>9. Same(u, -1, q)
    BY <2>7, <2>8
  <2>10. Same(y, u, q)
    BY ONLY <1>1, <1>6, <2>6, <2>8, SameSymmetric
  <2>11. Same(y, -1, q)
    BY ONLY <1>1, <2>6, <2>8, <2>9, <2>10, SameTransitive
  <2>12. QED
    BY <1>4, <2>11
<1>10. psi # 0
  <2>1. ASSUME psi = 0
        PROVE  FALSE
    <3>1. PICK n \in Nat : N = n + 1
      <4>1. N - 1 \in Nat /\ N = (N - 1) + 1
        BY <1>1
      <4>2. QED
        BY <4>1
    <3>2. PICK x \in Nat : x = PowerOf(psi, n) /\ PowerOf(psi, n + 1) = x * psi
      BY <1>3, PowerOfStep
    <3>3. y = 0
      BY <1>4, <2>1, <3>1, <3>2
    <3>4. y % q = 0
      BY ONLY <1>1, <3>3
    <3>5. QED
      BY <1>6, <1>8, <3>4
  <2>2. QED
    BY <2>1
<1>11. ASSUME NEW x \in 1 .. q - 1
       PROVE  StdPow(x, q - 2, q) \in 0 .. q - 1 /\ Same(x * StdPow(x, q - 2, q), 1, q)
  <2>1. x \in Nat /\ x \in Int
    BY <1>1
  <2>2. StdPow(x, q - 2, q) = PowerOf(x, q - 2) % q /\ StdPow(x, q - 2, q) \in 0 .. q - 1
    BY ONLY <1>1, <2>1, StdPowReads
  <2>3. PICK p \in Nat : p = PowerOf(x, q - 2)
    <3>1. q - 2 \in Nat
      BY <1>1
    <3>2. QED
      BY <2>1, <3>1, PowerOfStep
  <2>4. Same(p * x, 1, q)
    BY ONLY <1>1, <2>3, x \in 1 .. q - 1, FermatInverse
  <2>5. PICK r \in 0 .. q - 1 : r = StdPow(x, q - 2, q) /\ Same(r, p, q)
    <3>1. p % q \in 0 .. q - 1 /\ Same(p % q, p, q)
      BY ONLY <1>1, p \in Nat, ResidueOf
    <3>2. QED
      BY ONLY <2>2, <2>3, <3>1
  <2>6. r \in Int /\ p \in Int
    BY <1>1
  <2>7. Same(r * x, p * x, q)
    <3>1. Same(x, x, q)
      BY ONLY <1>1, <2>1, SameReflexive
    <3>2. QED
      BY ONLY <1>1, <2>1, <2>5, <2>6, <3>1, SameProduct
  <2>8. PICK s \in Int, t \in Int : s = r * x /\ t = p * x
    BY ONLY <2>1, <2>6
  <2>9. Same(s, 1, q)
    <3>1. Same(s, t, q) /\ Same(t, 1, q) /\ 1 \in Int
      BY ONLY <2>4, <2>7, <2>8
    <3>2. QED
      BY ONLY <1>1, <3>1, s \in Int, t \in Int, SameTransitive
  <2>10. s = x * r
    BY ONLY <2>1, <2>6, <2>8
  <2>11. QED
    BY ONLY <2>2, <2>5, <2>9, <2>10
<1>12. psi \in 1 .. q - 1
  BY <1>2, <1>10
<1>13. QED
  BY <1>1, <1>2, <1>9, <1>11, <1>12
-----------------------------------------------------------------------------
(* The heap of blocks                                                      *)

\* The high bit of k is the power of two at most k whose double is above k.
LEMMA HighBitIs ==
  ASSUME NEW k \in Nat, NEW m \in PowersOfTwo, m <= k, k < 2 * m
  PROVE  HighBit(k) = m
<1>1. PICK n \in PowersOfTwo : n = HighBit(k) /\ n <= k /\ k < 2 * n
  BY DEF HighBit
<1>2. PICK i \in 0 .. Bits, j \in 0 .. Bits : m = 2 ^ i /\ n = 2 ^ j
  BY <1>1 DEF PowersOfTwo
<1>3. Bits \in Nat /\ m \in Nat /\ n \in Nat /\ i \in Int /\ j \in Int
  BY <1>2, WordAssumption, Powers
<1>4. ASSUME NEW a \in 0 .. Bits, NEW b \in 0 .. Bits, a < b, NEW x \in Nat, x = 2 ^ a,
             NEW y \in Nat, y = 2 ^ b
      PROVE  2 * x <= y
  <2>1. a + 1 \in 1 .. Bits /\ a + 1 \in 0 .. Bits /\ (a + 1) - 1 = a /\ a + 1 <= b
    BY <1>3, <1>4
  <2>2. PICK c \in Nat : c >= 1 /\ 2 ^ b = 2 ^ (a + 1) * c
    BY <2>1, Powers
  <2>3. 2 ^ (a + 1) = 2 * x
    BY <1>4, <2>1, Powers
  <2>4. y = (2 * x) * c
    BY <1>4, <2>2, <2>3
  <2>5. PICK z \in Nat : z = 2 * x
    BY <1>4
  <2>6. z * c >= z
    BY ONLY <2>2, z \in Nat, c \in Nat
  <2>7. QED
    BY <2>4, <2>5, <2>6
<1>5. ~(i < j)
  <2>1. i < j => 2 * m <= n
    BY <1>2, <1>3, <1>4
  <2>2. QED
    BY <1>1, <1>3, <2>1
<1>6. ~(j < i)
  <2>1. j < i => 2 * n <= m
    BY <1>2, <1>3, <1>4
  <2>2. QED
    BY <1>1, <1>3, <2>1
<1>7. i = j
  BY <1>3, <1>5, <1>6
<1>8. QED
  BY <1>1, <1>2, <1>7

\* The double of a power of two below the dimension is one.
LEMMA DoubledPower ==
  ASSUME NEW h \in PowersOfTwo, h < N
  PROVE  2 * h \in PowersOfTwo /\ h \in Nat /\ h >= 1
<1>1. PICK K \in 1 .. Bits : N = 2 ^ K /\ N \in Nat /\ N >= 2
  BY Dimension
<1>2. PICK i \in 0 .. Bits : h = 2 ^ i
  BY DEF PowersOfTwo
<1>3. Bits \in Nat /\ i \in Int /\ K \in 0 .. Bits /\ h \in Nat /\ h >= 1
  BY <1>1, <1>2, WordAssumption, Powers
<1>4. i < Bits
  <2>1. ASSUME i >= Bits
        PROVE  FALSE
    <3>1. K <= i
      BY <1>3, <2>1
    <3>2. PICK c \in Nat : c >= 1 /\ 2 ^ i = 2 ^ K * c
      BY <1>3, <3>1, Powers
    <3>3. h = N * c
      BY <1>1, <1>2, <3>2
    <3>4. N * c >= N
      BY ONLY <1>1, <3>2, c \in Nat
    <3>5. QED
      BY <1>1, <1>3, <3>3, <3>4
  <2>2. QED
    BY <1>3, <2>1
<1>5. i + 1 \in 1 .. Bits /\ i + 1 \in 0 .. Bits /\ (i + 1) - 1 = i
  BY <1>3, <1>4
<1>6. QED
  BY <1>2, <1>3, <1>5, Powers

\* A level of h blocks of l words each.
Level(k, h, l) ==
  /\ h \in PowersOfTwo /\ h \in Nat /\ h >= 1 /\ l \in Nat /\ l >= 1 /\ N = h * l
  /\ h <= k /\ k < 2 * h /\ h = HighBit(k) /\ l = Length(k)

\* The blocks up to the single words are on some level.
LEMMA LevelOf ==
  ASSUME NEW k \in 1 .. 2 * N - 1
  PROVE  \E h, l : Level(k, h, l)
<1>1. PICK K \in 1 .. Bits : N = 2 ^ K /\ N \in Nat /\ N >= 2
  BY Dimension
<1>2. Bits \in Nat /\ K \in 0 .. Bits /\ K \in Nat /\ k \in Nat /\ k >= 1
  BY <1>1, WordAssumption
<1> DEFINE Below(i) == \A x \in Nat : x >= 1 /\ x < 2 * 2 ^ i =>
                         \E m \in 0 .. i : 2 ^ m <= x /\ x < 2 * 2 ^ m
           T == {i \in 0 .. K : Below(i)}
<1>3. 0 \in T
  <2>1. ASSUME NEW x \in Nat, x >= 1, x < 2 * 2 ^ 0
        PROVE  \E m \in 0 .. 0 : 2 ^ m <= x /\ x < 2 * 2 ^ m
    <3>1. 0 \in 0 .. 0 /\ 2 ^ 0 <= x
      BY <2>1, Powers
    <3>2. QED
      BY <2>1, <3>1
  <2>2. Below(0) /\ 0 \in 0 .. K
    BY <1>2, <2>1
  <2> HIDE DEF Below
  <2>3. QED
    BY <2>2
<1>4. ASSUME NEW i \in 0 .. K, i # K, i \in T
      PROVE  i + 1 \in T
  <2>1. i + 1 \in 0 .. K /\ i + 1 \in 1 .. Bits /\ i + 1 \in 0 .. Bits /\ (i + 1) - 1 = i /\ i \in 0 .. Bits
    BY <1>2, <1>4
  <2>2. PICK p \in Nat : p = 2 ^ i /\ 2 ^ (i + 1) = 2 * p
    BY <2>1, Powers
  <2>3. ASSUME NEW x \in Nat, x >= 1, x < 2 * 2 ^ (i + 1)
        PROVE  \E m \in 0 .. i + 1 : 2 ^ m <= x /\ x < 2 * 2 ^ m
    <3>1. CASE x < 2 * p
      <4>1. PICK m \in 0 .. i : 2 ^ m <= x /\ x < 2 * 2 ^ m
        BY <1>4, <2>2, <2>3, <3>1
      <4>2. m \in 0 .. i + 1
        BY <2>1
      <4>3. QED
        BY <4>1, <4>2
    <3>2. CASE ~(x < 2 * p)
      <4>1. i + 1 \in 0 .. i + 1 /\ 2 ^ (i + 1) <= x
        BY <2>1, <2>2, <3>2
      <4>2. QED
        BY <2>3, <4>1
    <3>3. QED
      BY <3>1, <3>2
  <2>4. QED
    BY <2>1, <2>3
<1> HIDE DEF T
<1>5. \A i \in 0 .. K : i \in T
  BY <1>2, <1>3, <1>4, Induction
<1>6. K \in 0 .. K /\ K \in T
  BY <1>2, <1>5
<1>7. PICK m \in 0 .. K : 2 ^ m <= k /\ k < 2 * 2 ^ m
  BY <1>1, <1>2, <1>6 DEF T
<1>8. m \in 0 .. Bits /\ m <= K
  BY <1>2
<1>9. PICK h \in PowersOfTwo : h = 2 ^ m /\ h \in Nat /\ h >= 1
  BY <1>8, Powers
<1>10. PICK l \in Nat : l >= 1 /\ N = h * l
  BY <1>1, <1>2, <1>8, <1>9, Powers
<1>11. h = HighBit(k)
  BY <1>2, <1>7, <1>9, HighBitIs
<1>12. N \div h = l
  <2>1. N \in Int /\ h \in Nat \ {0} /\ l \in Int /\ 0 \in 0 .. h - 1 /\ N = h * l + 0
    BY <1>1, <1>9, <1>10
  <2>2. QED
    BY ONLY <2>1, DivModUnique
<1>13. QED
  BY <1>7, <1>9, <1>10, <1>11, <1>12 DEF Level, Length

\* The two blocks that a block is split into.
LEMMA LevelBelow ==
  ASSUME NEW k \in 1 .. N - 1
  PROVE  \E h, l, d :
           /\ Level(k, h, 2 * l) /\ Level(2 * k, 2 * h, l) /\ Level(2 * k + 1, 2 * h, l)
           /\ h \in Nat /\ l \in Nat /\ l >= 1 /\ d = k - h /\ d \in Nat /\ d + 1 <= h
           /\ Half(k) = l /\ Start(k) = d * (2 * l) /\ First(k) = d * (2 * l)
           /\ First(2 * k) = d * (2 * l) /\ First(2 * k + 1) = d * (2 * l) + l
           /\ d * (2 * l) \in Nat /\ d * (2 * l) + 2 * l <= N
<1>1. /\ N \in Nat /\ N >= 2 /\ k \in Nat /\ k >= 1 /\ k \in 1 .. 2 * N - 1 /\ 2 * k \in 1 .. 2 * N - 1
      /\ 2 * k + 1 \in 1 .. 2 * N - 1 /\ 2 * k \in Nat /\ 2 * k + 1 \in Nat
  BY Dimension
<1>2. PICK h \in Nat, w \in Nat : Level(k, h, w)
  BY <1>1, LevelOf DEF Level
<1>3. h >= 1 /\ h <= k /\ k < 2 * h /\ h < N /\ N = h * w /\ w >= 1
  BY <1>1, <1>2 DEF Level
<1>4. PICK x \in Nat, l \in Nat : Level(2 * k, x, l)
  BY <1>1, LevelOf DEF Level
<1>5. x = 2 * h
  <2>1. 2 * h \in PowersOfTwo
    BY <1>2, <1>3, DoubledPower DEF Level
  <2>2. 2 * h <= 2 * k /\ 2 * k < 2 * (2 * h) /\ 2 * k + 1 < 2 * (2 * h) /\ 2 * h <= 2 * k + 1
    BY <1>1, <1>3
  <2>3. HighBit(2 * k) = 2 * h
    BY <1>1, <2>1, <2>2, HighBitIs
  <2>4. QED
    BY <1>4, <2>3 DEF Level
<1>6. l >= 1 /\ N = (2 * h) * l /\ 2 * h \in PowersOfTwo
  BY <1>4, <1>5 DEF Level
<1>7. w = 2 * l
  <2>1. h * w = h * (2 * l)
    BY ONLY <1>3, <1>6, h \in Nat, w \in Nat, l \in Nat
  <2>2. N \in Int /\ h \in Nat \ {0} /\ w \in Int /\ 2 * l \in Int /\ 0 \in 0 .. h - 1 /\ N = h * w + 0
        /\ N = h * (2 * l) + 0
    BY <1>1, <1>3, <2>1
  <2>3. N \div h = w
    BY ONLY <2>2, DivModUnique
  <2>4. N \div h = 2 * l
    BY ONLY <2>2, DivModUnique
  <2>5. QED
    BY <2>3, <2>4
<1>8. Level(2 * k + 1, 2 * h, l)
  <2>1. 2 * h <= 2 * k + 1 /\ 2 * k + 1 < 2 * (2 * h) /\ 2 * h \in Nat /\ 2 * h >= 1
    BY <1>1, <1>3
  <2>2. HighBit(2 * k + 1) = 2 * h
    BY <1>1, <1>6, <2>1, HighBitIs
  <2>3. N \div (2 * h) = l
    <3>1. PICK y \in Nat \ {0} : y = 2 * h
      BY <1>3
    <3>2. N \in Int /\ l \in Int /\ 0 \in 0 .. y - 1 /\ N = y * l + 0
      BY <1>1, <1>6, <3>1
    <3>3. N \div y = l
      BY ONLY <3>2, y \in Nat \ {0}, DivModUnique
    <3>4. QED
      BY <3>1, <3>3
  <2>4. QED
    BY <1>6, <2>1, <2>2, <2>3 DEF Level, Length
<1>9. PICK d \in Nat : d = k - h /\ d + 1 <= h
  <2>1. k - h \in Nat /\ (k - h) + 1 <= h
    BY <1>1, <1>3
  <2>2. QED
    BY <2>1
<1>10. PICK s \in Nat : s = d * (2 * l) /\ s = (2 * d) * l
  <2>1. d * (2 * l) \in Nat /\ d * (2 * l) = (2 * d) * l
    BY ONLY d \in Nat, l \in Nat
  <2>2. QED
    BY <2>1
<1>11. s + 2 * l <= N
  <2>1. PICK e \in Nat : h = d + 1 + e
    <3>1. h - (d + 1) \in Nat /\ h = d + 1 + (h - (d + 1))
      BY <1>9
    <3>2. QED
      BY <3>1
  <2>2. (2 * h) * l = (2 * d) * l + 2 * l + (2 * e) * l
    BY ONLY <2>1, d \in Nat, e \in Nat, l \in Nat
  <2>3. PICK t \in Nat : t = (2 * e) * l
    BY ONLY e \in Nat, l \in Nat
  <2>4. QED
    BY <1>6, <1>10, <2>2, <2>3
<1>12. HighBit(k) = h /\ HighBit(2 * k) = 2 * h /\ HighBit(2 * k + 1) = 2 * h
       /\ Length(k) = 2 * l /\ Length(2 * k) = l /\ Length(2 * k + 1) = l
  BY <1>2, <1>4, <1>5, <1>7, <1>8 DEF Level
<1>13. Half(k) = l
  BY <1>12 DEF Half, Length
<1>14. Start(k) = s
  <2>1. Start(k) = 2 * d * l
    BY <1>9, <1>12, <1>13 DEF Start
  <2>2. QED
    BY <1>10, <2>1
<1>15. First(k) = s
  BY <1>9, <1>10, <1>12 DEF First
<1>16. First(2 * k) = s /\ First(2 * k + 1) = s + l
  <2>1. 2 * k - 2 * h = 2 * d /\ (2 * k + 1) - 2 * h = 2 * d + 1
    BY <1>1, <1>3, <1>9
  <2>2. (2 * d + 1) * l = (2 * d) * l + l
    BY ONLY d \in Nat, l \in Nat
  <2>3. QED
    BY <1>10, <1>12, <2>1, <2>2 DEF First
<1>17. Level(k, h, 2 * l) /\ Level(2 * k, 2 * h, l)
  BY <1>2, <1>4, <1>5, <1>7
<1>18. QED
  BY <1>6, <1>8, <1>9, <1>10, <1>11, <1>13, <1>14, <1>15, <1>16, <1>17
-----------------------------------------------------------------------------
(* What the ladders hold                                                   *)

\* A position that is not a power of two is that of two smaller ones.
LEMMA LowBitSmaller ==
  ASSUME NEW k \in 1 .. N - 1, k # HighBit(k)
  PROVE  LowBit(k) \in 1 .. k - 1 /\ k - LowBit(k) \in 1 .. k - 1
<1>1. N \in Nat /\ k \in Nat
  BY Dimension
<1>2. PICK l \in 1 .. k : l = LowBit(k) /\ l \in PowersOfTwo
  BY LowBitPart
<1>3. l # k
  <2>1. k \in PowersOfTwo => HighBit(k) = k
    <3>1. k <= k /\ k < 2 * k
      BY <1>1
    <3>2. QED
      BY <1>1, <3>1, HighBitIs
  <2>2. QED
    BY <1>2, <2>1
<1>4. QED
  BY <1>1, <1>2, <1>3

\* The loop of compute_twiddle_factors: x at the powers of two, products elsewhere.
Rung(x, m, f, k) == IF k = HighBit(k) THEN x[k] ELSE m[f[k - LowBit(k)]][f[LowBit(k)]]
Fills(y, x, m, q) ==
  /\ y = [k \in 0 .. N - 1 |-> y[k]] /\ y[0] = [j \in Idx |-> 0]
  /\ \A k \in 1 .. N - 1 : y[k - 1] \in Arrays(q) =>
       y[k] = [y[k - 1] EXCEPT ![k] = Rung(x, m, y[k - 1], k)]

\* It ends, with every entry made of the final ones.
LEMMA RungsFill ==
  ASSUME NEW q \in Nat \ {0}, NEW x \in [1 .. N - 1 -> 0 .. q - 1],
         NEW m \in [0 .. q - 1 -> [0 .. q - 1 -> 0 .. q - 1]]
  PROVE  /\ \E y : Fills(y, x, m, q)
         /\ \A y : Fills(y, x, m, q) =>
              /\ \A k \in Idx : y[k] \in Arrays(q)
              /\ \A k \in 1 .. N - 1 : y[N - 1][k] = Rung(x, m, y[N - 1], k)
<1> DEFINE S == Arrays(q)
           s0 == [j \in Idx |-> 0]
           Step(f, k) == [f EXCEPT ![k] = Rung(x, m, f, k)]
           G == [i \in 0 .. N - 1 |-> [s \in S |-> IF i = 0 THEN s ELSE Step(s, i)]]
<1>0. N \in Nat /\ N - 1 \in Nat /\ Idx = 0 .. N - 1
  BY Dimension DEF Idx
<1>1. ASSUME NEW f \in S, NEW k \in 0 .. N - 1, k # 0
      PROVE  Step(f, k) \in S
  <2>1. k \in 1 .. N - 1 /\ k \in Idx
    BY <1>0, <1>1
  <2>2. Rung(x, m, f, k) \in 0 .. q - 1
    <3>1. CASE k = HighBit(k)
      BY <2>1, <3>1 DEF Rung
    <3>2. CASE k # HighBit(k)
      <4>1. LowBit(k) \in Idx /\ k - LowBit(k) \in Idx
        <5>1. LowBit(k) \in 1 .. k - 1 /\ k - LowBit(k) \in 1 .. k - 1
          BY ONLY <2>1, <3>2, LowBitSmaller
        <5>2. \A j \in 1 .. k - 1 : j \in Idx
          BY ONLY <1>0, <2>1
        <5>3. QED
          BY ONLY <5>1, <5>2
      <4>2. f[LowBit(k)] \in 0 .. q - 1 /\ f[k - LowBit(k)] \in 0 .. q - 1
        BY <1>1, <4>1 DEF Arrays
      <4>3. m[f[k - LowBit(k)]] \in [0 .. q - 1 -> 0 .. q - 1]
        BY <4>2
      <4>4. m[f[k - LowBit(k)]][f[LowBit(k)]] \in 0 .. q - 1
        BY ONLY <4>2, <4>3
      <4>5. QED
        BY <3>2, <4>4 DEF Rung
    <3>3. QED
      BY <3>1, <3>2
  <2>3. QED
    BY <1>1, <2>1, <2>2 DEF Arrays
<1>2. s0 \in S
  BY <1>0 DEF Arrays
<1> HIDE DEF Step, S, s0
<1>3. Recurs(S, N - 1, s0, G)
  BY <1>0, <1>1, <1>2 DEF Recurs
<1>4. \E y : Fills(y, x, m, q)
  <2>1. PICK f : Solves(f, S, N - 1, s0, G)
    <3> HIDE DEF G
    <3>1. QED
      BY ONLY <1>3, RecursionExists, Zenon
  <2>2. /\ f = [i \in 0 .. N - 1 |-> f[i]] /\ f[0] = s0
        /\ \A i \in 0 .. N - 1 : i # 0 => f[i - 1] \in S /\ f[i] = G[i][f[i - 1]]
    <3> HIDE DEF G
    <3>1. QED
      BY ONLY <1>3, <2>1, SolvedSteps
  <2>3. ASSUME NEW i \in 1 .. N - 1
        PROVE  f[i] = Step(f[i - 1], i)
    <3>1. i \in 0 .. N - 1 /\ i # 0
      BY <1>0
    <3>2. f[i - 1] \in S /\ f[i] = G[i][f[i - 1]]
      BY ONLY <2>2, <3>1
    <3>3. QED
      BY <3>1, <3>2
  <2>4. QED
    BY <2>2, <2>3 DEF Fills, Step, s0
<1>5. ASSUME NEW y, Fills(y, x, m, q)
      PROVE  /\ \A k \in Idx : y[k] \in Arrays(q)
             /\ \A k \in 1 .. N - 1 : y[N - 1][k] = Rung(x, m, y[N - 1], k)
  <2>1. Solves(y, S, N - 1, s0, G)
    <3>1. y = [i \in 0 .. N - 1 |-> y[i]] /\ y[0] = s0
      BY <1>5 DEF Fills, s0
    <3>2. ASSUME NEW i \in 0 .. N - 1, i # 0, y[i - 1] \in S
          PROVE  y[i] = G[i][y[i - 1]]
      <4>1. i \in 1 .. N - 1
        BY <1>0, <3>2
      <4>2. y[i] = Step(y[i - 1], i)
        BY <1>5, <3>2, <4>1 DEF Fills, Step, S
      <4>3. QED
        BY <3>2, <4>2
    <3> HIDE DEF G
    <3>3. QED
      BY <1>3, <3>1, <3>2, RecursionSolved
  <2>2. \A k \in Idx : y[k] \in S
    BY <1>0, <2>1 DEF Solves
  <2>3. ASSUME NEW k \in 1 .. N - 1
        PROVE  /\ y[k - 1] \in S /\ y[k] \in S /\ k \in Idx /\ k - 1 \in Idx
               /\ y[k] = [y[k - 1] EXCEPT ![k] = Rung(x, m, y[k - 1], k)]
    <3>1. k \in Idx /\ k - 1 \in Idx
      BY <1>0
    <3>2. y[k - 1] \in S /\ y[k] \in S
      BY <2>2, <3>1
    <3>3. QED
      BY <1>5, <3>1, <3>2 DEF Fills, S
  <2> DEFINE Kept(i) == \A j \in 1 .. i : y[i][j] = y[j][j]
             T == {i \in 0 .. N - 1 : Kept(i)}
  <2>4. 0 \in T
    BY <1>0
  <2>5. ASSUME NEW i \in 0 .. N - 1, i # N - 1, i \in T
        PROVE  i + 1 \in T
    <3>1. PICK k \in 1 .. N - 1 : k = i + 1 /\ k - 1 = i
      <4>1. i + 1 \in 1 .. N - 1 /\ (i + 1) - 1 = i
        BY <1>0, <2>5
      <4>2. QED
        BY <4>1
    <3>2. ASSUME NEW j \in 1 .. k
          PROVE  y[k][j] = y[j][j]
      <4>1. CASE j = k
        BY <4>1
      <4>2. CASE j # k
        <5>1. j \in 1 .. i /\ j \in Idx
          BY <1>0, <3>1, <3>2, <4>2
        <5>2. y[k][j] = y[k - 1][j]
          <6>1. PICK f \in [Idx -> 0 .. q - 1] : f = y[k - 1]
            BY <2>3 DEF S, Arrays
          <6>2. y[k] = [f EXCEPT ![k] = Rung(x, m, f, k)]
            BY <2>3, <6>1
          <6>3. QED
            BY ONLY <4>2, <5>1, <6>1, <6>2
        <5>3. QED
          BY <2>5, <3>1, <5>1, <5>2
      <4>3. QED
        BY <4>1, <4>2
    <3>3. Kept(k) /\ k \in 0 .. N - 1
      BY <1>0, <3>2
    <3> HIDE DEF Kept
    <3>4. QED
      BY <3>1, <3>3
  <2> HIDE DEF T
  <2>6. \A i \in 0 .. N - 1 : i \in T
    BY <1>0, <2>4, <2>5, Induction
  <2>7. \A i \in Idx : Kept(i)
    BY <1>0, <2>6 DEF T
  <2>8. ASSUME NEW k \in 1 .. N - 1
        PROVE  y[N - 1][k] = Rung(x, m, y[N - 1], k)
    <3>1. N - 1 \in Idx /\ k \in 1 .. N - 1
      BY <1>0
    <3>2. y[N - 1][k] = y[k][k]
      BY <2>7, <3>1
    <3>3. y[k][k] = Rung(x, m, y[k - 1], k)
      <4>1. PICK f \in [Idx -> 0 .. q - 1] : f = y[k - 1]
        BY <2>3 DEF S, Arrays
      <4>2. y[k] = [f EXCEPT ![k] = Rung(x, m, f, k)] /\ k \in Idx
        BY <2>3, <4>1
      <4>3. QED
        BY ONLY <4>1, <4>2
    <3>4. Rung(x, m, y[k - 1], k) = Rung(x, m, y[N - 1], k)
      <4>1. CASE k = HighBit(k)
        BY <4>1 DEF Rung
      <4>2. CASE k # HighBit(k)
        <5>1. ASSUME NEW j \in 1 .. k - 1
              PROVE  y[k - 1][j] = y[N - 1][j]
          <6>1. j \in 1 .. N - 1 /\ k - 1 \in Idx
            BY <1>0, <5>1
          <6>2. y[k - 1][j] = y[j][j] /\ y[N - 1][j] = y[j][j]
            BY <2>7, <3>1, <5>1, <6>1
          <6>3. QED
            BY <6>2
        <5>2. QED
          BY <4>2, <5>1, LowBitSmaller DEF Rung
      <4>3. QED
        BY <4>1, <4>2
    <3>5. QED
      BY <3>2, <3>3, <3>4
  <2>9. QED
    BY <2>2, <2>8 DEF S
<1>6. QED
  BY <1>4, <1>5

\* What a ladder of powers of b in bit-reversed order holds, modulo q.
IsLadder(L, b, q) ==
  \A k \in 1 .. N - 1 :
    /\ L[k] \in 0 .. q - 1
    /\ k = HighBit(k) => Same(L[k], PowerOf(b, Half(k)), q)
    /\ k # HighBit(k) => Same(L[k], L[k - LowBit(k)] * L[LowBit(k)], q)

\* The exponent of the entry at a power of two.
LEMMA RungExponent ==
  ASSUME NEW k \in 1 .. N - 1
  PROVE  /\ N \div (2 * k) \in 0 .. N
         /\ k = HighBit(k) => N \div (2 * k) = Half(k) /\ N = (2 * k) * Half(k) /\ Half(k) \in Nat
<1>1. N \in Nat /\ k \in Nat /\ k >= 1
  BY Dimension
<1>2. PICK w \in Nat \ {0} : w = 2 * k
  BY <1>1
<1>3. PICK d \in Nat, r \in Nat : d = N \div w /\ N = w * d + r
  <2>1. N \in Int /\ N \div w \in Nat /\ N % w \in Nat
    BY ONLY <1>1, w \in Nat \ {0}
  <2>2. N = w * (N \div w) + (N % w)
    BY ONLY <2>1, w \in Nat \ {0}, DivMod
  <2>3. QED
    BY <2>1, <2>2
<1>4. d <= w * d
  BY ONLY w \in Nat \ {0}, d \in Nat
<1>5. d \in 0 .. N
  <2>1. PICK s \in Nat : s = w * d
    OBVIOUS
  <2>2. QED
    BY ONLY <1>1, <1>3, <1>4, <2>1, d \in Nat, r \in Nat, s \in Nat
<1>6. ASSUME k = HighBit(k)
      PROVE  N \div (2 * k) = Half(k) /\ N = (2 * k) * Half(k) /\ Half(k) \in Nat
  <2>1. PICK h \in Nat, l \in Nat : Level(2 * k, 2 * h, l) /\ Level(k, h, 2 * l) /\ Half(k) = l
    BY LevelBelow
  <2>2. h = k /\ N = (2 * h) * l
    BY <1>6, <2>1 DEF Level
  <2>3. N \div (2 * k) = Half(k)
    BY <1>6 DEF Half
  <2>4. QED
    BY <2>1, <2>2, <2>3
<1>7. QED
  BY <1>2, <1>3, <1>5, <1>6

\* compute_twiddle_factors_std.
LEMMA LadderStdRises ==
  ASSUME NEW q \in NttModuli, NEW b \in 0 .. q - 1
  PROVE  IsLadder(LadderStd(b, q), b, q)
<1> DEFINE x == [k \in 1 .. N - 1 |-> StdPow(b, N \div (2 * k), q)]
           m == [u \in 0 .. q - 1 |-> [v \in 0 .. q - 1 |-> (u * v) % q]]
           Entry(f, k) == IF k = HighBit(k) THEN StdPow(b, N \div (2 * k), q)
                          ELSE (f[k - LowBit(k)] * f[LowBit(k)]) % q
           F(g) == [k \in 0 .. N - 1 |-> IF k = 0 THEN [j \in Idx |-> 0]
                                         ELSE [g[k - 1] EXCEPT ![k] = Entry(g[k - 1], k)]]
<1>0. /\ q \in Moduli /\ q \in Nat \ {0} /\ N \in Nat /\ N - 1 \in Nat /\ Idx = 0 .. N - 1 /\ b \in Nat
      /\ \A n \in 0 .. N : n \in Words
  BY RootModulus, ModulusFacts, Dimension DEF Idx, Words
<1>1. \A k \in 1 .. N - 1 : StdPow(b, N \div (2 * k), q) \in 0 .. q - 1
  <2>1. ASSUME NEW k \in 1 .. N - 1
        PROVE  StdPow(b, N \div (2 * k), q) \in 0 .. q - 1
    <3>1. PICK e \in Words : e = N \div (2 * k)
      BY <1>0, RungExponent
    <3>2. QED
      BY <1>0, <3>1, StdPowReads
  <2>2. QED
    BY <2>1
<1>2. \A u \in 0 .. q - 1, v \in 0 .. q - 1 : (u * v) % q \in 0 .. q - 1 /\ u * v \in Nat
  <2>1. ASSUME NEW u \in 0 .. q - 1, NEW v \in 0 .. q - 1
        PROVE  (u * v) % q \in 0 .. q - 1 /\ u * v \in Nat
    <3>1. PICK p \in Nat : p = u * v
      BY ONLY <1>0, u \in 0 .. q - 1, v \in 0 .. q - 1
    <3>2. p % q \in 0 .. q - 1
      BY ONLY <1>0, p \in Nat
    <3>3. QED
      BY ONLY <3>1, <3>2
  <2>2. QED
    BY <2>1
<1>3. x \in [1 .. N - 1 -> 0 .. q - 1] /\ m \in [0 .. q - 1 -> [0 .. q - 1 -> 0 .. q - 1]]
  BY <1>1, <1>2
<1>4. ASSUME NEW f \in Arrays(q), NEW k \in 1 .. N - 1
      PROVE  Rung(x, m, f, k) = Entry(f, k)
  <2>1. CASE k = HighBit(k)
    BY <2>1 DEF Rung
  <2>2. CASE k # HighBit(k)
    <3>1. LowBit(k) \in 1 .. k - 1 /\ k - LowBit(k) \in 1 .. k - 1
      BY ONLY k \in 1 .. N - 1, <2>2, LowBitSmaller
    <3>2. \A j \in 1 .. k - 1 : j \in Idx
      BY ONLY <1>0, k \in 1 .. N - 1
    <3>3. f[k - LowBit(k)] \in 0 .. q - 1 /\ f[LowBit(k)] \in 0 .. q - 1
      BY ONLY <3>1, <3>2, f \in Arrays(q) DEF Arrays
    <3>4. m[f[k - LowBit(k)]][f[LowBit(k)]] = (f[k - LowBit(k)] * f[LowBit(k)]) % q
      BY ONLY <3>3
    <3>5. QED
      BY ONLY <2>2, <3>4 DEF Rung
  <2>3. QED
    BY <2>1, <2>2
<1>5. LadderStd(b, q) = (CHOOSE y : y = F(y))[N - 1]
  BY Zenon DEF LadderStd
<1> HIDE DEF x, m, Entry
<1>6. /\ \E y : Fills(y, x, m, q)
      /\ \A y : Fills(y, x, m, q) =>
           /\ \A k \in Idx : y[k] \in Arrays(q)
           /\ \A k \in 1 .. N - 1 : y[N - 1][k] = Rung(x, m, y[N - 1], k)
  BY ONLY <1>0, <1>3, RungsFill
<1>7. \E y : y = F(y)
  <2>1. PICK y : Fills(y, x, m, q) /\ \A k \in Idx : y[k] \in Arrays(q)
    BY <1>6
  <2>2. ASSUME NEW k \in 0 .. N - 1, k # 0
        PROVE  y[k] = [y[k - 1] EXCEPT ![k] = Entry(y[k - 1], k)]
    <3>1. k \in 1 .. N - 1 /\ k - 1 \in Idx
      BY <1>0, <2>2
    <3>2. y[k - 1] \in Arrays(q)
      BY <2>1, <3>1
    <3>3. y[k] = [y[k - 1] EXCEPT ![k] = Rung(x, m, y[k - 1], k)]
      BY <2>1, <3>1, <3>2 DEF Fills
    <3>4. QED
      BY <1>4, <3>1, <3>2, <3>3
  <2>3. y = [k \in 0 .. N - 1 |-> y[k]] /\ y[0] = [j \in Idx |-> 0]
    BY <2>1 DEF Fills
  <2>4. y = F(y)
    BY <2>2, <2>3
  <2>5. QED
    BY <2>4
<1>8. PICK y : y = F(y) /\ LadderStd(b, q) = y[N - 1]
  <2> HIDE DEF F
  <2>1. QED
    BY <1>5, <1>7, Zenon
<1>9. Fills(y, x, m, q)
  <2>1. y = [k \in 0 .. N - 1 |-> y[k]] /\ y[0] = [j \in Idx |-> 0]
    BY <1>0, <1>8
  <2>2. ASSUME NEW k \in 1 .. N - 1, y[k - 1] \in Arrays(q)
        PROVE  y[k] = [y[k - 1] EXCEPT ![k] = Rung(x, m, y[k - 1], k)]
    <3>1. k \in 0 .. N - 1 /\ k # 0
      BY <1>0
    <3>2. y[k] = [y[k - 1] EXCEPT ![k] = Entry(y[k - 1], k)]
      BY <1>8, <3>1
    <3>3. QED
      BY <1>4, <2>2, <3>2
  <2>3. QED
    BY <2>1, <2>2 DEF Fills
<1>10. PICK L \in Arrays(q) : L = LadderStd(b, q) /\ \A k \in 1 .. N - 1 : L[k] = Entry(L, k)
  <2>1. N - 1 \in Idx
    BY <1>0
  <2>2. y[N - 1] \in Arrays(q)
    BY <1>6, <1>9, <2>1
  <2>3. \A k \in 1 .. N - 1 : y[N - 1][k] = Rung(x, m, y[N - 1], k)
    BY <1>6, <1>9
  <2>4. QED
    BY <1>4, <1>8, <2>2, <2>3
<1>11. ASSUME NEW k \in 1 .. N - 1
       PROVE  /\ L[k] \in 0 .. q - 1
              /\ k = HighBit(k) => Same(L[k], PowerOf(b, Half(k)), q)
              /\ k # HighBit(k) => Same(L[k], L[k - LowBit(k)] * L[LowBit(k)], q)
  <2>1. L[k] \in 0 .. q - 1 /\ L[k] = Entry(L, k)
    BY <1>0, <1>10 DEF Arrays
  <2>2. ASSUME k = HighBit(k)
        PROVE  Same(L[k], PowerOf(b, Half(k)), q)
    <3>1. PICK e \in Words : e = Half(k) /\ e \in Nat /\ L[k] = StdPow(b, e, q)
      <4>1. N \div (2 * k) \in 0 .. N /\ N \div (2 * k) = Half(k) /\ Half(k) \in Nat
        BY <2>2, RungExponent
      <4>2. QED
        BY <1>0, <2>1, <2>2, <4>1 DEF Entry
    <3>2. PICK p \in Nat : p = PowerOf(b, e)
      BY <1>0, <3>1, PowerOfStep
    <3>3. L[k] = p % q
      BY <1>0, <3>1, <3>2, StdPowReads
    <3>4. Same(p % q, p, q)
      BY ONLY <1>0, p \in Nat, ResidueOf
    <3>5. QED
      BY <3>1, <3>2, <3>3, <3>4
  <2>3. ASSUME k # HighBit(k)
        PROVE  Same(L[k], L[k - LowBit(k)] * L[LowBit(k)], q)
    <3>1. LowBit(k) \in 1 .. k - 1 /\ k - LowBit(k) \in 1 .. k - 1
      BY ONLY k \in 1 .. N - 1, <2>3, LowBitSmaller
    <3>2. \A j \in 1 .. k - 1 : j \in Idx
      BY ONLY <1>0, k \in 1 .. N - 1
    <3>3. PICK u \in 0 .. q - 1, v \in 0 .. q - 1 : u = L[k - LowBit(k)] /\ v = L[LowBit(k)]
      BY ONLY <3>1, <3>2, L \in Arrays(q) DEF Arrays
    <3>4. L[k] = (u * v) % q
      BY <2>1, <2>3, <3>3 DEF Entry
    <3>5. PICK p \in Nat : p = u * v
      BY <1>2
    <3>6. Same(p % q, p, q)
      BY ONLY <1>0, p \in Nat, ResidueOf
    <3>7. QED
      BY ONLY <3>3, <3>4, <3>5, <3>6
  <2>4. QED
    BY <2>1, <2>2, <2>3
<1>12. QED
  BY <1>10, <1>11 DEF IsLadder

\* compute_twiddle_factors: reduced words, that stand for the entries of the ladder in
\* standard form.
LEMMA LadderStands ==
  ASSUME NEW q \in NttModuli, NEW b \in 0 .. q - 1, NEW L, IsLadder(L, b, q)
  PROVE  /\ Ladder(b, q) \in Arrays(q)
         /\ \A k \in 1 .. N - 1 : StandsFor(Ladder(b, q)[k], L[k], q)
<1> DEFINE Power(g) == [e \in 0 .. N |-> IF e = 0 THEN ToMontgomery(1, q)
                                         ELSE MontgomeryMul(g[e - 1], ToMontgomery(b, q), q)]
           p == CHOOSE y : y = Power(y)
           x == [k \in 1 .. N - 1 |-> p[N \div (2 * k)]]
           m == [u \in 0 .. q - 1 |-> [v \in 0 .. q - 1 |-> MontgomeryMul(u, v, q)]]
           Entry(f, k) == IF k = HighBit(k) THEN p[N \div (2 * k)]
                          ELSE MontgomeryMul(f[k - LowBit(k)], f[LowBit(k)], q)
           F(g) == [k \in 0 .. N - 1 |-> IF k = 0 THEN [j \in Idx |-> 0]
                                         ELSE [g[k - 1] EXCEPT ![k] = Entry(g[k - 1], k)]]
<1>0. /\ q \in Moduli /\ q \in Nat \ {0} /\ N \in Nat /\ N - 1 \in Nat /\ Idx = 0 .. N - 1 /\ b \in Nat
      /\ b \in 0 .. Word - 1 /\ 1 \in 0 .. Word - 1 /\ Word \in Nat
  BY RootModulus, ModulusFacts, Dimension DEF Idx
<1>1. PICK one \in 0 .. q - 1, base \in 0 .. q - 1 :
        one = ToMontgomery(1, q) /\ base = ToMontgomery(b, q) /\ StandsFor(one, 1, q) /\ StandsFor(base, b, q)
  <2>1. StandsFor(ToMontgomery(1, q), 1, q) /\ StandsFor(ToMontgomery(b, q), b, q)
    BY <1>0, ToMontgomeryStands
  <2>2. QED
    BY <2>1 DEF StandsFor
<1>2. /\ \A e \in 0 .. N : p[e] \in 0 .. q - 1
      /\ p[0] = one /\ \A e \in 1 .. N : p[e] = MontgomeryMul(p[e - 1], base, q)
  <2>1. p = CHOOSE y : y = [e \in 0 .. N |-> IF e = 0 THEN one ELSE MontgomeryMul(y[e - 1], base, q)]
    BY <1>1, Zenon
  <2> HIDE DEF p
  <2>2. q \in Moduli
    BY <1>0
  <2>3. QED
    BY ONLY <2>1, <2>2, one \in 0 .. q - 1, base \in 0 .. q - 1, PowersReduced
<1>3. Ladder(b, q) = (CHOOSE y : y = F(y))[N - 1]
  BY Zenon DEF Ladder
<1> HIDE DEF p
<1>4. \A e \in 0 .. N : StandsFor(p[e], PowerOf(b, e), q)
  <2> DEFINE T == {e \in 0 .. N : StandsFor(p[e], PowerOf(b, e), q)}
  <2>1. PowerOf(b, 0) = 1 /\ \A n \in Nat : PowerOf(b, n) \in Nat /\ PowerOf(b, n + 1) = PowerOf(b, n) * b
    BY ONLY <1>0, PowerOfStep
  <2>2. 0 \in T
    <3>1. StandsFor(p[0], PowerOf(b, 0), q)
      BY <1>1, <1>2, <2>1
    <3>2. QED
      BY <1>0, <3>1
  <2>3. ASSUME NEW e \in 0 .. N, e # N, e \in T
        PROVE  e + 1 \in T
    <3>1. e + 1 \in 1 .. N /\ e + 1 \in 0 .. N /\ (e + 1) - 1 = e /\ e \in Nat
      BY <1>0, <2>3
    <3>2. PICK y \in Nat : y = PowerOf(b, e) /\ PowerOf(b, e + 1) = y * b
      BY <2>1, <3>1
    <3>3. p[e + 1] = MontgomeryMul(p[e], base, q)
      BY <1>2, <3>1
    <3>4. StandsFor(p[e], y, q)
      BY <2>3, <3>2
    <3>5. StandsFor(p[e + 1], y * b, q)
      <4>1. y \in Int /\ b \in Int
        BY <1>0
      <4>2. QED
        BY ONLY <1>0, <1>1, <3>3, <3>4, <4>1, MulStands
    <3>6. QED
      BY <3>1, <3>2, <3>5
  <2> HIDE DEF T
  <2>4. \A e \in 0 .. N : e \in T
    BY <1>0, <2>2, <2>3, Induction
  <2>5. QED
    BY <2>4 DEF T
<1>5. x \in [1 .. N - 1 -> 0 .. q - 1] /\ m \in [0 .. q - 1 -> [0 .. q - 1 -> 0 .. q - 1]]
  <2>1. \A k \in 1 .. N - 1 : p[N \div (2 * k)] \in 0 .. q - 1
    BY <1>2, RungExponent
  <2>2. QED
    BY <1>0, <2>1, ProductReduces
<1>6. ASSUME NEW f \in Arrays(q), NEW k \in 1 .. N - 1
      PROVE  Rung(x, m, f, k) = Entry(f, k)
  <2>1. CASE k = HighBit(k)
    BY <2>1 DEF Rung
  <2>2. CASE k # HighBit(k)
    <3>1. LowBit(k) \in 1 .. k - 1 /\ k - LowBit(k) \in 1 .. k - 1
      BY ONLY k \in 1 .. N - 1, <2>2, LowBitSmaller
    <3>2. \A j \in 1 .. k - 1 : j \in Idx
      BY ONLY <1>0, k \in 1 .. N - 1
    <3>3. f[k - LowBit(k)] \in 0 .. q - 1 /\ f[LowBit(k)] \in 0 .. q - 1
      BY ONLY <3>1, <3>2, f \in Arrays(q) DEF Arrays
    <3>4. m[f[k - LowBit(k)]][f[LowBit(k)]] = MontgomeryMul(f[k - LowBit(k)], f[LowBit(k)], q)
      BY ONLY <3>3
    <3>5. QED
      BY ONLY <2>2, <3>4 DEF Rung
  <2>3. QED
    BY <2>1, <2>2
<1> HIDE DEF x, m, Entry
<1>7. /\ \E y : Fills(y, x, m, q)
      /\ \A y : Fills(y, x, m, q) =>
           /\ \A k \in Idx : y[k] \in Arrays(q)
           /\ \A k \in 1 .. N - 1 : y[N - 1][k] = Rung(x, m, y[N - 1], k)
  BY ONLY <1>0, <1>5, RungsFill
<1>8. \E y : y = F(y)
  <2>1. PICK y : Fills(y, x, m, q) /\ \A k \in Idx : y[k] \in Arrays(q)
    BY <1>7
  <2>2. ASSUME NEW k \in 0 .. N - 1, k # 0
        PROVE  y[k] = [y[k - 1] EXCEPT ![k] = Entry(y[k - 1], k)]
    <3>1. k \in 1 .. N - 1 /\ k - 1 \in Idx
      BY <1>0, <2>2
    <3>2. y[k - 1] \in Arrays(q)
      BY <2>1, <3>1
    <3>3. y[k] = [y[k - 1] EXCEPT ![k] = Rung(x, m, y[k - 1], k)]
      BY <2>1, <3>1, <3>2 DEF Fills
    <3>4. QED
      BY <1>6, <3>1, <3>2, <3>3
  <2>3. y = [k \in 0 .. N - 1 |-> y[k]] /\ y[0] = [j \in Idx |-> 0]
    BY <2>1 DEF Fills
  <2>4. y = F(y)
    BY <2>2, <2>3
  <2>5. QED
    BY <2>4
<1>9. PICK y : y = F(y) /\ Ladder(b, q) = y[N - 1]
  <2> HIDE DEF F
  <2>1. QED
    BY <1>3, <1>8, Zenon
<1>10. Fills(y, x, m, q)
  <2>1. y = [k \in 0 .. N - 1 |-> y[k]] /\ y[0] = [j \in Idx |-> 0]
    BY <1>0, <1>9
  <2>2. ASSUME NEW k \in 1 .. N - 1, y[k - 1] \in Arrays(q)
        PROVE  y[k] = [y[k - 1] EXCEPT ![k] = Rung(x, m, y[k - 1], k)]
    <3>1. k \in 0 .. N - 1 /\ k # 0
      BY <1>0
    <3>2. y[k] = [y[k - 1] EXCEPT ![k] = Entry(y[k - 1], k)]
      BY <1>9, <3>1
    <3>3. QED
      BY <1>6, <2>2, <3>2
  <2>3. QED
    BY <2>1, <2>2 DEF Fills
<1>11. PICK M \in Arrays(q) : M = Ladder(b, q) /\ \A k \in 1 .. N - 1 : M[k] = Entry(M, k)
  <2>1. N - 1 \in Idx
    BY <1>0
  <2>2. y[N - 1] \in Arrays(q)
    BY <1>7, <1>10, <2>1
  <2>3. \A k \in 1 .. N - 1 : y[N - 1][k] = Rung(x, m, y[N - 1], k)
    BY <1>7, <1>10
  <2>4. QED
    BY <1>6, <1>9, <2>2, <2>3
<1> DEFINE T == {i \in 0 .. N - 1 : \A k \in 1 .. i : StandsFor(M[k], L[k], q)}
<1>12. 0 \in T
  BY <1>0
<1>13. ASSUME NEW i \in 0 .. N - 1, i # N - 1, i \in T
       PROVE  i + 1 \in T
  <2>1. i + 1 \in 1 .. N - 1 /\ i + 1 \in 0 .. N - 1
    BY <1>0, <1>13
  <2>2. PICK k \in 1 .. N - 1 : k = i + 1
    BY <2>1
  <2>3. StandsFor(M[k], L[k], q)
    <3>1. L[k] \in Int /\ M[k] = Entry(M, k)
      BY <1>0, <1>11 DEF IsLadder
    <3>2. CASE k = HighBit(k)
      <4>1. PICK e \in 0 .. N : e = N \div (2 * k) /\ e = Half(k)
        BY <3>2, RungExponent
      <4>2. StandsFor(M[k], PowerOf(b, e), q)
        BY <1>4, <3>1, <3>2, <4>1 DEF Entry
      <4>3. PICK z \in Nat : z = PowerOf(b, e)
        <5>1. e \in Nat
          BY <1>0
        <5>2. QED
          BY ONLY <1>0, <5>1, PowerOfStep
      <4>4. Same(L[k], z, q)
        BY <3>2, <4>1, <4>3 DEF IsLadder
      <4>5. Same(z, L[k], q)
        <5>1. z \in Int /\ q \in Nat
          BY <1>0
        <5>2. QED
          BY ONLY <3>1, <4>4, <5>1, SameSymmetric
      <4>6. z \in Int
        OBVIOUS
      <4>7. QED
        BY ONLY <1>0, <3>1, <4>2, <4>3, <4>5, <4>6, StandsSame
    <3>3. CASE k # HighBit(k)
      <4>1. LowBit(k) \in 1 .. k - 1 /\ k - LowBit(k) \in 1 .. k - 1
        BY ONLY k \in 1 .. N - 1, <3>3, LowBitSmaller
      <4>2. \A j \in 1 .. k - 1 : StandsFor(M[j], L[j], q) /\ L[j] \in 0 .. q - 1
        <5>1. \A j \in 1 .. k - 1 : j \in 1 .. i /\ j \in 1 .. N - 1
          BY ONLY <1>0, <2>2, i \in 0 .. N - 1
        <5>2. QED
          BY <1>13, <5>1 DEF IsLadder
      <4>3. PICK u \in 0 .. q - 1, v \in 0 .. q - 1 :
              /\ u = L[k - LowBit(k)] /\ v = L[LowBit(k)]
              /\ StandsFor(M[k - LowBit(k)], u, q) /\ StandsFor(M[LowBit(k)], v, q)
        BY ONLY <4>1, <4>2
      <4>4. M[k] = MontgomeryMul(M[k - LowBit(k)], M[LowBit(k)], q)
        BY <3>1, <3>3 DEF Entry
      <4>5. u \in Int /\ v \in Int
        BY <1>0
      <4>6. PICK z \in Int : z = u * v
        BY ONLY <4>5
      <4>7. StandsFor(M[k], z, q)
        BY ONLY <1>0, <4>3, <4>4, <4>5, <4>6, MulStands
      <4>8. Same(L[k], z, q)
        BY <3>3, <4>3, <4>6 DEF IsLadder
      <4>9. Same(z, L[k], q)
        <5>1. q \in Nat
          BY <1>0
        <5>2. QED
          BY ONLY <3>1, <4>8, <5>1, z \in Int, SameSymmetric
      <4>10. QED
        BY ONLY <1>0, <3>1, <4>7, <4>9, z \in Int, StandsSame
    <3>4. QED
      BY <3>2, <3>3
  <2>4. ASSUME NEW j \in 1 .. i + 1
        PROVE  StandsFor(M[j], L[j], q)
    <3>1. j = k \/ j \in 1 .. i
      BY <1>0, <2>2
    <3>2. QED
      BY <1>13, <2>3, <3>1
  <2>5. QED
    BY <2>1, <2>4
<1> HIDE DEF T
<1>14. \A i \in 0 .. N - 1 : i \in T
  BY <1>0, <1>12, <1>13, Induction
<1>15. N - 1 \in 0 .. N - 1 /\ N - 1 \in T
  BY <1>0, <1>14
<1>16. QED
  BY <1>11, <1>15 DEF T

\* The low bit of k is the power of two at which k is odd.
LEMMA LowBitIs ==
  ASSUME NEW k \in Nat, NEW m \in PowersOfTwo, k % (2 * m) = m
  PROVE  LowBit(k) = m
<1>1. PICK n \in PowersOfTwo : n = LowBit(k) /\ k % (2 * n) = n
  BY DEF LowBit
<1>2. PICK i \in 0 .. Bits, j \in 0 .. Bits : m = 2 ^ i /\ n = 2 ^ j
  BY <1>1 DEF PowersOfTwo
<1>3. Bits \in Nat /\ i \in Int /\ j \in Int
  BY WordAssumption
<1>4. ASSUME NEW a \in 0 .. Bits, NEW b \in 0 .. Bits, a < b, NEW x, x = 2 ^ a, NEW y, y = 2 ^ b,
             k % (2 * y) = y
      PROVE  k % (2 * x) # x
  <2>1. a + 1 \in 1 .. Bits /\ a + 1 \in 0 .. Bits /\ (a + 1) - 1 = a /\ a + 1 <= b
    BY <1>3, <1>4
  <2>2. PICK c \in Nat : c >= 1 /\ 2 ^ b = 2 ^ (a + 1) * c
    BY <2>1, Powers
  <2>3. x \in Nat /\ x >= 1 /\ y \in Nat /\ y >= 1 /\ 2 ^ (a + 1) = 2 * x
    BY <1>4, <2>1, Powers
  <2>4. PICK w \in Nat \ {0}, z \in Nat \ {0} : w = 2 * x /\ z = 2 * y
    BY <2>3
  <2>5. k \in Int /\ y = w * c
    BY <1>4, <2>2, <2>3, <2>4
  <2>6. PICK d \in Int : k = z * d + y
    <3>1. k = z * (k \div z) + (k % z) /\ k \div z \in Int
      BY ONLY <2>5, z \in Nat \ {0}, DivMod
    <3>2. QED
      BY <1>4, <2>4, <3>1
  <2>7. k = w * (c * (2 * d + 1)) + 0
    <3>1. k = (2 * (w * c)) * d + w * c
      BY ONLY <2>4, <2>5, <2>6
    <3>2. (2 * (w * c)) * d + w * c = w * (c * (2 * d + 1)) + 0
      BY ONLY w \in Nat \ {0}, c \in Nat, d \in Int
    <3>3. QED
      BY ONLY <3>1, <3>2
  <2>8. c * (2 * d + 1) \in Int /\ 0 \in 0 .. w - 1
    BY <2>4
  <2>9. k % w = 0
    BY ONLY <2>5, <2>7, <2>8, w \in Nat \ {0}, DivModUnique
  <2>10. QED
    BY <2>3, <2>4, <2>9
<1>5. ~(i < j) /\ ~(j < i)
  BY <1>1, <1>2, <1>4
<1>6. i = j
  BY <1>3, <1>5
<1>7. QED
  BY <1>1, <1>2, <1>6

\* How the bits of a position come from those of its half.
LEMMA BitsOfDouble ==
  ASSUME NEW k \in 1 .. N - 1, 2 * k <= N - 1
  PROVE  /\ LowBit(2 * k) = 2 * LowBit(k)
         /\ 2 * k + 1 <= N - 1 => LowBit(2 * k + 1) = 1 /\ 2 * k + 1 # HighBit(2 * k + 1)
         /\ 2 * k = HighBit(2 * k) <=> k = HighBit(k)
         /\ Half(k) = 2 * Half(2 * k) /\ Half(2 * k) \in Nat
<1>1. N \in Nat /\ N >= 2 /\ k \in Nat /\ k \in Int /\ 2 * k \in 1 .. N - 1 /\ 2 * k \in Nat
  BY Dimension
<1>2. PICK l \in Nat : l = LowBit(k) /\ l \in PowersOfTwo /\ l >= 1 /\ k % (2 * l) = l /\ 2 * l \in PowersOfTwo
  <2>1. LowBit(k) \in 1 .. k /\ LowBit(k) \in PowersOfTwo /\ k % (2 * LowBit(k)) = LowBit(k)
    BY LowBitPart
  <2>2. LowBit(k) < N
    BY <1>1, <2>1
  <2>3. QED
    BY <2>1, <2>2, DoubledPower
<1>3. LowBit(2 * k) = 2 * l
  <2>1. PICK w \in Nat \ {0}, z \in Nat \ {0} : w = 2 * l /\ z = 2 * w
    BY <1>2
  <2>2. k = w * (k \div w) + (k % w) /\ k \div w \in Int
    BY ONLY <1>1, w \in Nat \ {0}, DivMod
  <2>3. PICK d \in Int : k = w * d + l
    BY <1>2, <2>1, <2>2
  <2>4. 2 * k = z * d + w
    <3>1. 2 * (w * d + l) = (2 * w) * d + 2 * l
      BY ONLY w \in Nat \ {0}, d \in Int, l \in Nat
    <3>2. QED
      BY ONLY <2>1, <2>3, <3>1
  <2>5. 2 * k \in Int /\ w \in 0 .. z - 1
    BY <1>1, <2>1
  <2>6. (2 * k) % z = w
    BY ONLY <2>4, <2>5, z \in Nat \ {0}, d \in Int, DivModUnique
  <2>7. QED
    BY <1>1, <1>2, <2>1, <2>6, LowBitIs
<1>4. LowBit(2 * k + 1) = 1
  <2>1. (2 * k + 1) % (2 * 1) = 1 /\ 2 * k + 1 \in Nat
    BY <1>1
  <2>2. 1 \in PowersOfTwo
    <3>1. 0 \in 0 .. Bits
      BY WordAssumption
    <3>2. 2 ^ 0 \in PowersOfTwo /\ 2 ^ 0 = 1
      BY ONLY <3>1, Powers
    <3>3. QED
      BY ONLY <3>2
  <2>3. QED
    BY <2>1, <2>2, LowBitIs
<1>5. PICK h \in Nat, x \in Nat :
        Level(k, h, 2 * x) /\ Level(2 * k, 2 * h, x) /\ Level(2 * k + 1, 2 * h, x) /\ Half(k) = x
  BY LevelBelow
<1>6. PICK g, y \in Nat : Level(2 * k, g, 2 * y) /\ Half(2 * k) = y
  BY <1>1, LevelBelow
<1>7. HighBit(k) = h /\ HighBit(2 * k) = 2 * h /\ HighBit(2 * k + 1) = 2 * h /\ x = 2 * y
  BY <1>5, <1>6 DEF Level
<1>8. QED
  BY <1>1, <1>2, <1>3, <1>4, <1>5, <1>6, <1>7

\* The square of each entry: what the block above has for its constant.
SquareOf(L, j) == IF j = 1 THEN -1 ELSE IF j % 2 = 0 THEN L[j \div 2] ELSE -L[j \div 2]

\* The entries are square roots of each other, up to that of -1.
LEMMA LadderSquares ==
  ASSUME NEW q \in Nat \ {0}, NEW b \in Nat, NEW L, IsLadder(L, b, q), Same(PowerOf(b, N), -1, q)
  PROVE  \A j \in 1 .. N - 1 : Same(L[j] * L[j], SquareOf(L, j), q)
<1> DEFINE T == {i \in 0 .. N - 1 : \A j \in 1 .. i : Same(L[j] * L[j], SquareOf(L, j), q)}
<1>0. N \in Nat /\ N >= 2 /\ N - 1 \in Nat /\ q \in Nat /\ 1 \in 1 .. N - 1
  BY Dimension
<1>1. \A k \in 1 .. N - 1 : L[k] \in Int
  BY <1>0 DEF IsLadder
<1>2. 1 = HighBit(1)
  <2>1. 0 \in 0 .. Bits
    BY WordAssumption
  <2>2. 2 ^ 0 \in PowersOfTwo /\ 2 ^ 0 = 1
    BY ONLY <2>1, Powers
  <2>3. 1 \in Nat /\ 1 \in PowersOfTwo /\ 1 <= 1 /\ 1 < 2 * 1
    BY <2>2
  <2>4. QED
    BY ONLY <2>3, HighBitIs
<1>3. ASSUME NEW k \in 1 .. N - 1, k = HighBit(k), NEW e \in Nat, e = 2 * Half(k)
      PROVE  Same(L[k] * L[k], PowerOf(b, e), q)
  <2>1. PICK h \in Nat : h = Half(k)
    BY <1>3, RungExponent
  <2>2. PICK p \in Nat : p = PowerOf(b, h)
    BY <2>1, PowerOfStep
  <2>3. Same(L[k], p, q) /\ L[k] \in Int /\ p \in Int
    BY <1>1, <1>3, <2>1, <2>2 DEF IsLadder
  <2>4. Same(L[k] * L[k], p * p, q)
    BY ONLY <1>0, <2>3, SameProduct
  <2>5. e = h + h
    BY <1>3, <2>1
  <2>6. PowerOf(b, e) = p * p
    BY <2>2, <2>5, PowerOfSum
  <2>7. QED
    BY <2>4, <2>6
<1>4. 0 \in T
  BY <1>0
<1>5. ASSUME NEW i \in 0 .. N - 1, i # N - 1, i \in T
      PROVE  i + 1 \in T
  <2>1. i + 1 \in 1 .. N - 1 /\ i + 1 \in 0 .. N - 1
    BY <1>0, <1>5
  <2>2. PICK j \in 1 .. N - 1 : j = i + 1
    BY <2>1
  <2>3. \A n \in 1 .. i : Same(L[n] * L[n], SquareOf(L, n), q)
    BY <1>5
  <2>4. j \in Nat /\ j >= 1
    BY <1>0
  <2>5. PICK k \in Nat, d \in {0, 1} : k = j \div 2 /\ d = j % 2 /\ j = 2 * k + d
    BY ONLY <2>4, HalfOf
  <2>6. ASSUME j = 1
        PROVE  Same(L[j] * L[j], SquareOf(L, j), q)
    <3>1. N = 2 * Half(1)
      <4>1. N = (2 * 1) * Half(1) /\ Half(1) \in Nat
        BY ONLY <1>0, <1>2, RungExponent
      <4>2. QED
        BY <4>1
    <3>2. Same(L[1] * L[1], PowerOf(b, N), q)
      BY <1>0, <1>2, <1>3, <3>1
    <3>3. PICK p \in Int, a \in Int : p = PowerOf(b, N) /\ a = L[1] * L[1]
      <4>1. PowerOf(b, N) \in Nat /\ L[1] \in Int
        BY <1>0, <1>1, PowerOfStep
      <4>2. QED
        BY <4>1
    <3>4. Same(a, p, q) /\ Same(p, -1, q) /\ -1 \in Int
      BY <3>2, <3>3
    <3>5. Same(a, -1, q)
      BY ONLY <1>0, <3>4, a \in Int, p \in Int, SameTransitive
    <3>6. QED
      BY <2>6, <3>3, <3>5 DEF SquareOf
  <2>7. ASSUME j # 1, d = 0
        PROVE  Same(L[j] * L[j], SquareOf(L, j), q)
    <3>1. j = 2 * k /\ k >= 1 /\ k \in 1 .. N - 1 /\ 2 * k <= N - 1 /\ k <= i
      BY <1>0, <2>2, <2>4, <2>5, <2>7
    <3>2. SquareOf(L, j) = L[k] /\ L[k] \in Int /\ L[j] \in Int
      BY <1>1, <2>5, <2>7, <3>1 DEF SquareOf
    <3>3. /\ LowBit(2 * k) = 2 * LowBit(k) /\ (2 * k = HighBit(2 * k) <=> k = HighBit(k))
          /\ Half(k) = 2 * Half(2 * k) /\ Half(2 * k) \in Nat
      BY ONLY <3>1, BitsOfDouble
    <3>4. CASE k = HighBit(k)
      <4>1. PICK e \in Nat : e = Half(k) /\ e = 2 * Half(j)
        BY <3>1, <3>3
      <4>2. j = HighBit(j)
        BY <3>1, <3>3, <3>4
      <4>3. Same(L[j] * L[j], PowerOf(b, e), q)
        BY <1>3, <4>1, <4>2
      <4>4. Same(L[k], PowerOf(b, e), q)
        BY <3>1, <3>4, <4>1 DEF IsLadder
      <4>5. PICK p \in Int, a \in Int : p = PowerOf(b, e) /\ a = L[j] * L[j]
        <5>1. PowerOf(b, e) \in Nat
          BY PowerOfStep
        <5>2. QED
          BY <3>2, <5>1
      <4>6. Same(a, L[k], q)
        BY <1>0, <3>2, <4>3, <4>4, <4>5, SameChain
      <4>7. QED
        BY <3>2, <4>5, <4>6
    <3>5. CASE k # HighBit(k)
      <4>1. PICK l \in 1 .. k - 1, r \in 1 .. k - 1 : l = LowBit(k) /\ r = k - LowBit(k)
        BY <3>1, <3>5, LowBitSmaller
      <4>2. j # HighBit(j) /\ LowBit(j) = 2 * l /\ j - LowBit(j) = 2 * r
        BY <1>0, <3>1, <3>3, <3>5, <4>1
      <4>3. 2 * l \in 1 .. i /\ 2 * r \in 1 .. i /\ 2 * l \in 1 .. N - 1 /\ 2 * r \in 1 .. N - 1
            /\ l \in 1 .. N - 1 /\ r \in 1 .. N - 1
        BY <1>0, <2>2, <3>1, <4>1
      <4>4. SquareOf(L, 2 * l) = L[l] /\ SquareOf(L, 2 * r) = L[r]
        <5>1. ASSUME NEW n \in 1 .. N - 1
              PROVE  SquareOf(L, 2 * n) = L[n]
          <6>1. (2 * n) % 2 = 0 /\ (2 * n) \div 2 = n /\ 2 * n # 1
            BY <1>0
          <6>2. QED
            BY <6>1 DEF SquareOf
        <5>2. QED
          BY <4>3, <5>1
      <4>5. Same(L[2 * l] * L[2 * l], L[l], q) /\ Same(L[2 * r] * L[2 * r], L[r], q)
        BY <2>3, <4>3, <4>4
      <4>6. Same(L[j], L[2 * r] * L[2 * l], q)
        BY <4>2 DEF IsLadder
      <4>7. Same(L[k], L[r] * L[l], q)
        BY <3>1, <3>5, <4>1 DEF IsLadder
      <4>8. L[2 * l] \in Int /\ L[2 * r] \in Int /\ L[l] \in Int /\ L[r] \in Int
        BY <1>1, <4>3
      <4>9. Same(L[j] * L[j], L[k], q)
        BY ONLY <1>0, <3>2, <4>5, <4>6, <4>7, <4>8, SameProducts
      <4>10. QED
        BY <3>2, <4>9
    <3>6. QED
      BY <2>2, <3>4, <3>5
  <2>8. ASSUME j # 1, d = 1
        PROVE  Same(L[j] * L[j], SquareOf(L, j), q)
    <3>1. j = 2 * k + 1 /\ k >= 1 /\ k \in 1 .. N - 1 /\ 2 * k <= N - 1 /\ 2 * k + 1 <= N - 1
          /\ 2 * k \in 1 .. i /\ 2 * k \in 1 .. N - 1 /\ 1 \in 1 .. i
      BY <1>0, <2>2, <2>4, <2>5, <2>8
    <3>2. SquareOf(L, j) = -L[k] /\ L[k] \in Int /\ L[j] \in Int
      BY <1>1, <2>5, <2>8, <3>1 DEF SquareOf
    <3>3. LowBit(j) = 1 /\ j # HighBit(j)
      BY <3>1, BitsOfDouble
    <3>4. Same(L[j], L[2 * k] * L[1], q)
      <4>1. j - LowBit(j) = 2 * k
        BY <3>1, <3>3
      <4>2. QED
        BY <3>3, <4>1 DEF IsLadder
    <3>5. SquareOf(L, 2 * k) = L[k] /\ SquareOf(L, 1) = -1
      <4>1. (2 * k) % 2 = 0 /\ (2 * k) \div 2 = k /\ 2 * k # 1
        BY <3>1
      <4>2. QED
        BY <4>1 DEF SquareOf
    <3>6. Same(L[2 * k] * L[2 * k], L[k], q) /\ Same(L[1] * L[1], -1, q)
      BY <2>3, <3>1, <3>5
    <3>7. L[2 * k] \in Int /\ L[1] \in Int /\ -1 \in Int
      BY <1>0, <1>1, <3>1
    <3>8. PICK c \in Int : c = -L[k] /\ c = L[k] * (-1)
      <4>1. -L[k] \in Int /\ -L[k] = L[k] * (-1)
        BY ONLY <3>2
      <4>2. QED
        BY <4>1
    <3>9. Same(c, L[k] * (-1), q)
      BY <1>0, <3>8, SameReflexive
    <3>10. Same(L[j] * L[j], c, q)
      BY ONLY <1>0, <3>2, <3>4, <3>6, <3>7, <3>9, c \in Int, SameProducts
    <3>11. QED
      BY <3>2, <3>8, <3>10
  <2>9. Same(L[j] * L[j], SquareOf(L, j), q)
    BY <2>5, <2>6, <2>7, <2>8
  <2>10. ASSUME NEW n \in 1 .. i + 1
         PROVE  Same(L[n] * L[n], SquareOf(L, n), q)
    <3>1. n = j \/ n \in 1 .. i
      BY <1>0, <2>2
    <3>2. QED
      BY <2>3, <2>9, <3>1
  <2>11. QED
    BY <2>1, <2>10
<1> HIDE DEF T
<1>6. \A i \in 0 .. N - 1 : i \in T
  BY <1>0, <1>4, <1>5, Induction
<1>7. N - 1 \in 0 .. N - 1 /\ N - 1 \in T
  BY <1>0, <1>6
<1>8. QED
  BY <1>7 DEF T

\* The ladder of an inverse holds inverses.
LEMMA LadderInverses ==
  ASSUME NEW q \in Nat \ {0}, NEW b \in Nat, NEW c \in Nat, Same(b * c, 1, q),
         NEW L, IsLadder(L, b, q), NEW M, IsLadder(M, c, q)
  PROVE  \A j \in 1 .. N - 1 : Same(L[j] * M[j], 1, q)
<1> DEFINE T == {i \in 0 .. N - 1 : \A j \in 1 .. i : Same(L[j] * M[j], 1, q)}
<1>0. N \in Nat /\ N >= 2 /\ N - 1 \in Nat /\ q \in Nat /\ 1 \in Int
  BY Dimension
<1>1. \A k \in 1 .. N - 1 : L[k] \in Int /\ M[k] \in Int
  BY <1>0 DEF IsLadder
<1>2. 0 \in T
  BY <1>0
<1>3. ASSUME NEW i \in 0 .. N - 1, i # N - 1, i \in T
      PROVE  i + 1 \in T
  <2>1. i + 1 \in 1 .. N - 1 /\ i + 1 \in 0 .. N - 1
    BY <1>0, <1>3
  <2>2. PICK j \in 1 .. N - 1 : j = i + 1
    BY <2>1
  <2>3. \A n \in 1 .. i : Same(L[n] * M[n], 1, q)
    BY <1>3
  <2>4. L[j] \in Int /\ M[j] \in Int
    BY <1>1
  <2>5. ASSUME j = HighBit(j)
        PROVE  Same(L[j] * M[j], 1, q)
    <3>1. PICK e \in Nat : e = Half(j)
      BY <2>5, RungExponent
    <3>2. PICK d \in Nat : d = b * c
      OBVIOUS
    <3>3. PICK x \in Nat, y \in Nat, z \in Nat :
            x = PowerOf(b, e) /\ y = PowerOf(c, e) /\ z = PowerOf(d, e)
      <4>1. PowerOf(b, e) \in Nat /\ PowerOf(c, e) \in Nat /\ PowerOf(d, e) \in Nat
        BY PowerOfStep
      <4>2. QED
        BY <4>1
    <3>4. z = x * y
      BY <3>2, <3>3, PowerOfProduct
    <3>5. Same(z, 1, q)
      <4>1. Same(d, 1, q) /\ 1 \in Nat
        BY <3>2
      <4>2. Same(PowerOf(d, e), PowerOf(1, e), q)
        BY ONLY <1>0, <4>1, d \in Nat, e \in Nat, PowerSame
      <4>3. QED
        BY <3>3, <4>2, PowerOfUnit
    <3>6. Same(L[j], x, q) /\ Same(M[j], y, q)
      BY <2>5, <3>1, <3>3 DEF IsLadder
    <3>7. PICK p \in Int : p = L[j] * M[j]
      BY <2>4
    <3>8. Same(p, z, q)
      <4>1. x \in Int /\ y \in Int
        OBVIOUS
      <4>2. Same(L[j] * M[j], x * y, q)
        BY ONLY <1>0, <2>4, <3>6, <4>1, SameProduct
      <4>3. QED
        BY <3>4, <3>7, <4>2
    <3>9. Same(p, 1, q)
      BY <1>0, <3>5, <3>8, SameTransitive
    <3>10. QED
      BY <3>7, <3>9
  <2>6. ASSUME j # HighBit(j)
        PROVE  Same(L[j] * M[j], 1, q)
    <3>1. PICK l \in 1 .. j - 1, r \in 1 .. j - 1 : l = LowBit(j) /\ r = j - LowBit(j)
      BY <2>6, LowBitSmaller
    <3>2. l \in 1 .. i /\ r \in 1 .. i /\ l \in 1 .. N - 1 /\ r \in 1 .. N - 1
      BY <1>0, <2>2, <3>1
    <3>3. Same(L[j], L[r] * L[l], q) /\ Same(M[j], M[r] * M[l], q)
      BY <2>6, <3>1 DEF IsLadder
    <3>4. Same(L[r] * M[r], 1, q) /\ Same(L[l] * M[l], 1, q)
      BY <2>3, <3>2
    <3>5. L[r] \in Int /\ L[l] \in Int /\ M[r] \in Int /\ M[l] \in Int
      BY <1>1, <3>2
    <3>6. Same(1, 1 * 1, q)
      <4>1. 1 * 1 = 1
        OBVIOUS
      <4>2. QED
        BY <1>0, <4>1, SameReflexive
    <3>7. QED
      BY ONLY <1>0, <2>4, <3>3, <3>4, <3>5, <3>6, SameProducts
  <2>7. Same(L[j] * M[j], 1, q)
    BY <2>5, <2>6
  <2>8. ASSUME NEW n \in 1 .. i + 1
        PROVE  Same(L[n] * M[n], 1, q)
    <3>1. n = j \/ n \in 1 .. i
      BY <1>0, <2>2
    <3>2. QED
      BY <2>3, <2>7, <3>1
  <2>9. QED
    BY <2>1, <2>8
<1> HIDE DEF T
<1>4. \A i \in 0 .. N - 1 : i \in T
  BY <1>0, <1>2, <1>3, Induction
<1>5. N - 1 \in 0 .. N - 1 /\ N - 1 \in T
  BY <1>0, <1>4
<1>6. QED
  BY <1>5 DEF T

\* NttContext::with_moduli: entry by entry the factors of the inverse blocks are inverses of
\* those of the forward ones, whose squares are the constants of the blocks, and the tables
\* in Montgomery form stand for those in standard form.
LEMMA TwiddleFacts ==
  ASSUME NEW q \in NttModuli
  PROVE  \E L, M : /\ L = Context[q].psiStd /\ M = Context[q].psiInvStd
                   /\ Context[q].nInvStd \in 0 .. q - 1 /\ Same(N * Context[q].nInvStd, 1, q)
                   /\ StandsFor(Context[q].nInv, Context[q].nInvStd, q)
                   /\ \A k \in 1 .. N - 1 :
                        /\ L[k] \in 0 .. q - 1 /\ M[k] \in 0 .. q - 1
                        /\ Same(L[k] * L[k], SquareOf(L, k), q) /\ Same(L[k] * M[k], 1, q)
                        /\ StandsFor(Context[q].psi[k], L[k], q)
                        /\ StandsFor(Context[q].psiInv[k], M[k], q)
<1>1. /\ q \in Moduli /\ q \in Nat \ {0} /\ q >= 3 /\ 4 * q <= Word /\ Word \in Nat
  BY RootModulus, ModulusFacts
<1>2. PICK psi \in 1 .. q - 1, inv \in 0 .. q - 1, nInv \in 0 .. q - 1 :
           /\ psi = Psi[q] /\ inv = StdPow(psi, q - 2, q) /\ nInv = StdPow(N, q - 2, q)
           /\ Same(PowerOf(psi, N), -1, q) /\ Same(psi * inv, 1, q) /\ Same(N * nInv, 1, q)
  BY RootFacts
<1>3. psi \in 0 .. q - 1 /\ psi \in Nat /\ inv \in Nat /\ nInv \in 0 .. Word - 1
  BY <1>1
<1>4. Context[q] = [psi |-> Ladder(psi, q), psiInv |-> Ladder(inv, q),
                    nInv |-> ToMontgomery(nInv, q),
                    psiStd |-> LadderStd(psi, q), psiInvStd |-> LadderStd(inv, q),
                    nInvStd |-> nInv]
  BY <1>2 DEF Context, ContextOf
<1>5. PICK L, M : L = LadderStd(psi, q) /\ M = LadderStd(inv, q)
  OBVIOUS
<1>6. IsLadder(L, psi, q) /\ IsLadder(M, inv, q)
  BY <1>3, <1>5, LadderStdRises
<1>7. \A k \in 1 .. N - 1 : L[k] \in 0 .. q - 1 /\ M[k] \in 0 .. q - 1
  BY <1>6 DEF IsLadder
<1>8. \A k \in 1 .. N - 1 : Same(L[k] * L[k], SquareOf(L, k), q)
  BY ONLY <1>1, <1>2, <1>3, <1>6, LadderSquares
<1>9. \A k \in 1 .. N - 1 : Same(L[k] * M[k], 1, q)
  BY ONLY <1>1, <1>2, <1>3, <1>6, LadderInverses
<1>10. \A k \in 1 .. N - 1 : StandsFor(Ladder(psi, q)[k], L[k], q) /\ StandsFor(Ladder(inv, q)[k], M[k], q)
  BY <1>3, <1>6, LadderStands
<1>11. StandsFor(ToMontgomery(nInv, q), nInv, q)
  BY <1>1, <1>3, ToMontgomeryStands
<1>12. /\ Context[q].psiStd = L /\ Context[q].psiInvStd = M /\ Context[q].nInvStd = nInv
       /\ Context[q].psi = Ladder(psi, q) /\ Context[q].psiInv = Ladder(inv, q)
       /\ Context[q].nInv = ToMontgomery(nInv, q)
  BY <1>4, <1>5
<1> WITNESS L, M
<1>13. /\ L = Context[q].psiStd /\ M = Context[q].psiInvStd
       /\ Context[q].nInvStd \in 0 .. q - 1 /\ Same(N * Context[q].nInvStd, 1, q)
       /\ StandsFor(Context[q].nInv, Context[q].nInvStd, q)
  BY <1>2, <1>11, <1>12
<1>14. \A k \in 1 .. N - 1 : StandsFor(Context[q].psi[k], L[k], q) /\ StandsFor(Context[q].psiInv[k], M[k], q)
  BY <1>10, <1>12
<1>15. QED
  BY <1>7, <1>8, <1>9, <1>13, <1>14

\* The constants of the blocks, and those of the two that a block is split into.
LEMMA ConstantFacts ==
  ASSUME NEW q \in NttModuli
  PROVE  /\ Constant(1, q) = q - 1
         /\ \A k \in 1 .. 2 * N - 1 : Constant(k, q) \in 0 .. q - 1
         /\ \A k \in 1 .. N - 1 :
              /\ Constant(2 * k, q) = Context[q].psiStd[k]
              /\ Same(Constant(2 * k + 1, q), -Context[q].psiStd[k], q)
              /\ Same(Constant(2 * k, q) * Constant(2 * k, q), Constant(k, q), q)
              /\ Same(Constant(2 * k + 1, q) * Constant(2 * k + 1, q), Constant(k, q), q)
<1>1. /\ q \in Moduli /\ q \in Nat \ {0} /\ q \in Nat /\ q >= 3 /\ N \in Nat /\ N >= 2
  BY RootModulus, ModulusFacts, Dimension
<1>2. PICK L : /\ L = Context[q].psiStd
               /\ \A k \in 1 .. N - 1 : L[k] \in 0 .. q - 1 /\ Same(L[k] * L[k], SquareOf(L, k), q)
  BY TwiddleFacts
<1>3. Constant(1, q) = q - 1
  BY DEF Constant
<1>4. ASSUME NEW k \in 1 .. N - 1
      PROVE  /\ Constant(2 * k, q) = L[k] /\ Constant(2 * k + 1, q) = NegMod(L[k], q)
             /\ Constant(2 * k, q) \in 0 .. q - 1 /\ Constant(2 * k + 1, q) \in 0 .. q - 1
  <2>1. /\ 2 * k # 1 /\ (2 * k) \div 2 = k /\ (2 * k) % 2 = 0
        /\ 2 * k + 1 # 1 /\ (2 * k + 1) \div 2 = k /\ (2 * k + 1) % 2 = 1
    BY <1>1
  <2>2. Constant(2 * k, q) = L[k]
    BY ONLY <1>2, <2>1 DEF Constant
  <2>3. Constant(2 * k + 1, q) = NegMod(L[k], q)
    BY ONLY <1>2, <2>1 DEF Constant
  <2>4. L[k] \in 0 .. q - 1
    BY <1>2
  <2>5. NegMod(L[k], q) \in 0 .. q - 1
    BY <1>1, <2>4, SumReduces
  <2>6. QED
    BY <2>2, <2>3, <2>4, <2>5
<1>5. ASSUME NEW k \in 1 .. 2 * N - 1
      PROVE  Constant(k, q) \in 0 .. q - 1
  <2>1. CASE k = 1
    BY <1>1, <1>3, <2>1
  <2>2. CASE k # 1
    <3>1. PICK z \in Nat, d \in {0, 1} : k = 2 * z + d
      <4>1. k \in Nat
        BY <1>1
      <4>2. QED
        BY <4>1, HalfOf
    <3>2. z \in 1 .. N - 1 /\ (k = 2 * z \/ k = 2 * z + 1)
      BY <1>1, <2>2, <3>1
    <3>3. QED
      BY <1>4, <3>2
  <2>3. QED
    BY <2>1, <2>2
<1>6. ASSUME NEW k \in 1 .. N - 1
      PROVE  Same(NegMod(L[k], q), -L[k], q)
  <2>1. PICK w \in 0 .. q - 1 : w = L[k]
    BY <1>2
  <2>2. NegMod(w, q) = -w + q * (IF w = 0 THEN 0 ELSE 1)
    BY <1>1 DEF NegMod
  <2>3. (IF w = 0 THEN 0 ELSE 1) \in Int
    OBVIOUS
  <2>4. QED
    BY <2>1, <2>2, <2>3 DEF Same
<1>7. ASSUME NEW k \in 1 .. N - 1
      PROVE  Same(SquareOf(L, k), Constant(k, q), q) /\ SquareOf(L, k) \in Int /\ Constant(k, q) \in Int
  <2>1. Constant(k, q) \in Int
    <3>1. k \in 1 .. 2 * N - 1
      BY <1>1
    <3>2. Constant(k, q) \in 0 .. q - 1
      BY ONLY <1>5, <3>1
    <3>3. QED
      BY <1>1, <3>2
  <2>2. CASE k = 1
    <3>1. -1 = (q - 1) + q * (-1) /\ -1 \in Int
      BY <1>1
    <3>2. Same(-1, q - 1, q)
      BY <3>1 DEF Same
    <3>3. SquareOf(L, k) = -1
      BY <2>2 DEF SquareOf
    <3>4. QED
      BY <1>3, <2>1, <2>2, <3>1, <3>2, <3>3
  <2>3. CASE k # 1
    <3>1. k \in Nat
      BY <1>1
    <3>2. PICK z \in Nat, d \in {0, 1} : z = k \div 2 /\ d = k % 2 /\ k = 2 * z + d
      BY ONLY <3>1, HalfOf
    <3>3. z \in 1 .. N - 1
      BY <1>1, <2>3, <3>2
    <3>4. L[z] \in Int
      BY <1>1, <1>2, <3>3
    <3>5. CASE d = 0
      <4>1. SquareOf(L, k) = L[z]
        BY <2>3, <3>2, <3>5 DEF SquareOf
      <4>2. Constant(k, q) = L[z]
        <5>1. k = 2 * z
          BY <3>2, <3>5
        <5>2. QED
          BY <1>4, <3>3, <5>1
      <4>3. Same(L[z], L[z], q)
        BY <1>1, <3>4, SameReflexive
      <4>4. QED
        BY <2>1, <3>4, <4>1, <4>2, <4>3
    <3>6. CASE d = 1
      <4>1. SquareOf(L, k) = -L[z]
        BY <2>3, <3>2, <3>6 DEF SquareOf
      <4>2. Constant(k, q) = NegMod(L[z], q)
        <5>1. k = 2 * z + 1
          BY <3>2, <3>6
        <5>2. QED
          BY <1>4, <3>3, <5>1
      <4>3. -L[z] \in Int
        BY <3>4
      <4>4. Same(-L[z], Constant(k, q), q)
        BY <1>1, <1>6, <2>1, <3>3, <4>2, <4>3, SameSymmetric
      <4>5. QED
        BY <2>1, <4>1, <4>3, <4>4
    <3>7. QED
      BY <3>5, <3>6
  <2>4. QED
    BY <2>2, <2>3
<1>8. ASSUME NEW k \in 1 .. N - 1
      PROVE  /\ Same(Constant(2 * k + 1, q), -L[k], q)
             /\ Same(Constant(2 * k, q) * Constant(2 * k, q), Constant(k, q), q)
             /\ Same(Constant(2 * k + 1, q) * Constant(2 * k + 1, q), Constant(k, q), q)
  <2>1. PICK w \in Int, u \in Int, c \in Int, s \in Int :
          /\ w = Constant(2 * k, q) /\ u = Constant(2 * k + 1, q) /\ c = Constant(k, q) /\ s = SquareOf(L, k)
          /\ w = L[k]
    BY <1>1, <1>4, <1>7
  <2>2. Same(u, -w, q) /\ Same(w * w, s, q) /\ Same(s, c, q)
    BY <1>2, <1>4, <1>6, <1>7, <2>1
  <2>3. PICK v \in Int, x \in Int : v = w * w /\ x = u * u
    OBVIOUS
  <2>4. Same(v, c, q)
    BY <1>1, <2>2, <2>3, SameTransitive
  <2>5. Same(x, v, q)
    <3>1. -w \in Int
      OBVIOUS
    <3>2. Same(u * u, (-w) * (-w), q)
      BY ONLY <1>1, <2>2, <3>1, u \in Int, SameProduct
    <3>3. (-w) * (-w) = w * w
      OBVIOUS
    <3>4. QED
      BY <2>3, <3>2, <3>3
  <2>6. Same(x, c, q)
    BY <1>1, <2>4, <2>5, SameTransitive
  <2>7. QED
    BY <2>1, <2>2, <2>3, <2>4, <2>6
<1>9. QED
  BY <1>2, <1>3, <1>4, <1>5, <1>8

\* At every block the constant is a root of X^h + 1, for the h blocks of its level.
LEMMA ConstantRoots ==
  ASSUME NEW q \in NttModuli, NEW k \in 1 .. 2 * N - 1
  PROVE  Same(PowerOf(Constant(k, q), HighBit(k)), -1, q)
<1> DEFINE Root(i) == Same(PowerOf(Constant(i, q), HighBit(i)), -1, q)
           T == {i \in 0 .. 2 * N - 1 : \A j \in 1 .. i : Root(j)}
<1>1. /\ q \in Nat /\ q >= 3 /\ N \in Nat /\ N >= 2 /\ 2 * N - 1 \in Nat
  BY RootModulus, ModulusFacts, Dimension
<1>2. 0 \in T
  BY <1>1
<1>3. ASSUME NEW i \in 0 .. 2 * N - 1, i # 2 * N - 1, i \in T
      PROVE  i + 1 \in T
  <2>1. PICK j \in 1 .. 2 * N - 1 : j = i + 1
    <3>1. i + 1 \in 1 .. 2 * N - 1
      BY <1>1, <1>3
    <3>2. QED
      BY <3>1
  <2>2. ASSUME j = 1
        PROVE  Root(j)
    <3>1. HighBit(1) = 1
      <4>1. 0 \in 0 .. Bits
        BY WordAssumption
      <4>2. 2 ^ 0 \in PowersOfTwo /\ 2 ^ 0 = 1
        BY ONLY <4>1, Powers
      <4>3. 1 \in Nat /\ 1 \in PowersOfTwo /\ 1 <= 1 /\ 1 < 2 * 1
        BY <4>2
      <4>4. QED
        BY ONLY <4>3, HighBitIs
    <3>2. Constant(1, q) = q - 1 /\ q - 1 \in Nat
      BY <1>1, ConstantFacts
    <3>3. PowerOf(q - 1, 1) = q - 1
      BY <3>2, PowerOfOne
    <3>4. q - 1 = -1 + q * 1
      BY <1>1
    <3>5. Same(q - 1, -1, q)
      BY <3>4 DEF Same
    <3>6. QED
      BY <2>2, <3>1, <3>2, <3>3, <3>5
  <2>3. ASSUME j # 1
        PROVE  Root(j)
    <3>1. PICK z \in Nat, d \in {0, 1} : j = 2 * z + d
      <4>1. j \in Nat
        BY <1>1
      <4>2. QED
        BY <4>1, HalfOf
    <3>2. z \in 1 .. N - 1 /\ (j = 2 * z \/ j = 2 * z + 1) /\ z \in 1 .. i /\ z \in 1 .. 2 * N - 1
      BY <1>1, <2>1, <2>3, <3>1
    <3>3. PICK h, l : Level(z, h, 2 * l) /\ Level(2 * z, 2 * h, l) /\ Level(2 * z + 1, 2 * h, l) /\ h \in Nat
      BY <3>2, LevelBelow
    <3>4. HighBit(z) = h /\ HighBit(j) = 2 * h
      BY <3>2, <3>3 DEF Level
    <3>5. PICK c \in Nat, w \in Nat : c = Constant(z, q) /\ w = Constant(j, q)
      <4>1. Constant(z, q) \in 0 .. q - 1 /\ Constant(j, q) \in 0 .. q - 1
        BY <3>2, ConstantFacts
      <4>2. QED
        BY <1>1, <4>1
    <3>6. Same(w * w, c, q)
      BY <3>2, <3>5, ConstantFacts
    <3>7. PICK v \in Nat : v = w * w
      OBVIOUS
    <3>8. PICK x \in Int, y \in Int : x = PowerOf(v, h) /\ y = PowerOf(c, h)
      <4>1. PowerOf(v, h) \in Nat /\ PowerOf(c, h) \in Nat
        BY <3>3, PowerOfStep
      <4>2. QED
        BY <4>1
    <3>9. Same(x, y, q)
      BY <1>1, <3>3, <3>6, <3>7, <3>8, PowerSame
    <3>10. Same(y, -1, q)
      BY <1>3, <3>2, <3>4, <3>5, <3>8
    <3>11. Same(x, -1, q)
      <4>1. -1 \in Int
        OBVIOUS
      <4>2. QED
        BY <1>1, <3>9, <3>10, <4>1, SameTransitive
    <3>12. PowerOf(w, 2 * h) = x
      BY <3>3, <3>7, <3>8, PowerOfSquare
    <3>13. QED
      BY <3>4, <3>5, <3>11, <3>12
  <2>4. ASSUME NEW n \in 1 .. i + 1
        PROVE  Root(n)
    <3>1. n = j \/ n \in 1 .. i
      BY <1>1, <2>1
    <3>2. QED
      BY <1>3, <2>2, <2>3, <3>1
  <2> HIDE DEF Root
  <2>5. i + 1 \in 0 .. 2 * N - 1
    BY <1>1, <1>3
  <2>6. QED
    BY <2>4, <2>5
<1> HIDE DEF T
<1>4. \A i \in 0 .. 2 * N - 1 : i \in T
  BY <1>1, <1>2, <1>3, Induction
<1>5. k \in 0 .. 2 * N - 1 /\ k \in 1 .. k
  BY <1>1
<1>6. QED
  BY <1>4, <1>5 DEF T
-----------------------------------------------------------------------------
(* Remainders                                                              *)

\* The coefficients of an array, and the places of those that a block's remainder combines.
LEMMA RemainderPlaces ==
  ASSUME NEW k \in 1 .. 2 * N - 1, NEW h \in Nat, NEW l \in Nat, Level(k, h, l),
         NEW j \in 0 .. l - 1, NEW r \in 0 .. h - 1
  PROVE  j + r * l \in Idx
<1>1. N \in Nat /\ N = h * l /\ l >= 1 /\ Idx = 0 .. N - 1
  BY Dimension DEF Level, Idx
<1>2. PICK e \in Nat : h = r + 1 + e
  <2>1. h - (r + 1) \in Nat /\ h = r + 1 + (h - (r + 1))
    OBVIOUS
  <2>2. QED
    BY <2>1
<1>3. r \in Nat
  OBVIOUS
<1>4. h * l = r * l + l + e * l
  BY ONLY <1>2, <1>3, e \in Nat, l \in Nat
<1>5. PICK x \in Nat, y \in Nat : x = r * l /\ y = e * l
  BY ONLY <1>3, e \in Nat, l \in Nat
<1>6. QED
  BY <1>1, <1>4, <1>5

\* A remainder is the sum of its terms.
LEMMA RemainderSum ==
  ASSUME NEW q \in NttModuli, NEW a, \A i \in Idx : a[i] \in Nat,
         NEW k \in 1 .. 2 * N - 1, NEW j \in 0 .. Length(k) - 1
  PROVE  \E f : /\ Terms(f, HighBit(k)) /\ HighBit(k) \in Nat /\ HighBit(k) >= 1
                /\ \A r \in 0 .. HighBit(k) - 1 :
                     Same(f[r], a[j + r * Length(k)] * PowerOf(Constant(k, q), r), q)
                /\ Remainder(a, j, k, q) = SumTo(f, HighBit(k)) % q
                /\ Same(Remainder(a, j, k, q), SumTo(f, HighBit(k)), q)
                /\ Remainder(a, j, k, q) \in 0 .. q - 1
<1>1. /\ q \in Moduli /\ q \in Nat \ {0} /\ q \in Nat /\ N \in Nat /\ \A n \in 0 .. N : n \in Words
  BY RootModulus, ModulusFacts, Dimension DEF Words
<1>2. PICK h \in Nat, l \in Nat : Level(k, h, l) /\ h = HighBit(k) /\ l = Length(k) /\ h >= 1 /\ l >= 1 /\ N = h * l
  BY LevelOf DEF Level
<1>3. PICK c \in Nat : c = Constant(k, q)
  <2>1. Constant(k, q) \in 0 .. q - 1
    BY ConstantFacts
  <2>2. QED
    BY <1>1, <2>1
<1>4. PICK f : f = [r \in 0 .. h - 1 |-> (a[j + r * l] % q) * StdPow(c, r, q)]
  OBVIOUS
<1>5. ASSUME NEW r \in 0 .. h - 1
      PROVE  f[r] \in Int /\ Same(f[r], a[j + r * l] * PowerOf(c, r), q)
  <2>1. PICK x \in Nat : x = a[j + r * l]
    <3>1. j \in 0 .. l - 1
      BY <1>2
    <3>2. j + r * l \in Idx
      BY <1>2, <3>1, RemainderPlaces
    <3>3. QED
      BY <3>2
  <2>2. r \in Nat /\ r \in Words
    <3>1. r \in 0 .. N
      <4>1. h <= h * l
        BY ONLY <1>2, h \in Nat, l \in Nat
      <4>2. QED
        BY <1>1, <1>2, <4>1
    <3>2. QED
      BY <1>1, <3>1
  <2>3. PICK p \in Nat : p = PowerOf(c, r)
    BY <2>2, PowerOfStep
  <2>4. PICK y \in Nat : y = StdPow(c, r, q) /\ Same(y, p, q)
    <3>1. StdPow(c, r, q) = p % q
      BY <1>1, <2>2, <2>3, StdPowReads
    <3>2. p % q \in Nat /\ Same(p % q, p, q)
      BY ONLY <1>1, p \in Nat, ResidueOf
    <3>3. QED
      BY <3>1, <3>2
  <2>5. PICK z \in Nat : z = x % q /\ Same(z, x, q)
    <3>1. x % q \in Nat /\ Same(x % q, x, q)
      BY ONLY <1>1, x \in Nat, ResidueOf
    <3>2. QED
      BY <3>1
  <2>6. Same(z * y, x * p, q)
    <3>1. z \in Int /\ y \in Int /\ x \in Int /\ p \in Int
      OBVIOUS
    <3>2. QED
      BY ONLY <1>1, <2>4, <2>5, <3>1, SameProduct
  <2>7. f[r] = z * y /\ z * y \in Nat
    <3>1. f[r] = z * y
      BY <1>4, <2>1, <2>4, <2>5
    <3>2. QED
      BY <3>1
  <2>8. QED
    BY <2>1, <2>3, <2>6, <2>7
<1>6. Terms(f, h)
  BY <1>5 DEF Terms
<1>7. PICK s \in Int : s = SumTo(f, h)
  BY <1>6, SumLaw
<1>8. Remainder(a, j, k, q) = s % q
  BY <1>2, <1>3, <1>4, <1>7 DEF Remainder
<1>9. s % q \in 0 .. q - 1
  BY ONLY <1>1, s \in Int, DivMod
<1>10. Same(s % q, s, q)
  BY ONLY <1>1, s \in Int, SameMod
<1>11. QED
  BY <1>2, <1>3, <1>5, <1>6, <1>7, <1>8, <1>9, <1>10

\* At the root block there is nothing to reduce but the words.
LEMMA RemainderAtRoot ==
  ASSUME NEW q \in NttModuli, NEW a, \A i \in Idx : a[i] \in Nat, NEW j \in Idx
  PROVE  Length(1) = N /\ First(1) = 0 /\ HighBit(1) = 1 /\ Remainder(a, j, 1, q) = a[j] % q
<1>1. q \in Nat \ {0} /\ N \in Nat /\ N >= 2 /\ 1 \in 1 .. 2 * N - 1 /\ Idx = 0 .. N - 1
  BY RootModulus, ModulusFacts, Dimension DEF Idx
<1>2. PICK h \in Nat, l \in Nat : Level(1, h, l) /\ h = HighBit(1) /\ l = Length(1) /\ h >= 1 /\ h <= 1 /\ N = h * l
  BY <1>1, LevelOf DEF Level
<1>3. h = 1 /\ l = N
  BY <1>1, <1>2
<1>4. j \in 0 .. Length(1) - 1
  BY <1>1, <1>2, <1>3
<1>5. PICK f : /\ Terms(f, HighBit(1))
               /\ \A r \in 0 .. HighBit(1) - 1 :
                    Same(f[r], a[j + r * Length(1)] * PowerOf(Constant(1, q), r), q)
               /\ Remainder(a, j, 1, q) = SumTo(f, HighBit(1)) % q
  BY <1>1, <1>4, RemainderSum
<1>6. SumTo(f, 1) = f[0] /\ f[0] \in Int
  <2>1. 0 \in 0 .. 1 /\ 0 # 1 /\ 0 + 1 = 1 /\ 1 \in Nat /\ Terms(f, 1) /\ 0 \in 0 .. 1 - 1
    BY <1>2, <1>3, <1>5
  <2>2. SumTo(f, 0) = 0 /\ SumTo(f, 0 + 1) = SumTo(f, 0) + f[0]
    BY ONLY <2>1, SumLaw
  <2>3. f[0] \in Int
    BY <2>1 DEF Terms
  <2>4. QED
    BY <2>1, <2>2, <2>3
<1>7. Same(f[0], a[j], q)
  <2>1. 0 \in 0 .. HighBit(1) - 1 /\ j + 0 * Length(1) = j
    <3>1. j \in Int /\ 0 * Length(1) = 0
      BY ONLY <1>1, <1>2, <1>3, j \in Idx
    <3>2. QED
      BY ONLY <1>2, <3>1
  <2>2. PowerOf(Constant(1, q), 0) = 1
    <3>1. Constant(1, q) \in 0 .. q - 1
      BY <1>1, ConstantFacts
    <3>2. Constant(1, q) \in Nat
      BY <1>1, <3>1
    <3>3. QED
      BY <3>2, PowerOfStep
  <2>3. a[j] * 1 = a[j]
    <3>1. a[j] \in Nat
      OBVIOUS
    <3>2. QED
      BY ONLY <3>1
  <2>4. QED
    BY <1>5, <2>1, <2>2, <2>3
<1>8. f[0] % q = a[j] % q
  <2>1. a[j] \in Int
    OBVIOUS
  <2>2. QED
    BY ONLY <1>1, <1>6, <1>7, <2>1, SameRemainders
<1>9. First(1) = 0
  <2>1. (1 - 1) * N = 0
    BY <1>1
  <2>2. QED
    BY <1>2, <1>3, <2>1 DEF First
<1>10. QED
  BY <1>2, <1>3, <1>5, <1>6, <1>8, <1>9

\* A block is split: remainders of the halves from those of the whole.
LEMMA RemainderSplit ==
  ASSUME NEW q \in NttModuli, NEW a, \A i \in Idx : a[i] \in Nat,
         NEW k \in 1 .. N - 1, NEW c \in {2 * k, 2 * k + 1}, NEW j \in 0 .. Half(k) - 1
  PROVE  Same(Remainder(a, j, c, q),
              Remainder(a, j, k, q) + Constant(c, q) * Remainder(a, j + Half(k), k, q), q)
<1>1. q \in Nat \ {0} /\ q \in Nat /\ N \in Nat /\ k \in 1 .. 2 * N - 1 /\ c \in 1 .. 2 * N - 1
  BY RootModulus, ModulusFacts, Dimension
<1>2. PICK h \in Nat, l \in Nat :
        /\ Level(k, h, 2 * l) /\ Level(c, 2 * h, l) /\ Half(k) = l /\ l >= 1
        /\ HighBit(k) = h /\ HighBit(c) = 2 * h /\ Length(k) = 2 * l /\ Length(c) = l
  <2>1. PICK h, l : /\ Level(k, h, 2 * l) /\ Level(2 * k, 2 * h, l) /\ Level(2 * k + 1, 2 * h, l)
                    /\ Half(k) = l /\ l >= 1 /\ h \in Nat /\ l \in Nat
    BY LevelBelow
  <2>2. Level(c, 2 * h, l)
    BY <2>1
  <2>3. HighBit(k) = h /\ HighBit(c) = 2 * h /\ Length(k) = 2 * l /\ Length(c) = l
    BY <2>1, <2>2 DEF Level
  <2>4. QED
    BY <2>1, <2>2, <2>3
<1>3. j \in 0 .. Length(k) - 1 /\ j + l \in 0 .. Length(k) - 1 /\ j \in 0 .. Length(c) - 1 /\ j \in Nat
  BY <1>2
<1>4. PICK u \in Nat, w \in Nat : u = Constant(k, q) /\ w = Constant(c, q) /\ Same(w * w, u, q)
  <2>1. Constant(k, q) \in 0 .. q - 1 /\ Constant(c, q) \in 0 .. q - 1
    BY <1>1, ConstantFacts
  <2>2. Same(Constant(c, q) * Constant(c, q), Constant(k, q), q)
    BY ConstantFacts
  <2>3. QED
    BY <1>1, <2>1, <2>2
<1>5. PICK f : /\ Terms(f, h)
               /\ \A r \in 0 .. h - 1 : Same(f[r], a[j + r * (2 * l)] * PowerOf(u, r), q)
               /\ Same(Remainder(a, j, k, q), SumTo(f, h), q) /\ Remainder(a, j, k, q) \in 0 .. q - 1
  <2>1. \E f : /\ Terms(f, HighBit(k))
               /\ \A r \in 0 .. HighBit(k) - 1 :
                    Same(f[r], a[j + r * Length(k)] * PowerOf(Constant(k, q), r), q)
               /\ Same(Remainder(a, j, k, q), SumTo(f, HighBit(k)), q)
               /\ Remainder(a, j, k, q) \in 0 .. q - 1
    BY <1>1, <1>3, RemainderSum
  <2>2. QED
    BY <1>2, <1>4, <2>1
<1>6. PICK g : /\ Terms(g, h)
               /\ \A r \in 0 .. h - 1 : Same(g[r], a[(j + l) + r * (2 * l)] * PowerOf(u, r), q)
               /\ Same(Remainder(a, j + l, k, q), SumTo(g, h), q) /\ Remainder(a, j + l, k, q) \in 0 .. q - 1
  <2>1. \E e : /\ Terms(e, HighBit(k))
               /\ \A r \in 0 .. HighBit(k) - 1 :
                    Same(e[r], a[(j + l) + r * Length(k)] * PowerOf(Constant(k, q), r), q)
               /\ Same(Remainder(a, j + l, k, q), SumTo(e, HighBit(k)), q)
               /\ Remainder(a, j + l, k, q) \in 0 .. q - 1
    BY <1>1, <1>3, RemainderSum
  <2>2. QED
    BY <1>2, <1>4, <2>1
<1>7. PICK s : /\ Terms(s, 2 * h)
               /\ \A r \in 0 .. 2 * h - 1 : Same(s[r], a[j + r * l] * PowerOf(w, r), q)
               /\ Same(Remainder(a, j, c, q), SumTo(s, 2 * h), q) /\ Remainder(a, j, c, q) \in 0 .. q - 1
  <2>1. \E e : /\ Terms(e, HighBit(c))
               /\ \A r \in 0 .. HighBit(c) - 1 :
                    Same(e[r], a[j + r * Length(c)] * PowerOf(Constant(c, q), r), q)
               /\ Same(Remainder(a, j, c, q), SumTo(e, HighBit(c)), q)
               /\ Remainder(a, j, c, q) \in 0 .. q - 1
    BY <1>1, <1>3, RemainderSum
  <2>2. QED
    BY <1>2, <1>4, <2>1
<1>8. ASSUME NEW i \in 0 .. h - 1
      PROVE  Same(s[2 * i], f[i], q) /\ Same(s[2 * i + 1], w * g[i], q)
  <2>1. i \in Nat /\ 2 * i \in 0 .. 2 * h - 1 /\ 2 * i + 1 \in 0 .. 2 * h - 1 /\ 2 * i \in Nat
    OBVIOUS
  <2>2. s[2 * i] \in Int /\ s[2 * i + 1] \in Int /\ f[i] \in Int /\ g[i] \in Int
    BY <1>5, <1>6, <1>7, <2>1 DEF Terms
  <2>3. PICK v \in Nat, x \in Nat : v = PowerOf(u, i) /\ x = PowerOf(w, 2 * i) /\ PowerOf(w, 2 * i + 1) = x * w
    <3>1. PowerOf(u, i) \in Nat
      BY <2>1, PowerOfStep
    <3>2. PowerOf(w, 2 * i) \in Nat /\ PowerOf(w, 2 * i + 1) = PowerOf(w, 2 * i) * w
      BY <2>1, PowerOfStep
    <3>3. QED
      BY <3>1, <3>2
  <2>4. Same(x, v, q)
    <3>1. PICK z \in Nat : z = w * w
      OBVIOUS
    <3>2. x = PowerOf(z, i)
      BY <2>1, <2>3, <3>1, PowerOfSquare
    <3>3. Same(z, u, q)
      BY <1>4, <3>1
    <3>4. QED
      BY <1>1, <2>1, <2>3, <3>2, <3>3, PowerSame
  <2>5. (2 * i) * l = i * (2 * l) /\ (2 * i + 1) * l = l + i * (2 * l)
    BY ONLY <2>1, l \in Nat
  <2>6. j + (2 * i) * l = j + i * (2 * l) /\ j + (2 * i + 1) * l = (j + l) + i * (2 * l)
    <3>1. i * (2 * l) \in Nat
      BY ONLY <2>1, l \in Nat
    <3>2. QED
      BY ONLY <1>3, <2>5, <3>1, l \in Nat
  <2>7. PICK y \in Nat, z \in Nat : y = a[j + i * (2 * l)] /\ z = a[(j + l) + i * (2 * l)]
    <3>1. j \in 0 .. 2 * l - 1 /\ j + l \in 0 .. 2 * l - 1 /\ 2 * l \in Nat
      BY <1>2
    <3>2. j + i * (2 * l) \in Idx
      BY ONLY <1>1, <1>2, <3>1, h \in Nat, i \in 0 .. h - 1, RemainderPlaces
    <3>3. (j + l) + i * (2 * l) \in Idx
      BY ONLY <1>1, <1>2, <3>1, h \in Nat, i \in 0 .. h - 1, RemainderPlaces
    <3>4. QED
      BY <3>2, <3>3
  <2>8. Same(s[2 * i], y * x, q) /\ Same(s[2 * i + 1], z * (x * w), q)
    <3>1. Same(s[2 * i], a[j + (2 * i) * l] * PowerOf(w, 2 * i), q)
      BY ONLY <1>7, <2>1
    <3>2. Same(s[2 * i + 1], a[j + (2 * i + 1) * l] * PowerOf(w, 2 * i + 1), q)
      BY ONLY <1>7, <2>1
    <3>3. QED
      BY ONLY <2>3, <2>6, <2>7, <3>1, <3>2
  <2>9. Same(f[i], y * v, q) /\ Same(g[i], z * v, q)
    BY ONLY <1>5, <1>6, <2>3, <2>7, i \in 0 .. h - 1
  <2>10. PICK d \in Int, e \in Int, m \in Int, n \in Int :
           d = y * x /\ e = y * v /\ m = z * (x * w) /\ n = z * v
    BY ONLY x \in Nat, y \in Nat, v \in Nat, z \in Nat, w \in Nat
  <2>11. Same(d, e, q)
    <3>1. y \in Int /\ x \in Int /\ v \in Int
      OBVIOUS
    <3>2. Same(y, y, q)
      BY ONLY <1>1, <3>1, SameReflexive
    <3>3. QED
      BY ONLY <1>1, <2>4, <2>10, <3>1, <3>2, SameProduct
  <2>12. Same(s[2 * i], f[i], q)
    <3>1. Same(s[2 * i], d, q) /\ Same(f[i], e, q)
      BY <2>8, <2>9, <2>10
    <3>2. Same(s[2 * i], e, q)
      BY ONLY <1>1, <2>2, <2>11, <3>1, d \in Int, e \in Int, SameTransitive
    <3>3. QED
      BY ONLY <1>1, <2>2, <3>1, <3>2, e \in Int, SameChain
  <2>13. Same(m, w * n, q)
    <3>1. PICK o \in Int : o = w * z
      OBVIOUS
    <3>2. o \in Int /\ x \in Int /\ v \in Int
      OBVIOUS
    <3>3. Same(o, o, q)
      BY ONLY <1>1, <3>2, SameReflexive
    <3>4. Same(o * x, o * v, q)
      BY ONLY <1>1, <2>4, <3>2, <3>3, SameProduct
    <3>5. (w * z) * x = z * (x * w) /\ (w * z) * v = w * (z * v)
      BY ONLY x \in Nat, v \in Nat, z \in Nat, w \in Nat
    <3>6. QED
      BY ONLY <2>10, <3>1, <3>4, <3>5
  <2>14. Same(s[2 * i + 1], w * g[i], q)
    <3>1. PICK o \in Int, p \in Int : o = w * n /\ p = w * g[i]
      BY <2>2
    <3>2. Same(p, o, q)
      <4>1. w \in Int
        OBVIOUS
      <4>2. Same(w, w, q)
        BY ONLY <1>1, <4>1, SameReflexive
      <4>3. Same(g[i], n, q)
        BY <2>9, <2>10
      <4>4. QED
        BY ONLY <1>1, <2>2, <3>1, <4>1, <4>2, <4>3, n \in Int, SameProduct
    <3>3. Same(s[2 * i + 1], m, q) /\ Same(m, o, q)
      BY <2>8, <2>10, <2>13, <3>1
    <3>4. Same(s[2 * i + 1], o, q)
      BY ONLY <1>1, <2>2, <3>3, m \in Int, o \in Int, SameTransitive
    <3>5. Same(s[2 * i + 1], p, q)
      BY ONLY <1>1, <2>2, <3>2, <3>4, o \in Int, p \in Int, SameChain
    <3>6. QED
      BY <3>1, <3>5
  <2>15. QED
    BY <2>12, <2>14
<1>9. Same(SumTo(s, 2 * h), SumTo(f, h) + w * SumTo(g, h), q)
  <2>1. w \in Int
    OBVIOUS
  <2>2. QED
    BY ONLY <1>1, <1>5, <1>6, <1>7, <1>8, <2>1, h \in Nat, SumPaired
<1>10. PICK x \in Int, y \in Int, z \in Int, rx \in Int, ry \in Int, rz \in Int :
         /\ x = SumTo(s, 2 * h) /\ y = SumTo(f, h) /\ z = SumTo(g, h)
         /\ rx = Remainder(a, j, c, q) /\ ry = Remainder(a, j, k, q) /\ rz = Remainder(a, j + l, k, q)
  <2>1. 2 * h \in Nat /\ 2 * h \in 0 .. 2 * h /\ h \in 0 .. h
    OBVIOUS
  <2>2. SumTo(s, 2 * h) \in Int
    BY <1>7, <2>1, SumLaw
  <2>3. SumTo(f, h) \in Int
    BY <1>5, <2>1, SumLaw
  <2>4. SumTo(g, h) \in Int
    BY <1>6, <2>1, SumLaw
  <2>5. Remainder(a, j, c, q) \in Int /\ Remainder(a, j, k, q) \in Int /\ Remainder(a, j + l, k, q) \in Int
    BY <1>1, <1>5, <1>6, <1>7
  <2>6. QED
    BY <2>2, <2>3, <2>4, <2>5
<1>11. Same(rx, x, q) /\ Same(ry, y, q) /\ Same(rz, z, q) /\ Same(x, y + w * z, q)
  BY <1>5, <1>6, <1>7, <1>9, <1>10
<1>12. PICK m \in Int, n \in Int : m = w * z /\ n = w * rz /\ Same(n, m, q)
  <2>1. w \in Int
    OBVIOUS
  <2>2. Same(w, w, q)
    BY ONLY <1>1, <2>1, SameReflexive
  <2>3. w * z \in Int /\ w * rz \in Int
    OBVIOUS
  <2>4. Same(w * rz, w * z, q)
    BY ONLY <1>1, <1>11, <2>1, <2>2, z \in Int, rz \in Int, SameProduct
  <2>5. QED
    BY <2>3, <2>4
<1>13. Same(ry + n, y + m, q)
  BY <1>1, <1>11, <1>12, SameSum
<1>14. Same(rx, ry + n, q)
  <2>1. y + m \in Int /\ ry + n \in Int
    OBVIOUS
  <2>2. Same(x, y + m, q)
    BY <1>11, <1>12
  <2>3. Same(rx, y + m, q)
    BY ONLY <1>1, <1>11, <2>1, <2>2, rx \in Int, x \in Int, SameTransitive
  <2>4. QED
    BY ONLY <1>1, <1>13, <2>1, <2>3, rx \in Int, SameChain
<1>15. QED
  BY <1>2, <1>4, <1>10, <1>12, <1>14
-----------------------------------------------------------------------------
(* Values at the roots                                                     *)

\* The value of the polynomial a at c.
Evaluation(a, c) == SumTo([i \in Idx |-> a[i] * PowerOf(c, i)], N)

\* The polynomial b times X^i, modulo X^N + 1.
Turned(b, i, x) == IF i <= x THEN b[x - i] ELSE -b[N + x - i]

\* Multiplication by X turns the coefficients, and at c multiplies by c.
LEMMA TurnedEvaluates ==
  ASSUME NEW q \in Nat \ {0}, NEW b, \A i \in Idx : b[i] \in Nat, NEW c \in Nat,
         Same(PowerOf(c, N), -1, q), NEW n \in Idx
  PROVE  Same(SumTo([x \in Idx |-> Turned(b, n, x) * PowerOf(c, x)], N),
              PowerOf(c, n) * Evaluation(b, c), q)
<1> DEFINE F == [i \in Idx |-> [x \in Idx |-> Turned(b, i, x) * PowerOf(c, x)]]
           T == {i \in 0 .. N - 1 : Same(SumTo(F[i], N), PowerOf(c, i) * Evaluation(b, c), q)}
<1>0. q \in Nat /\ N \in Nat /\ N >= 2 /\ N - 1 \in Nat /\ Idx = 0 .. N - 1 /\ c \in Int
  BY Dimension DEF Idx
<1>1. \A i \in Nat : PowerOf(c, i) \in Nat /\ PowerOf(c, i + 1) = PowerOf(c, i) * c
  BY PowerOfStep
<1>2. ASSUME NEW i \in Idx, NEW x \in Idx
      PROVE  Turned(b, i, x) \in Int /\ F[i][x] = Turned(b, i, x) * PowerOf(c, x) /\ F[i][x] \in Int
  <2>1. Turned(b, i, x) \in Int
    <3>1. CASE i <= x
      <4>1. x - i \in Idx
        BY <1>0, <3>1
      <4>2. b[x - i] \in Nat
        BY <4>1
      <4>3. QED
        BY <3>1, <4>2 DEF Turned
    <3>2. CASE ~(i <= x)
      <4>1. N + x - i \in Idx
        BY <1>0, <3>2
      <4>2. b[N + x - i] \in Nat
        BY <4>1
      <4>3. QED
        BY <3>2, <4>2 DEF Turned
    <3>3. QED
      BY <3>1, <3>2
  <2>2. PowerOf(c, x) \in Int
    BY <1>0, <1>1
  <2>3. F[i][x] = Turned(b, i, x) * PowerOf(c, x)
    OBVIOUS
  <2>4. Turned(b, i, x) * PowerOf(c, x) \in Int
    BY ONLY <2>1, <2>2
  <2>5. QED
    BY <2>1, <2>3, <2>4
<1>3. \A i \in Idx : Terms(F[i], N)
  <2> HIDE DEF F
  <2>1. QED
    BY <1>0, <1>2 DEF Terms
<1>4. \A i \in Idx : SumTo(F[i], N) \in Int
  <2> HIDE DEF F
  <2>1. N \in 0 .. N
    BY <1>0
  <2>2. QED
    BY <1>0, <1>3, <2>1, SumLaw
<1>5. F[0] = [x \in Idx |-> b[x] * PowerOf(c, x)] /\ 0 \in Idx
  <2>1. \A x \in Idx : Turned(b, 0, x) = b[x]
    BY <1>0 DEF Turned
  <2>2. QED
    BY <1>0, <2>1
<1>6. Evaluation(b, c) = SumTo(F[0], N) /\ Evaluation(b, c) \in Int
  <2>1. Evaluation(b, c) = SumTo(F[0], N)
    BY <1>5 DEF Evaluation
  <2> HIDE DEF F
  <2>2. QED
    BY <1>4, <1>5, <2>1
<1>7. 0 \in T
  <2>1. PowerOf(c, 0) = 1
    BY PowerOfStep
  <2>2. 1 * Evaluation(b, c) = Evaluation(b, c)
    BY ONLY <1>6
  <2>3. Same(Evaluation(b, c), Evaluation(b, c), q)
    BY ONLY <1>0, <1>6, SameReflexive
  <2> HIDE DEF F
  <2>4. QED
    BY <1>0, <1>6, <2>1, <2>2, <2>3
<1>8. ASSUME NEW i \in 0 .. N - 1, i # N - 1, i \in T
      PROVE  i + 1 \in T
  <2>1. i \in Idx /\ i + 1 \in Idx /\ i \in Nat /\ N - 1 \in Idx /\ 0 \in Idx /\ i + 1 >= 1
    BY <1>0, <1>8
  <2>2. PICK G : G = [x \in Idx |-> c * F[i][x]]
    OBVIOUS
  <2> HIDE DEF F
  <2>3. \A x \in Idx : G[x] = c * F[i][x] /\ G[x] \in Int /\ F[i][x] \in Int
    <3>1. ASSUME NEW x \in Idx
          PROVE  c * F[i][x] \in Int /\ F[i][x] \in Int
      <4>1. F[i][x] \in Int
        BY <1>2, <2>1
      <4>2. QED
        BY ONLY <1>0, <4>1
    <3>2. QED
      BY <2>2, <3>1
  <2>4. Terms(G, N)
    BY <1>0, <2>3 DEF Terms
  <2>5. Same(SumTo(G, N), c * SumTo(F[i], N), q)
    <3>1. \A x \in 0 .. N - 1 : Same(G[x], c * F[i][x], q)
      BY <1>0, <2>3, SameReflexive
    <3>2. Terms(F[i], N)
      BY <1>3, <2>1
    <3>3. QED
      BY ONLY <1>0, <2>4, <3>1, <3>2, SumScaled
  <2>6. Same(F[i + 1][0], G[N - 1], q)
    <3>1. Turned(b, i, N - 1) = b[N - 1 - i] /\ Turned(b, i + 1, 0) = -b[N - (i + 1)]
      <4>1. i <= N - 1 /\ ~(i + 1 <= 0) /\ N + 0 - (i + 1) = N - (i + 1)
        BY <1>0, <2>1
      <4>2. QED
        BY <4>1 DEF Turned
    <3>2. N - 1 - i = N - (i + 1) /\ N - 1 - i \in Idx
      BY <1>0, <2>1
    <3>3. PICK y \in Nat : y = b[N - 1 - i]
      BY <3>2
    <3>4. PowerOf(c, 0) = 1
      BY PowerOfStep
    <3>5. F[i + 1][0] = -y
      <4>1. F[i + 1][0] = (-y) * 1
        BY <1>2, <2>1, <3>1, <3>2, <3>3, <3>4
      <4>2. QED
        BY <4>1
    <3>6. PICK p \in Nat, m \in Int : p = PowerOf(c, N - 1) /\ m = PowerOf(c, N) /\ m = p * c
      <4>1. N - 1 \in Nat /\ (N - 1) + 1 = N
        BY <1>0
      <4>2. PowerOf(c, N - 1) \in Nat /\ PowerOf(c, (N - 1) + 1) = PowerOf(c, N - 1) * c
        BY ONLY <1>1, <4>1
      <4>3. QED
        BY <4>1, <4>2
    <3>7. G[N - 1] = c * (y * p)
      <4>1. F[i][N - 1] = y * p
        BY <1>2, <2>1, <3>1, <3>3, <3>6
      <4>2. QED
        BY <2>1, <2>3, <4>1
    <3>8. c * (y * p) = y * m
      BY ONLY <3>6, c \in Nat, y \in Nat, p \in Nat
    <3>9. Same(m, -1, q)
      BY <3>6
    <3>10. Same(y * m, y * (-1), q)
      <4>1. y \in Int /\ -1 \in Int
        OBVIOUS
      <4>2. Same(y, y, q)
        BY ONLY <1>0, <4>1, SameReflexive
      <4>3. QED
        BY ONLY <1>0, <3>9, <4>1, <4>2, m \in Int, SameProduct
    <3>11. y * (-1) = -y /\ y * m \in Int /\ -y \in Int
      BY ONLY y \in Nat, m \in Int
    <3>12. Same(-y, y * m, q)
      BY ONLY <1>0, <3>10, <3>11, SameSymmetric
    <3>13. QED
      BY <3>5, <3>7, <3>8, <3>12
  <2>7. ASSUME NEW x \in 1 .. N - 1
        PROVE  Same(F[i + 1][x], G[x - 1], q)
    <3>1. x \in Idx /\ x - 1 \in Idx /\ x - 1 \in Nat /\ (x - 1) + 1 = x
      BY <1>0
    <3>2. Turned(b, i + 1, x) = Turned(b, i, x - 1)
      <4>1. /\ (i + 1 <= x <=> i <= x - 1) /\ x - (i + 1) = (x - 1) - i
            /\ N + x - (i + 1) = N + (x - 1) - i
        BY <1>0, <2>1
      <4>2. QED
        BY ONLY <4>1 DEF Turned
    <3>3. PICK y \in Int : y = Turned(b, i, x - 1)
      BY <1>2, <2>1, <3>1
    <3>4. PICK p \in Nat : p = PowerOf(c, x - 1) /\ PowerOf(c, x) = p * c
      <4>1. PowerOf(c, x - 1) \in Nat /\ PowerOf(c, (x - 1) + 1) = PowerOf(c, x - 1) * c
        BY ONLY <1>1, <3>1
      <4>2. QED
        BY <3>1, <4>1
    <3>5. F[i + 1][x] = y * (p * c)
      BY <1>2, <2>1, <3>1, <3>2, <3>3, <3>4
    <3>6. G[x - 1] = c * (y * p)
      <4>1. F[i][x - 1] = y * p
        BY <1>2, <2>1, <3>1, <3>3, <3>4
      <4>2. QED
        BY <2>3, <3>1, <4>1
    <3>7. y * (p * c) = c * (y * p) /\ y * (p * c) \in Int
      BY ONLY y \in Int, p \in Nat, c \in Nat
    <3>8. QED
      BY <1>0, <3>5, <3>6, <3>7, SameReflexive
  <2>8. Same(SumTo(F[i + 1], N), SumTo(G, N), q)
    <3>1. Terms(F[i + 1], N) /\ N >= 1
      BY <1>0, <1>3, <2>1
    <3>2. QED
      BY ONLY <1>0, <2>4, <2>6, <2>7, <3>1, SumRotated
  <2>9. PICK s \in Int, t \in Int, u \in Int, e \in Int, p \in Int :
          /\ s = SumTo(F[i + 1], N) /\ t = SumTo(G, N) /\ u = SumTo(F[i], N)
          /\ e = Evaluation(b, c) /\ p = PowerOf(c, i) /\ PowerOf(c, i + 1) = p * c
    <3>1. SumTo(F[i + 1], N) \in Int /\ SumTo(F[i], N) \in Int
      BY <1>4, <2>1
    <3>2. SumTo(G, N) \in Int
      <4>1. N \in 0 .. N
        BY <1>0
      <4>2. QED
        BY <1>0, <2>4, <4>1, SumLaw
    <3>3. PowerOf(c, i) \in Int /\ PowerOf(c, i + 1) = PowerOf(c, i) * c
      BY <1>1, <2>1
    <3>4. Evaluation(b, c) \in Int
      BY <1>6
    <3>5. QED
      BY ONLY <3>1, <3>2, <3>3, <3>4
  <2>10. Same(s, t, q) /\ Same(t, c * u, q) /\ Same(u, p * e, q)
    BY <1>8, <2>5, <2>8, <2>9
  <2>11. PICK v \in Int, w \in Int : v = c * u /\ w = p * e
    OBVIOUS
  <2>12. Same(v, c * w, q)
    <3>1. Same(c, c, q)
      BY <1>0, SameReflexive
    <3>2. Same(u, w, q)
      BY <2>10, <2>11
    <3>3. Same(c * u, c * w, q)
      BY ONLY <1>0, <3>1, <3>2, u \in Int, w \in Int, SameProduct
    <3>4. QED
      BY <2>11, <3>3
  <2>13. PICK z \in Int : z = c * w /\ z = (p * c) * e
    <3>1. c * (p * e) = (p * c) * e
      BY ONLY <1>0, p \in Int, e \in Int
    <3>2. c * w \in Int
      BY <1>0
    <3>3. QED
      BY <2>11, <3>1, <3>2
  <2>14. Same(s, z, q)
    <3>1. Same(s, t, q) /\ Same(t, v, q) /\ Same(v, z, q)
      BY <2>10, <2>11, <2>12, <2>13
    <3>2. Same(s, v, q)
      BY ONLY <1>0, <3>1, s \in Int, t \in Int, v \in Int, SameTransitive
    <3>3. QED
      BY ONLY <1>0, <3>1, <3>2, s \in Int, v \in Int, z \in Int, SameTransitive
  <2>15. i + 1 \in 0 .. N - 1
    BY <1>0, <2>1
  <2>16. QED
    BY <2>9, <2>13, <2>14, <2>15
<1> HIDE DEF T
<1>9. \A i \in 0 .. N - 1 : i \in T
  BY <1>0, <1>7, <1>8, Induction
<1>10. Same(SumTo(F[n], N), PowerOf(c, n) * Evaluation(b, c), q)
  <2> HIDE DEF F
  <2>1. n \in T
    BY <1>0, <1>9
  <2>2. QED
    BY <2>1 DEF T
<1>11. F[n] = [x \in Idx |-> Turned(b, n, x) * PowerOf(c, x)]
  OBVIOUS
<1>12. QED
  BY <1>10, <1>11

\* The terms of coefficient x of a product.
ProductTerms(a, b, x, q) ==
  [j \in Idx |-> IF j <= x THEN (a[j] % q) * (b[x - j] % q)
                 ELSE NegMod(((a[j] % q) * (b[N + x - j] % q)) % q, q)]

\* They are the coefficients of one factor by those of the other, turned.
LEMMA ProductSums ==
  ASSUME NEW q \in Moduli, NEW a, \A i \in Idx : a[i] \in Nat, NEW b, \A i \in Idx : b[i] \in Nat,
         NEW x \in Idx
  PROVE  /\ Terms(ProductTerms(a, b, x, q), N)
         /\ \A j \in Idx : Same(ProductTerms(a, b, x, q)[j], a[j] * Turned(b, j, x), q)
         /\ Negacyclic(a, b, x, q) \in 0 .. q - 1
         /\ Same(Negacyclic(a, b, x, q), SumTo(ProductTerms(a, b, x, q), N), q)
<1>1. q \in Nat \ {0} /\ q \in Nat /\ N \in Nat /\ N >= 2 /\ Idx = 0 .. N - 1
  BY ModulusFacts, Dimension DEF Idx
<1>2. PICK f : f = ProductTerms(a, b, x, q)
  OBVIOUS
<1>3. ASSUME NEW j \in Idx
      PROVE  f[j] \in Int /\ Same(f[j], a[j] * Turned(b, j, x), q)
  <2>1. PICK u \in Nat, v \in Nat : u = a[j] /\ v = u % q /\ Same(v, u, q)
    <3>1. a[j] \in Nat
      OBVIOUS
    <3>2. QED
      BY <1>1, <3>1, ResidueOf
  <2>2. CASE j <= x
    <3>1. x - j \in Idx
      BY <1>1, <2>2
    <3>2. PICK y \in Nat, z \in Nat : y = b[x - j] /\ z = y % q /\ Same(z, y, q)
      <4>1. b[x - j] \in Nat
        BY <3>1
      <4>2. QED
        BY <1>1, <4>1, ResidueOf
    <3>3. f[j] = v * z /\ Turned(b, j, x) = y
      BY <1>2, <2>1, <2>2, <3>2 DEF ProductTerms, Turned
    <3>4. Same(v * z, u * y, q)
      <4>1. u \in Int /\ v \in Int /\ y \in Int /\ z \in Int
        OBVIOUS
      <4>2. QED
        BY ONLY <1>1, <2>1, <3>2, <4>1, SameProduct
    <3>5. v * z \in Int
      OBVIOUS
    <3>6. QED
      BY <2>1, <3>3, <3>4, <3>5
  <2>3. CASE ~(j <= x)
    <3>1. N + x - j \in Idx
      BY <1>1, <2>3
    <3>2. PICK y \in Nat, z \in Nat : y = b[N + x - j] /\ z = y % q /\ Same(z, y, q)
      <4>1. b[N + x - j] \in Nat
        BY <3>1
      <4>2. QED
        BY <1>1, <4>1, ResidueOf
    <3>3. PICK p \in Nat, r \in 0 .. q - 1 : p = v * z /\ r = p % q /\ Same(r, p, q)
      <4>1. v * z \in Nat
        OBVIOUS
      <4>2. (v * z) % q \in 0 .. q - 1 /\ Same((v * z) % q, v * z, q)
        BY <1>1, <4>1, ResidueOf
      <4>3. QED
        BY <4>1, <4>2
    <3>4. f[j] = NegMod(r, q) /\ Turned(b, j, x) = -y
      BY <1>2, <2>1, <2>3, <3>2, <3>3 DEF ProductTerms, Turned
    <3>5. NegMod(r, q) \in 0 .. q - 1 /\ Same(NegMod(r, q), -r, q)
      <4>1. NegMod(r, q) = -r + q * (IF r = 0 THEN 0 ELSE 1)
        BY <1>1 DEF NegMod
      <4>2. (IF r = 0 THEN 0 ELSE 1) \in Int
        OBVIOUS
      <4>3. NegMod(r, q) \in 0 .. q - 1
        BY <3>3, SumReduces
      <4>4. QED
        BY <4>1, <4>2, <4>3 DEF Same
    <3>6. Same(p, u * y, q)
      <4>1. u \in Int /\ v \in Int /\ y \in Int /\ z \in Int
        OBVIOUS
      <4>2. QED
        BY ONLY <1>1, <2>1, <3>2, <3>3, <4>1, SameProduct
    <3>7. PICK w \in Int : w = u * y
      OBVIOUS
    <3>8. r \in Int /\ p \in Int /\ -r \in Int /\ -w \in Int /\ NegMod(r, q) \in Int
      BY <1>1, <3>5
    <3>9. Same(r, w, q)
      BY ONLY <1>1, <3>3, <3>6, <3>7, <3>8, SameTransitive
    <3>10. Same(-r, -w, q)
      <4>1. -1 \in Int
        OBVIOUS
      <4>2. Same(-1, -1, q)
        BY ONLY <1>1, <4>1, SameReflexive
      <4>3. Same((-1) * r, (-1) * w, q)
        BY ONLY <1>1, <3>8, <3>9, <4>1, <4>2, w \in Int, SameProduct
      <4>4. (-1) * r = -r /\ (-1) * w = -w
        BY ONLY <3>8, w \in Int
      <4>5. QED
        BY <4>3, <4>4
    <3>11. Same(NegMod(r, q), -w, q)
      BY ONLY <1>1, <3>5, <3>8, <3>10, SameTransitive
    <3>12. u * (-y) = -w
      BY ONLY <3>7, u \in Nat, y \in Nat
    <3>13. QED
      BY <2>1, <3>4, <3>8, <3>11, <3>12
  <2>4. QED
    BY <2>2, <2>3
<1>4. Terms(f, N)
  BY <1>1, <1>3 DEF Terms
<1>5. PICK s \in Int : s = SumTo(f, N)
  <2>1. N \in 0 .. N
    BY <1>1
  <2>2. QED
    BY <1>1, <1>4, <2>1, SumLaw
<1>6. Negacyclic(a, b, x, q) = s % q
  BY <1>2, <1>5 DEF Negacyclic, ProductTerms
<1>7. s % q \in 0 .. q - 1 /\ Same(s % q, s, q)
  BY ONLY <1>1, s \in Int, DivMod, SameMod
<1>8. QED
  BY <1>2, <1>3, <1>4, <1>5, <1>6, <1>7

\* At a root of X^N + 1 the product has the value of the factors multiplied.
LEMMA ProductEvaluates ==
  ASSUME NEW q \in Moduli, NEW a, \A i \in Idx : a[i] \in Nat, NEW b, \A i \in Idx : b[i] \in Nat,
         NEW c \in Nat, Same(PowerOf(c, N), -1, q)
  PROVE  Same(Evaluation([x \in Idx |-> Negacyclic(a, b, x, q)], c),
              Evaluation(a, c) * Evaluation(b, c), q)
<1>0. /\ q \in Nat \ {0} /\ q \in Nat /\ N \in Nat /\ N >= 2 /\ N - 1 \in Nat /\ Idx = 0 .. N - 1
      /\ c \in Int /\ N \in 0 .. N /\ 0 \in 0 .. N
  BY ModulusFacts, Dimension DEF Idx
<1>1. \A i \in Nat : PowerOf(c, i) \in Nat /\ PowerOf(c, i) \in Int
  BY ONLY c \in Nat, PowerOfStep
<1>2. PICK t : t = [x \in Idx |-> ProductTerms(a, b, x, q)]
  OBVIOUS
<1>3. \A x \in Idx : /\ Terms(t[x], N)
                     /\ \A j \in Idx : Same(t[x][j], a[j] * Turned(b, j, x), q)
                     /\ Negacyclic(a, b, x, q) \in Int
                     /\ Same(Negacyclic(a, b, x, q), SumTo(t[x], N), q)
  <2>1. ASSUME NEW x \in Idx
        PROVE  /\ Terms(t[x], N)
               /\ \A j \in Idx : Same(t[x][j], a[j] * Turned(b, j, x), q)
               /\ Negacyclic(a, b, x, q) \in Int
               /\ Same(Negacyclic(a, b, x, q), SumTo(t[x], N), q)
    <3>1. t[x] = ProductTerms(a, b, x, q)
      BY <1>2
    <3>2. Negacyclic(a, b, x, q) \in 0 .. q - 1
      BY ProductSums
    <3>3. Negacyclic(a, b, x, q) \in Int
      BY <1>0, <3>2
    <3>4. QED
      BY <3>1, <3>3, ProductSums
  <2>2. QED
    BY <2>1
<1>4. PICK P : P = [i \in 0 .. N |-> [x \in Idx |-> SumTo(t[x], i) * PowerOf(c, x)]]
  OBVIOUS
<1>5. \A i \in 0 .. N, x \in Idx : /\ P[i][x] = SumTo(t[x], i) * PowerOf(c, x) /\ P[i][x] \in Int
                                   /\ SumTo(t[x], i) \in Int
  <2>1. ASSUME NEW i \in 0 .. N, NEW x \in Idx
        PROVE  /\ P[i][x] = SumTo(t[x], i) * PowerOf(c, x) /\ P[i][x] \in Int
               /\ SumTo(t[x], i) \in Int
    <3>1. SumTo(t[x], i) \in Int
      BY <1>0, <1>3, SumLaw
    <3>2. PowerOf(c, x) \in Int
      BY <1>0, <1>1
    <3>3. P[i][x] = SumTo(t[x], i) * PowerOf(c, x)
      BY <1>4
    <3>4. SumTo(t[x], i) * PowerOf(c, x) \in Int
      BY ONLY <3>1, <3>2
    <3>5. QED
      BY <3>1, <3>3, <3>4
  <2>2. QED
    BY <2>1
<1>6. \A i \in 0 .. N : Terms(P[i], N) /\ SumTo(P[i], N) \in Int
  <2>1. \A i \in 0 .. N : Terms(P[i], N)
    BY <1>0, <1>5 DEF Terms
  <2>2. QED
    BY <1>0, <2>1, SumLaw
<1>7. PICK A : A = [i \in Idx |-> a[i] * PowerOf(c, i)]
  OBVIOUS
<1>8. \A i \in Idx : A[i] = a[i] * PowerOf(c, i) /\ A[i] \in Int
  <2>1. ASSUME NEW i \in Idx
        PROVE  A[i] = a[i] * PowerOf(c, i) /\ A[i] \in Int
    <3>1. A[i] = a[i] * PowerOf(c, i)
      BY <1>7
    <3>2. PowerOf(c, i) \in Nat /\ a[i] \in Nat
      <4>1. i \in Nat
        BY <1>0
      <4>2. a[i] \in Nat
        OBVIOUS
      <4>3. QED
        BY <1>1, <4>1, <4>2
    <3>3. a[i] * PowerOf(c, i) \in Int
      BY ONLY <3>2
    <3>4. QED
      BY <3>1, <3>3
  <2>2. QED
    BY <2>1
<1>9. Terms(A, N) /\ Evaluation(a, c) = SumTo(A, N)
  BY <1>0, <1>7, <1>8 DEF Terms, Evaluation
<1>10. PICK e \in Int : e = Evaluation(b, c)
  <2>1. PICK B : B = [i \in Idx |-> b[i] * PowerOf(c, i)]
    OBVIOUS
  <2>2. ASSUME NEW i \in Idx
        PROVE  B[i] \in Int
    <3>1. B[i] = b[i] * PowerOf(c, i)
      BY <2>1
    <3>2. PowerOf(c, i) \in Nat /\ b[i] \in Nat
      <4>1. i \in Nat
        BY <1>0
      <4>2. b[i] \in Nat
        OBVIOUS
      <4>3. QED
        BY <1>1, <4>1, <4>2
    <3>3. b[i] * PowerOf(c, i) \in Int
      BY ONLY <3>2
    <3>4. QED
      BY <3>1, <3>3
  <2>3. Terms(B, N)
    BY <1>0, <2>2 DEF Terms
  <2>4. SumTo(B, N) \in Int
    BY <1>0, <2>3, SumLaw
  <2>5. Evaluation(b, c) = SumTo(B, N)
    BY <2>1 DEF Evaluation
  <2>6. QED
    BY <2>4, <2>5
<1> DEFINE T == {i \in 0 .. N : Same(SumTo(P[i], N), SumTo(A, i) * e, q)}
<1>11. 0 \in T
  <2>1. ASSUME NEW x \in 0 .. N - 1
        PROVE  Same(P[0][x], 0 * P[0][x], q)
    <3>1. SumTo(t[x], 0) = 0
      BY <1>0, <1>3, SumLaw
    <3>2. P[0][x] = 0 * PowerOf(c, x) /\ PowerOf(c, x) \in Int
      BY <1>0, <1>1, <1>5, <3>1
    <3>3. P[0][x] = 0
      BY ONLY <3>2
    <3>4. 0 \in Int /\ 0 * 0 = 0
      OBVIOUS
    <3>5. Same(0, 0, q)
      BY ONLY <1>0, <3>4, SameReflexive
    <3>6. QED
      BY ONLY <3>3, <3>4, <3>5
  <2>2. Terms(P[0], N) /\ SumTo(P[0], N) \in Int /\ 0 \in Int
    BY <1>0, <1>6
  <2>3. Same(SumTo(P[0], N), 0 * SumTo(P[0], N), q)
    BY ONLY <1>0, <2>1, <2>2, SumScaled
  <2>4. SumTo(A, 0) = 0
    BY <1>0, <1>9, SumLaw
  <2>5. 0 * SumTo(P[0], N) = 0 * e
    BY ONLY <2>2, e \in Int
  <2>6. QED
    BY <1>0, <2>3, <2>4, <2>5
<1>12. ASSUME NEW i \in 0 .. N, i # N, i \in T
       PROVE  i + 1 \in T
  <2>1. i \in Idx /\ i + 1 \in 0 .. N /\ i \in Nat
    BY <1>0, <1>12
  <2>2. PICK f : f = [x \in Idx |-> Turned(b, i, x) * PowerOf(c, x)]
    OBVIOUS
  <2>3. \A x \in Idx : Turned(b, i, x) \in Int
    <3>1. ASSUME NEW x \in Idx
          PROVE  Turned(b, i, x) \in Int
      <4>1. CASE i <= x
        <5>1. x - i \in Idx
          BY <1>0, <2>1, <4>1
        <5>2. b[x - i] \in Nat
          BY <5>1
        <5>3. QED
          BY <4>1, <5>2 DEF Turned
      <4>2. CASE ~(i <= x)
        <5>1. N + x - i \in Idx
          BY <1>0, <2>1, <4>2
        <5>2. b[N + x - i] \in Nat
          BY <5>1
        <5>3. QED
          BY <4>2, <5>2 DEF Turned
      <4>3. QED
        BY <4>1, <4>2
    <3>2. QED
      BY <3>1
  <2>4. ASSUME NEW x \in Idx
        PROVE  f[x] \in Int /\ Same(P[i + 1][x], P[i][x] + a[i] * f[x], q)
    <3>1. PICK u \in Int, v \in Int, p \in Int, y \in Int, z \in Nat :
            /\ u = SumTo(t[x], i) /\ v = t[x][i] /\ p = PowerOf(c, x) /\ y = Turned(b, i, x) /\ z = a[i]
            /\ SumTo(t[x], i + 1) = u + v
      <4>1. Terms(t[x], N)
        BY <1>3
      <4>2. SumTo(t[x], i) \in Int /\ SumTo(t[x], i + 1) = SumTo(t[x], i) + t[x][i]
        BY <1>0, <1>12, <4>1, SumLaw
      <4>3. t[x][i] \in Int
        BY <1>0, <2>1, <4>1 DEF Terms
      <4>4. PowerOf(c, x) \in Int /\ Turned(b, i, x) \in Int /\ a[i] \in Nat
        <5>1. x \in Nat
          BY <1>0
        <5>2. a[i] \in Nat
          BY <2>1
        <5>3. QED
          BY <1>1, <2>3, <5>1, <5>2
      <4>5. QED
        BY ONLY <4>2, <4>3, <4>4
    <3>2. P[i][x] = u * p /\ P[i + 1][x] = (u + v) * p /\ f[x] = y * p
      BY <1>5, <2>1, <2>2, <3>1
    <3>3. Same(v, z * y, q)
      BY <1>3, <2>1, <3>1
    <3>4. PICK w \in Int, s \in Int : w = z * y /\ s = u * p
      OBVIOUS
    <3>5. PICK m \in Int, n \in Int : m = v * p /\ n = w * p /\ Same(m, n, q)
      <4>1. Same(p, p, q)
        BY ONLY <1>0, p \in Int, SameReflexive
      <4>2. Same(v, w, q)
        BY <3>3, <3>4
      <4>3. Same(v * p, w * p, q)
        BY ONLY <1>0, <4>1, <4>2, v \in Int, w \in Int, p \in Int, SameProduct
      <4>4. QED
        BY <4>3
    <3>6. Same(s + m, s + n, q)
      <4>1. Same(s, s, q)
        BY ONLY <1>0, s \in Int, SameReflexive
      <4>2. QED
        BY ONLY <1>0, <3>5, <4>1, s \in Int, m \in Int, n \in Int, SameSum
    <3>7. (u + v) * p = s + m /\ n = z * (y * p)
      <4>1. (u + v) * p = u * p + v * p
        BY ONLY u \in Int, v \in Int, p \in Int
      <4>2. (z * y) * p = z * (y * p)
        BY ONLY z \in Nat, y \in Int, p \in Int
      <4>3. QED
        BY <3>4, <3>5, <4>1, <4>2
    <3>8. y * p \in Int
      OBVIOUS
    <3>9. QED
      BY ONLY <3>1, <3>2, <3>4, <3>6, <3>7, <3>8
  <2>5. Terms(f, N)
    BY <1>0, <2>4 DEF Terms
  <2>6. a[i] \in Int /\ a[i] \in Nat
    BY <2>1
  <2>7. Same(SumTo(P[i + 1], N), SumTo(P[i], N) + a[i] * SumTo(f, N), q)
    <3>1. \A x \in 0 .. N - 1 : Same(P[i + 1][x], P[i][x] + a[i] * f[x], q)
      BY <1>0, <2>4
    <3>2. Terms(P[i + 1], N) /\ Terms(P[i], N)
      BY <1>6, <2>1
    <3>3. QED
      BY ONLY <1>0, <2>5, <2>6, <3>1, <3>2, SumCombined
  <2>8. Same(SumTo(f, N), PowerOf(c, i) * Evaluation(b, c), q)
    BY <1>0, <2>1, <2>2, TurnedEvaluates
  <2>9. PICK s \in Int, r \in Int, u \in Int, v \in Int, z \in Nat, p \in Nat :
          /\ s = SumTo(P[i + 1], N) /\ r = SumTo(P[i], N) /\ u = SumTo(f, N) /\ v = SumTo(A, i)
          /\ z = a[i] /\ p = PowerOf(c, i) /\ SumTo(A, i + 1) = v + z * p
    <3>1. SumTo(P[i + 1], N) \in Int /\ SumTo(P[i], N) \in Int
      BY <1>6, <2>1
    <3>2. SumTo(f, N) \in Int
      BY <1>0, <2>5, SumLaw
    <3>3. SumTo(A, i) \in Int /\ SumTo(A, i + 1) = SumTo(A, i) + A[i]
      BY <1>0, <1>9, <1>12, SumLaw
    <3>4. A[i] = a[i] * PowerOf(c, i) /\ PowerOf(c, i) \in Nat
      BY <1>1, <1>8, <2>1
    <3>5. QED
      BY ONLY <2>6, <3>1, <3>2, <3>3, <3>4
  <2>10. Same(r, v * e, q) /\ Same(s, r + z * u, q) /\ Same(u, p * e, q)
    BY <1>10, <1>12, <2>7, <2>8, <2>9
  <2>11. PICK m \in Int, n \in Int, w \in Int, d \in Int :
           m = z * u /\ n = z * d /\ w = v * e /\ d = p * e
    OBVIOUS
  <2>12. Same(m, n, q)
    <3>1. z \in Int
      OBVIOUS
    <3>2. Same(z, z, q)
      BY ONLY <1>0, <3>1, SameReflexive
    <3>3. Same(u, d, q)
      BY <2>10, <2>11
    <3>4. Same(z * u, z * d, q)
      BY ONLY <1>0, <3>1, <3>2, <3>3, u \in Int, d \in Int, SameProduct
    <3>5. QED
      BY <2>11, <3>4
  <2>13. Same(s, w + n, q)
    <3>1. Same(r, w, q) /\ Same(s, r + m, q)
      BY <2>10, <2>11
    <3>2. Same(r + m, w + n, q)
      BY ONLY <1>0, <2>12, <3>1, r \in Int, w \in Int, m \in Int, n \in Int, SameSum
    <3>3. r + m \in Int /\ w + n \in Int
      OBVIOUS
    <3>4. QED
      BY ONLY <1>0, <3>1, <3>2, <3>3, s \in Int, SameTransitive
  <2>14. w + n = (v + z * p) * e
    <3>1. z * (p * e) = (z * p) * e /\ z * p \in Int
      BY ONLY z \in Nat, p \in Nat, e \in Int
    <3>2. PICK o \in Int : o = z * p
      BY <3>1
    <3>3. (v + o) * e = v * e + o * e
      BY ONLY v \in Int, o \in Int, e \in Int
    <3>4. QED
      BY <2>11, <3>1, <3>2, <3>3
  <2>15. QED
    BY <2>1, <2>9, <2>13, <2>14
<1> HIDE DEF T
<1>13. \A i \in 0 .. N : i \in T
  BY <1>0, <1>11, <1>12, Induction
<1>14. Same(SumTo(P[N], N), SumTo(A, N) * e, q)
  BY <1>0, <1>13 DEF T
<1>15. PICK h : h = [x \in Idx |-> [y \in Idx |-> Negacyclic(a, b, y, q)][x] * PowerOf(c, x)]
  OBVIOUS
<1>16. ASSUME NEW x \in Idx
       PROVE  h[x] \in Int /\ Same(h[x], P[N][x], q)
  <2>1. PICK u \in Int, v \in Int, p \in Int :
          /\ u = Negacyclic(a, b, x, q) /\ v = SumTo(t[x], N) /\ p = PowerOf(c, x)
          /\ P[N][x] = v * p
    <3>1. Negacyclic(a, b, x, q) \in Int
      BY <1>3
    <3>2. SumTo(t[x], N) \in Int /\ P[N][x] = SumTo(t[x], N) * PowerOf(c, x)
      BY <1>0, <1>5
    <3>3. PowerOf(c, x) \in Int
      BY <1>0, <1>1
    <3>4. QED
      BY ONLY <3>1, <3>2, <3>3
  <2>2. h[x] = u * p
    BY <1>15, <2>1
  <2>3. Same(u, v, q) /\ Same(p, p, q)
    BY <1>0, <1>3, <2>1, SameReflexive
  <2>4. Same(u * p, v * p, q)
    BY ONLY <1>0, <2>3, u \in Int, v \in Int, p \in Int, SameProduct
  <2>5. u * p \in Int
    OBVIOUS
  <2>6. QED
    BY <2>1, <2>2, <2>4, <2>5
<1>17. Same(SumTo(h, N), SumTo(P[N], N), q) /\ SumTo(h, N) \in Int
  <2>1. Terms(h, N) /\ Terms(P[N], N)
    <3>1. Terms(h, N)
      BY <1>0, <1>16 DEF Terms
    <3>2. QED
      BY <1>0, <1>6, <3>1
  <2>2. \A x \in 0 .. N - 1 : Same(h[x], P[N][x], q)
    BY <1>0, <1>16
  <2>3. QED
    BY ONLY <1>0, <2>1, <2>2, SumSame, SumLaw
<1>18. Evaluation([x \in Idx |-> Negacyclic(a, b, x, q)], c) = SumTo(h, N)
  BY <1>15 DEF Evaluation
<1>19. PICK s \in Int, u \in Int, v \in Int : s = SumTo(h, N) /\ u = SumTo(P[N], N) /\ v = SumTo(A, N) * e
  <2>1. SumTo(P[N], N) \in Int /\ SumTo(A, N) \in Int
    BY <1>0, <1>6, <1>9, SumLaw
  <2>2. SumTo(A, N) * e \in Int
    BY ONLY <2>1, e \in Int
  <2>3. QED
    BY <1>17, <2>1, <2>2
<1>20. Same(s, v, q)
  BY <1>0, <1>14, <1>17, <1>19, SameTransitive
<1>21. QED
  BY <1>9, <1>10, <1>18, <1>19, <1>20

\* The blocks of the last level are single words.
LEMMA LeafLevel ==
  ASSUME NEW k \in N .. 2 * N - 1
  PROVE  k \in 1 .. 2 * N - 1 /\ HighBit(k) = N /\ Length(k) = 1 /\ First(k) = k - N
<1>1. PICK K \in 1 .. Bits : N = 2 ^ K /\ N \in Nat /\ N >= 2
  BY Dimension
<1>2. K \in 0 .. Bits /\ k \in Nat /\ k \in 1 .. 2 * N - 1 /\ N <= k /\ k < 2 * N
  BY <1>1, WordAssumption
<1>3. N \in PowersOfTwo
  BY <1>1, <1>2, Powers
<1>4. HighBit(k) = N
  BY ONLY <1>2, <1>3, HighBitIs
<1>5. N = N * 1 + 0 /\ N \in Nat \ {0}
  BY <1>1
<1>6. N \div N = 1
  BY <1>5, DivModUnique
<1>7. (k - N) * 1 = k - N
  BY <1>1, <1>2
<1>8. QED
  BY <1>2, <1>4, <1>6, <1>7 DEF Length, First

\* A word of the last level is a value of the polynomial.
LEMMA LeafEvaluates ==
  ASSUME NEW q \in NttModuli, NEW a, \A i \in Idx : a[i] \in Nat, NEW k \in N .. 2 * N - 1
  PROVE  /\ Remainder(a, 0, k, q) \in 0 .. q - 1
         /\ Same(Remainder(a, 0, k, q), Evaluation(a, Constant(k, q)), q)
         /\ Evaluation(a, Constant(k, q)) \in Int
<1>1. q \in Nat \ {0} /\ q \in Nat /\ N \in Nat /\ N >= 2 /\ Idx = 0 .. N - 1 /\ N \in 0 .. N
  BY RootModulus, ModulusFacts, Dimension DEF Idx
<1>2. k \in 1 .. 2 * N - 1 /\ HighBit(k) = N /\ Length(k) = 1 /\ 0 \in 0 .. Length(k) - 1
  BY LeafLevel
<1>3. PICK f : /\ Terms(f, HighBit(k))
               /\ \A r \in 0 .. HighBit(k) - 1 :
                    Same(f[r], a[0 + r * Length(k)] * PowerOf(Constant(k, q), r), q)
               /\ Same(Remainder(a, 0, k, q), SumTo(f, HighBit(k)), q)
               /\ Remainder(a, 0, k, q) \in 0 .. q - 1
  BY <1>2, RemainderSum
<1>4. PICK c \in Nat : c = Constant(k, q)
  <2>1. Constant(k, q) \in 0 .. q - 1
    BY <1>2, ConstantFacts
  <2>2. QED
    BY <1>1, <2>1
<1>5. PICK g : g = [i \in Idx |-> a[i] * PowerOf(c, i)]
  OBVIOUS
<1>6. ASSUME NEW i \in 0 .. N - 1
      PROVE  g[i] \in Int /\ Same(f[i], g[i], q)
  <2>1. i \in Idx /\ i \in Nat /\ 0 + i * 1 = i
    BY <1>1
  <2>2. g[i] = a[i] * PowerOf(c, i)
    BY <1>5, <2>1
  <2>3. PowerOf(c, i) \in Nat /\ a[i] \in Nat
    BY <2>1, PowerOfStep
  <2>4. a[i] * PowerOf(c, i) \in Int
    BY ONLY <2>3
  <2>5. Same(f[i], a[0 + i * 1] * PowerOf(c, i), q)
    BY <1>2, <1>3, <1>4
  <2>6. QED
    BY <2>1, <2>2, <2>4, <2>5
<1>7. Terms(g, N) /\ Terms(f, N)
  BY <1>2, <1>3, <1>6 DEF Terms
<1>8. Same(SumTo(f, N), SumTo(g, N), q)
  BY ONLY <1>1, <1>6, <1>7, SumSame
<1>9. PICK s \in Int, t \in Int, r \in Int : s = SumTo(f, N) /\ t = SumTo(g, N) /\ r = Remainder(a, 0, k, q)
  <2>1. SumTo(f, N) \in Int /\ SumTo(g, N) \in Int
    BY <1>1, <1>7, SumLaw
  <2>2. Remainder(a, 0, k, q) \in Int
    BY <1>1, <1>3
  <2>3. QED
    BY <2>1, <2>2
<1>10. Same(r, s, q) /\ Same(s, t, q)
  BY <1>2, <1>3, <1>8, <1>9
<1>11. Same(r, t, q)
  BY ONLY <1>1, <1>10, r \in Int, s \in Int, t \in Int, SameTransitive
<1>12. Evaluation(a, Constant(k, q)) = t
  BY <1>4, <1>5, <1>9 DEF Evaluation
<1>13. QED
  BY <1>3, <1>9, <1>11, <1>12

\* The words of the last level multiply.
LEMMA LeafMultiplies ==
  ASSUME NEW q \in NttModuli, NEW a, \A i \in Idx : a[i] \in Nat, NEW b, \A i \in Idx : b[i] \in Nat,
         NEW k \in N .. 2 * N - 1
  PROVE  Same(Remainder([x \in Idx |-> Negacyclic(a, b, x, q)], 0, k, q),
              Remainder(a, 0, k, q) * Remainder(b, 0, k, q), q)
<1>1. q \in Moduli /\ q \in Nat
  BY RootModulus, ModulusFacts
<1>2. PICK c \in Nat : c = Constant(k, q) /\ Same(PowerOf(c, N), -1, q)
  <2>1. k \in 1 .. 2 * N - 1 /\ HighBit(k) = N
    BY LeafLevel
  <2>2. Constant(k, q) \in 0 .. q - 1
    BY <2>1, ConstantFacts
  <2>3. Same(PowerOf(Constant(k, q), N), -1, q)
    BY <2>1, ConstantRoots
  <2>4. QED
    BY <1>1, <2>2, <2>3
<1>3. PICK p : p = [x \in Idx |-> Negacyclic(a, b, x, q)]
  OBVIOUS
<1>4. \A i \in Idx : p[i] \in Nat
  <2>1. ASSUME NEW i \in Idx
        PROVE  p[i] \in Nat
    <3>1. Negacyclic(a, b, i, q) \in 0 .. q - 1
      BY <1>1, ProductSums
    <3>2. QED
      BY <1>1, <1>3, <3>1
  <2>2. QED
    BY <2>1
<1>5. PICK x \in Int, y \in Int, z \in Int, u \in Int, v \in Int, w \in Int :
        /\ x = Remainder(p, 0, k, q) /\ y = Remainder(a, 0, k, q) /\ z = Remainder(b, 0, k, q)
        /\ u = Evaluation(p, c) /\ v = Evaluation(a, c) /\ w = Evaluation(b, c)
        /\ Same(x, u, q) /\ Same(y, v, q) /\ Same(z, w, q)
  <2>1. /\ Remainder(p, 0, k, q) \in 0 .. q - 1 /\ Same(Remainder(p, 0, k, q), Evaluation(p, c), q)
        /\ Evaluation(p, c) \in Int
    BY <1>2, <1>4, LeafEvaluates
  <2>2. /\ Remainder(a, 0, k, q) \in 0 .. q - 1 /\ Same(Remainder(a, 0, k, q), Evaluation(a, c), q)
        /\ Evaluation(a, c) \in Int
    BY <1>2, LeafEvaluates
  <2>3. /\ Remainder(b, 0, k, q) \in 0 .. q - 1 /\ Same(Remainder(b, 0, k, q), Evaluation(b, c), q)
        /\ Evaluation(b, c) \in Int
    BY <1>2, LeafEvaluates
  <2>4. \A r \in 0 .. q - 1 : r \in Int
    BY <1>1
  <2>5. QED
    BY <2>1, <2>2, <2>3, <2>4
<1>6. Same(u, v * w, q)
  BY <1>1, <1>2, <1>3, <1>5, ProductEvaluates
<1>7. PICK m \in Int, n \in Int : m = y * z /\ n = v * w
  OBVIOUS
<1>8. Same(m, n, q)
  BY ONLY <1>1, <1>5, <1>7, y \in Int, z \in Int, v \in Int, w \in Int, SameProduct
<1>9. Same(x, n, q)
  <2>1. Same(u, n, q) /\ Same(x, u, q)
    BY <1>5, <1>6, <1>7
  <2>2. QED
    BY ONLY <1>1, <2>1, x \in Int, u \in Int, n \in Int, SameTransitive
<1>10. Same(x, m, q)
  BY ONLY <1>1, <1>8, <1>9, x \in Int, n \in Int, m \in Int, SameChain
<1>11. QED
  BY <1>3, <1>5, <1>7, <1>10
-----------------------------------------------------------------------------
(* What words mean on a path                                               *)

\* Sums, differences and products of words mean those of what the words mean.
LEMMA MeansCombined ==
  ASSUME NEW q \in Moduli, NEW p \in Paths(q), NEW w, NEW v, NEW x \in Int, NEW y \in Int,
         Means(p, w, x, q), Means(p, v, y, q)
  PROVE  /\ Means(p, AddMod(w, v, q), x + y, q)
         /\ Means(p, SubMod(w, v, q), x - y, q)
         /\ Means(p, PathMul(p, w, v, q), x * y, q)
<1>1. q \in Nat /\ q > 0 /\ q >= 3 /\ Word \in Nat /\ 4 * q <= Word
  BY ModulusFacts
<1>2. x + y \in Int /\ x - y \in Int /\ x * y \in Int
  OBVIOUS
<1>3. ASSUME p # "shoup"
      PROVE  /\ Means(p, AddMod(w, v, q), x + y, q)
             /\ Means(p, SubMod(w, v, q), x - y, q)
             /\ Means(p, PathMul(p, w, v, q), x * y, q)
  <2>1. StandsFor(w, x, q) /\ StandsFor(v, y, q)
    BY <1>3, MeansStands
  <2>2. p \in Kernels(q)
    BY <1>3 DEF Paths
  <2>3. StandsFor(AddMod(w, v, q), x + y, q)
    BY ONLY <2>1, q \in Moduli, x \in Int, y \in Int, AddStands
  <2>4. StandsFor(SubMod(w, v, q), x - y, q)
    BY ONLY <2>1, q \in Moduli, x \in Int, y \in Int, SubStands
  <2>5. StandsFor(Mul(p, w, v, q), x * y, q)
    BY ONLY <2>1, <2>2, q \in Moduli, x \in Int, y \in Int, KernelStands
  <2>6. PathMul(p, w, v, q) = Mul(p, w, v, q)
    BY <1>3 DEF PathMul
  <2>7. QED
    BY <1>2, <1>3, <2>3, <2>4, <2>5, <2>6, MeansStands
<1>4. ASSUME p = "shoup"
      PROVE  /\ Means(p, AddMod(w, v, q), x + y, q)
             /\ Means(p, SubMod(w, v, q), x - y, q)
             /\ Means(p, PathMul(p, w, v, q), x * y, q)
  <2>1. w \in 0 .. q - 1 /\ v \in 0 .. q - 1 /\ Same(w, x, q) /\ Same(v, y, q)
    BY <1>4 DEF Means, Reads
  <2>2. w \in Int /\ v \in Int /\ w \in Words
    BY <1>1, <2>1 DEF Words
  <2>3. AddMod(w, v, q) \in 0 .. q - 1 /\ SubMod(w, v, q) \in 0 .. q - 1
    BY <2>1, SumReduces
  <2>4. Same(AddMod(w, v, q), w + v, q)
    <3>1. w + v \in Nat /\ w + v < 2 * q
      BY <1>1, <2>1
    <3>2. QED
      BY ONLY <1>1, <3>1, CondSubReduces DEF AddMod
  <2>5. Same(SubMod(w, v, q), w - v, q)
    <3>1. SubMod(w, v, q) = (w - v) + q * (IF w >= v THEN 0 ELSE 1)
      BY <1>1, <2>1 DEF SubMod
    <3>2. (IF w >= v THEN 0 ELSE 1) \in Int
      OBVIOUS
    <3>3. QED
      BY <3>1, <3>2 DEF Same
  <2>6. PathMul(p, w, v, q) \in 0 .. q - 1 /\ Same(PathMul(p, w, v, q), w * v, q)
    BY <1>4, <2>1, <2>2, ShoupMulReduces DEF PathMul
  <2>7. Same(w + v, x + y, q)
    BY ONLY <1>1, <2>1, <2>2, x \in Int, y \in Int, SameSum
  <2>8. Same(w * v, x * y, q)
    BY ONLY <1>1, <2>1, <2>2, x \in Int, y \in Int, SameProduct
  <2>9. Same(w - v, x - y, q)
    <3>1. PICK i \in Int, j \in Int : w = x + q * i /\ v = y + q * j
      BY <2>1 DEF Same
    <3>2. w - v = (x - y) + q * (i - j)
      BY ONLY <1>1, <3>1, x \in Int, y \in Int, i \in Int, j \in Int
    <3>3. i - j \in Int
      OBVIOUS
    <3>4. QED
      BY <3>2, <3>3 DEF Same
  <2>10. /\ w + v \in Int /\ w - v \in Int /\ w * v \in Int
         /\ AddMod(w, v, q) \in Int /\ SubMod(w, v, q) \in Int /\ PathMul(p, w, v, q) \in Int
    <3>1. w * v \in Int
      BY ONLY <2>2
    <3>2. QED
      BY <1>1, <2>2, <2>3, <2>6, <3>1
  <2>11. Same(AddMod(w, v, q), x + y, q)
    BY ONLY <1>1, <1>2, <2>4, <2>7, <2>10, SameTransitive
  <2>12. Same(SubMod(w, v, q), x - y, q)
    BY ONLY <1>1, <1>2, <2>5, <2>9, <2>10, SameTransitive
  <2>13. Same(PathMul(p, w, v, q), x * y, q)
    BY ONLY <1>1, <1>2, <2>6, <2>8, <2>10, SameTransitive
  <2>14. QED
    BY <1>4, <2>3, <2>6, <2>11, <2>12, <2>13 DEF Means, Reads
<1>5. QED
  BY <1>3, <1>4

\* A word that is lifted means itself; for Shoup multiplication it has to be reduced.
LEMMA LiftMeans ==
  ASSUME NEW q \in Moduli, NEW p, NEW c, NEW j \in Idx, c[j] \in Words,
         p = "shoup" => c[j] \in 0 .. q - 1
  PROVE  Means(p, Lift(p, c, q)[j], c[j], q)
<1>1. q \in Nat /\ Words = 0 .. Word - 1 /\ Word \in Nat
  BY ModulusFacts DEF Words
<1>2. c[j] \in Int /\ c[j] \in 0 .. Word - 1
  BY <1>1
<1>3. ASSUME p # "shoup"
      PROVE  Means(p, Lift(p, c, q)[j], c[j], q)
  <2>1. Lift(p, c, q)[j] = ToMontgomery(c[j], q)
    BY <1>3 DEF Lift
  <2>2. StandsFor(ToMontgomery(c[j], q), c[j], q)
    BY <1>2, ToMontgomeryStands
  <2>3. QED
    BY <1>2, <1>3, <2>1, <2>2, MeansStands
<1>4. ASSUME p = "shoup"
      PROVE  Means(p, Lift(p, c, q)[j], c[j], q)
  <2>1. Lift(p, c, q)[j] = c[j]
    BY <1>4 DEF Lift
  <2>2. Same(c[j], c[j], q)
    BY ONLY <1>1, <1>2, SameReflexive
  <2>3. QED
    BY <1>4, <2>1, <2>2 DEF Means, Reads
<1>5. QED
  BY <1>3, <1>4

\* The factors of the blocks by every path, and that of the last division.
LEMMA TwiddlesMean ==
  ASSUME NEW q \in NttModuli, NEW p
  PROVE  /\ \A k \in 1 .. N - 1 :
              /\ Means(p, IF p = "shoup" THEN Context[q].psiStd[k] ELSE Context[q].psi[k],
                       Constant(2 * k, q), q)
              /\ \E m \in Int :
                   /\ Means(p, IF p = "shoup" THEN Context[q].psiInvStd[k]
                                              ELSE Context[q].psiInv[k], m, q)
                   /\ Same(Constant(2 * k, q) * m, 1, q)
         /\ \E m \in Int :
              /\ Means(p, IF p = "shoup" THEN Context[q].nInvStd ELSE Context[q].nInv, m, q)
              /\ Same(N * m, 1, q)
<1>1. q \in Moduli /\ q \in Nat
  BY RootModulus, ModulusFacts
<1>2. PICK L, M : /\ L = Context[q].psiStd /\ M = Context[q].psiInvStd
                  /\ Context[q].nInvStd \in 0 .. q - 1 /\ Same(N * Context[q].nInvStd, 1, q)
                  /\ StandsFor(Context[q].nInv, Context[q].nInvStd, q)
                  /\ \A k \in 1 .. N - 1 :
                       /\ L[k] \in 0 .. q - 1 /\ M[k] \in 0 .. q - 1
                       /\ Same(L[k] * L[k], SquareOf(L, k), q) /\ Same(L[k] * M[k], 1, q)
                       /\ StandsFor(Context[q].psi[k], L[k], q)
                       /\ StandsFor(Context[q].psiInv[k], M[k], q)
  BY TwiddleFacts
<1>3. ASSUME NEW s \in 0 .. q - 1, NEW w, StandsFor(w, s, q)
      PROVE  s \in Int /\ Means(p, IF p = "shoup" THEN s ELSE w, s, q)
  <2>1. s \in Int
    BY <1>1
  <2>2. ASSUME p = "shoup"
        PROVE  Means(p, IF p = "shoup" THEN s ELSE w, s, q)
    <3>1. Same(s, s, q)
      BY ONLY <1>1, <2>1, SameReflexive
    <3>2. QED
      BY <2>2, <3>1 DEF Means, Reads
  <2>3. ASSUME p # "shoup"
        PROVE  Means(p, IF p = "shoup" THEN s ELSE w, s, q)
    <3>1. Means(p, w, s, q)
      BY <1>1, <1>3, <2>1, <2>3, MeansStands
    <3>2. QED
      BY <2>3, <3>1
  <2>4. QED
    BY <2>1, <2>2, <2>3
<1>4. ASSUME NEW k \in 1 .. N - 1
      PROVE  /\ Means(p, IF p = "shoup" THEN Context[q].psiStd[k] ELSE Context[q].psi[k],
                      Constant(2 * k, q), q)
             /\ \E m \in Int :
                  /\ Means(p, IF p = "shoup" THEN Context[q].psiInvStd[k]
                                             ELSE Context[q].psiInv[k], m, q)
                  /\ Same(Constant(2 * k, q) * m, 1, q)
  <2>1. Constant(2 * k, q) = L[k]
    BY <1>2, ConstantFacts
  <2>2. Means(p, IF p = "shoup" THEN L[k] ELSE Context[q].psi[k], L[k], q)
    BY <1>2, <1>3
  <2>3. M[k] \in Int /\ Means(p, IF p = "shoup" THEN M[k] ELSE Context[q].psiInv[k], M[k], q)
    BY <1>2, <1>3
  <2>4. Same(L[k] * M[k], 1, q)
    BY <1>2
  <2>5. QED
    BY <1>2, <2>1, <2>2, <2>3, <2>4
<1>5. /\ Context[q].nInvStd \in Int
      /\ Means(p, IF p = "shoup" THEN Context[q].nInvStd ELSE Context[q].nInv, Context[q].nInvStd, q)
  BY <1>2, <1>3
<1>6. QED
  BY <1>2, <1>4, <1>5
-----------------------------------------------------------------------------
(* The words of a block                                                    *)

\* Blocks lie in the array.
LEMMA BlockPlace ==
  ASSUME NEW x \in 1 .. 2 * N - 1
  PROVE  /\ First(x) = (x - HighBit(x)) * Length(x) /\ x - HighBit(x) \in Nat
         /\ HighBit(x) \in Nat /\ Length(x) \in Nat /\ Length(x) >= 1
         /\ First(x) \in Nat /\ First(x) + Length(x) <= N
         /\ \A j \in 0 .. Length(x) - 1 : First(x) + j \in Idx
<1>1. N \in Nat /\ Idx = 0 .. N - 1 /\ x \in Nat
  BY Dimension DEF Idx
<1>2. PICK h \in Nat, l \in Nat : h = HighBit(x) /\ l = Length(x) /\ l >= 1 /\ N = h * l /\ h <= x /\ x < 2 * h
  BY LevelOf DEF Level
<1>3. PICK d \in Nat : d = x - h /\ d + 1 <= h
  <2>1. x \in Nat /\ h <= x /\ x < 2 * h
    BY <1>1, <1>2
  <2>2. x - h \in Nat /\ (x - h) + 1 <= h
    BY ONLY <2>1, h \in Nat
  <2>3. QED
    BY <2>2
<1>4. (d + 1) * l <= h * l /\ (d + 1) * l = d * l + l /\ d * l \in Nat
  <2>1. d + 1 \in Nat
    OBVIOUS
  <2>2. (d + 1) * l <= h * l
    BY ONLY <1>3, <2>1, h \in Nat, l \in Nat, ProductGrows
  <2>3. QED
    BY ONLY <2>2, d \in Nat, l \in Nat
<1>5. First(x) = d * l
  BY <1>2, <1>3 DEF First
<1>6. d * l + l <= N
  BY <1>2, <1>4
<1>7. PICK f \in Nat : f = d * l
  BY <1>4
<1>8. \A j \in 0 .. l - 1 : f + j \in Idx
  BY <1>1, <1>6, <1>7
<1>9. QED
  BY <1>2, <1>3, <1>5, <1>6, <1>7, <1>8

\* The words of other blocks of the level, and of blocks of the next one that block k is not
\* split into, are outside of block k.
LEMMA BlocksApart ==
  ASSUME NEW k \in 1 .. N - 1, NEW x \in 1 .. 2 * N - 1,
         \/ HighBit(x) = HighBit(k) /\ x # k
         \/ HighBit(x) = 2 * HighBit(k) /\ x # 2 * k /\ x # 2 * k + 1,
         NEW j \in 0 .. Length(x) - 1
  PROVE  First(x) + j \in Idx /\ First(x) + j \notin LowHalf(k) /\ First(x) + j \notin HighHalf(k)
<1>1. N \in Nat /\ k \in Nat /\ x \in Nat /\ k \in 1 .. 2 * N - 1
  BY Dimension
<1>2. PICK h \in Nat, l \in Nat, d \in Nat :
        /\ h = HighBit(k) /\ Half(k) = l /\ l >= 1 /\ d = k - h /\ Start(k) = d * (2 * l)
        /\ Length(k) = 2 * l /\ N = h * (2 * l)
  <2>1. PICK h, l, d : /\ Level(k, h, 2 * l) /\ h \in Nat /\ l \in Nat /\ l >= 1 /\ d = k - h /\ d \in Nat
                       /\ Half(k) = l /\ Start(k) = d * (2 * l)
    BY LevelBelow
  <2>2. QED
    BY <2>1 DEF Level
<1>3. PICK e \in Nat, m \in Nat : /\ e = x - HighBit(x) /\ m = Length(x) /\ First(x) = e * m
                                 /\ First(x) \in Nat /\ First(x) + j \in Idx
  BY BlockPlace
<1>4. PICK f \in Nat : f = First(x)
  BY <1>3
<1>5. PICK s \in Nat : s = d * (2 * l)
  BY ONLY d \in Nat, l \in Nat
<1>6. f + m <= s \/ s + 2 * l <= f
  <2>1. ASSUME HighBit(x) = HighBit(k), x # k
        PROVE  f + m <= s \/ s + 2 * l <= f
    <3>1. m = 2 * l
      BY <1>2, <1>3, <2>1 DEF Length
    <3>2. e + 1 <= d \/ d + 1 <= e
      BY <1>1, <1>2, <1>3, <2>1
    <3>3. e + 1 \in Nat /\ d + 1 \in Nat /\ 2 * l \in Nat
      OBVIOUS
    <3>4. e + 1 <= d => (e + 1) * (2 * l) <= d * (2 * l)
      BY ONLY <3>3, d \in Nat, ProductGrows
    <3>5. d + 1 <= e => (d + 1) * (2 * l) <= e * (2 * l)
      BY ONLY <3>3, e \in Nat, ProductGrows
    <3>6. (e + 1) * (2 * l) = e * (2 * l) + 2 * l /\ (d + 1) * (2 * l) = d * (2 * l) + 2 * l
      BY ONLY e \in Nat, d \in Nat, l \in Nat
    <3>7. f = e * (2 * l)
      BY <1>3, <1>4, <3>1
    <3>8. QED
      BY <1>5, <3>1, <3>2, <3>4, <3>5, <3>6, <3>7
  <2>2. ASSUME HighBit(x) = 2 * HighBit(k), x # 2 * k, x # 2 * k + 1
        PROVE  f + m <= s \/ s + 2 * l <= f
    <3>1. m = l
      <4>1. h * (2 * l) = (2 * h) * l /\ h >= 1 /\ 2 * h \in Nat \ {0}
        <5>1. h * (2 * l) = (2 * h) * l
          BY ONLY h \in Nat, l \in Nat
        <5>2. h \in Nat /\ h >= 1
          <6>1. PICK g \in Nat : Level(k, g, Length(k))
            BY <1>1, LevelOf DEF Level
          <6>2. QED
            BY <1>2, <6>1 DEF Level
        <5>3. QED
          BY <5>1, <5>2
      <4>2. N = (2 * h) * l + 0
        BY <1>2, <4>1
      <4>3. N \div (2 * h) = l
        BY <1>1, <4>1, <4>2, DivModUnique
      <4>4. QED
        BY <1>2, <1>3, <2>2, <4>3 DEF Length
    <3>2. e + 1 <= 2 * d \/ 2 * d + 2 <= e
      BY <1>1, <1>2, <1>3, <2>2
    <3>3. e + 1 \in Nat /\ 2 * d \in Nat /\ 2 * d + 2 \in Nat
      OBVIOUS
    <3>4. e + 1 <= 2 * d => (e + 1) * l <= (2 * d) * l
      BY ONLY <3>3, l \in Nat, ProductGrows
    <3>5. 2 * d + 2 <= e => (2 * d + 2) * l <= e * l
      BY ONLY <3>3, e \in Nat, l \in Nat, ProductGrows
    <3>6. (e + 1) * l = e * l + l /\ (2 * d) * l = d * (2 * l) /\ (2 * d + 2) * l = d * (2 * l) + 2 * l
      BY ONLY e \in Nat, d \in Nat, l \in Nat
    <3>7. f = e * l
      BY <1>3, <1>4, <3>1
    <3>8. QED
      BY <1>5, <3>1, <3>2, <3>4, <3>5, <3>6, <3>7
  <2>3. QED
    BY <2>1, <2>2
<1>7. PICK g \in Nat : g = f + j /\ (g < s \/ s + 2 * l <= g)
  <2>1. j \in 0 .. m - 1
    BY <1>3
  <2>2. QED
    BY <1>6, <2>1
<1>8. LowHalf(k) = s .. s + l - 1 /\ HighHalf(k) = s + l .. s + 2 * l - 1
  BY <1>2, <1>5 DEF LowHalf, HighHalf
<1>9. g \notin s .. s + l - 1 /\ g \notin s + l .. s + 2 * l - 1
  BY <1>7
<1>10. QED
  BY <1>3, <1>4, <1>7, <1>8, <1>9

\* The blocks that are waiting while block k is split are apart from it.
LEMMA LevelsApart ==
  ASSUME NEW k \in 1 .. N - 1
  PROVE  /\ \A x \in HighBit(k) .. 2 * HighBit(k) - 1 : x \in 1 .. N - 1 /\ HighBit(x) = HighBit(k)
         /\ \A x \in 2 * HighBit(k) .. 4 * HighBit(k) - 1 :
              x \in 1 .. 2 * N - 1 /\ HighBit(x) = 2 * HighBit(k)
         /\ HighBit(k) \in Nat /\ HighBit(k) >= 1 /\ HighBit(k) <= k /\ k < 2 * HighBit(k)
         /\ 4 * HighBit(k) <= 2 * N
<1>1. N \in Nat /\ k \in Nat
  BY Dimension
<1>2. PICK h \in Nat, l \in Nat : /\ h = HighBit(k) /\ h \in PowersOfTwo /\ h >= 1 /\ l >= 1
                                 /\ N = h * (2 * l) /\ h <= k /\ k < 2 * h
  <2>1. PICK h, l : Level(k, h, 2 * l) /\ h \in Nat /\ l \in Nat /\ l >= 1
    BY LevelBelow
  <2>2. QED
    BY <2>1 DEF Level
<1>3. 2 * h <= N
  <2>1. h * (2 * l) = l * (2 * h) /\ 1 * (2 * h) = 2 * h
    BY ONLY h \in Nat, l \in Nat
  <2>2. 1 * (2 * h) <= l * (2 * h)
    <3>1. 2 * h \in Nat /\ 1 \in Nat
      OBVIOUS
    <3>2. QED
      BY ONLY <1>2, <3>1, l \in Nat, ProductGrows
  <2>3. QED
    BY <1>2, <2>1, <2>2
<1>4. 2 * h \in PowersOfTwo
  <2>1. h < N
    BY <1>1, <1>2, <1>3
  <2>2. QED
    BY <1>2, <2>1, DoubledPower
<1>5. ASSUME NEW x \in h .. 2 * h - 1
      PROVE  x \in 1 .. N - 1 /\ HighBit(x) = h
  <2>1. x \in Nat /\ h <= x /\ x < 2 * h /\ x \in 1 .. N - 1
    BY <1>1, <1>2, <1>3
  <2>2. QED
    BY <1>2, <2>1, HighBitIs
<1>6. ASSUME NEW x \in 2 * h .. 4 * h - 1
      PROVE  x \in 1 .. 2 * N - 1 /\ HighBit(x) = 2 * h
  <2>1. x \in Nat /\ 2 * h <= x /\ x < 2 * (2 * h) /\ x \in 1 .. 2 * N - 1
    BY <1>1, <1>2, <1>3
  <2>2. QED
    BY <1>4, <2>1, HighBitIs
<1>7. QED
  BY <1>2, <1>3, <1>5, <1>6

\* By path p the words of block k mean the remainders of a, t times.
BlockHolds(p, c, k, a, t, q) ==
  \A j \in 0 .. Length(k) - 1 : Means(p, c[First(k) + j], t * Remainder(a, j, k, q), q)

\* An iteration on block k leaves what is elsewhere.
LEMMA HoldsElsewhere ==
  ASSUME NEW k \in 1 .. N - 1, NEW x \in 1 .. 2 * N - 1,
         \/ HighBit(x) = HighBit(k) /\ x # k
         \/ HighBit(x) = 2 * HighBit(k) /\ x # 2 * k /\ x # 2 * k + 1,
         NEW p, NEW c, NEW d, \A i \in Idx : i \notin LowHalf(k) /\ i \notin HighHalf(k) => d[i] = c[i],
         NEW a, NEW t, NEW q, BlockHolds(p, c, x, a, t, q)
  PROVE  BlockHolds(p, d, x, a, t, q)
<1>1. ASSUME NEW j \in 0 .. Length(x) - 1
      PROVE  Means(p, d[First(x) + j], t * Remainder(a, j, x, q), q)
  <2>1. First(x) + j \in Idx /\ First(x) + j \notin LowHalf(k) /\ First(x) + j \notin HighHalf(k)
    BY BlocksApart
  <2>2. d[First(x) + j] = c[First(x) + j]
    BY <2>1
  <2>3. QED
    BY <2>2 DEF BlockHolds
<1>2. QED
  BY <1>1 DEF BlockHolds

\* The halves of block k have l words each, from word s on.
HalvesAt(k, s, l) ==
  /\ l >= 1 /\ Half(k) = l /\ First(k) = s /\ Length(k) = 2 * l
  /\ First(2 * k) = s /\ Length(2 * k) = l /\ First(2 * k + 1) = s + l /\ Length(2 * k + 1) = l
  /\ \A j \in 0 .. l - 1 :
       /\ s + j \in LowHalf(k) /\ s + j \in Idx /\ s + j \notin HighHalf(k)
       /\ (s + l) + j \in HighHalf(k) /\ (s + l) + j \in Idx /\ (s + l) + j \notin LowHalf(k)
       /\ (s + j) + l = (s + l) + j /\ ((s + l) + j) - l = s + j
       /\ s + (j + l) = (s + l) + j

\* Where the halves of a block are, and the blocks that it is split into.
LEMMA HalfPlaces ==
  ASSUME NEW k \in 1 .. N - 1
  PROVE  \E s \in Nat, l \in Nat : HalvesAt(k, s, l)
<1>1. N \in Nat /\ Idx = 0 .. N - 1
  BY Dimension DEF Idx
<1>2. PICK h, l, d :
           /\ Level(k, h, 2 * l) /\ Level(2 * k, 2 * h, l) /\ Level(2 * k + 1, 2 * h, l)
           /\ l \in Nat /\ l >= 1
           /\ Half(k) = l /\ Start(k) = d * (2 * l) /\ First(k) = d * (2 * l)
           /\ First(2 * k) = d * (2 * l) /\ First(2 * k + 1) = d * (2 * l) + l
           /\ d * (2 * l) \in Nat /\ d * (2 * l) + 2 * l <= N
  BY LevelBelow
<1>3. PICK s \in Nat : s = d * (2 * l)
  BY <1>2
<1>4. Length(k) = 2 * l /\ Length(2 * k) = l /\ Length(2 * k + 1) = l
  BY <1>2 DEF Level
<1>5. LowHalf(k) = s .. s + l - 1 /\ HighHalf(k) = s + l .. s + 2 * l - 1
  BY <1>2, <1>3 DEF LowHalf, HighHalf
<1>6. l \in Nat /\ l >= 1 /\ s + 2 * l <= N
  BY <1>2, <1>3
<1>7. ASSUME NEW j \in 0 .. l - 1
      PROVE  /\ s + j \in s .. s + l - 1 /\ s + j \in 0 .. N - 1 /\ s + j \notin s + l .. s + 2 * l - 1
             /\ (s + l) + j \in s + l .. s + 2 * l - 1 /\ (s + l) + j \in 0 .. N - 1
             /\ (s + l) + j \notin s .. s + l - 1
             /\ (s + j) + l = (s + l) + j /\ ((s + l) + j) - l = s + j
             /\ s + (j + l) = (s + l) + j
  BY ONLY <1>1, <1>6, s \in Nat, j \in 0 .. l - 1
<1>8. \A j \in 0 .. l - 1 :
        /\ s + j \in LowHalf(k) /\ s + j \in Idx /\ s + j \notin HighHalf(k)
        /\ (s + l) + j \in HighHalf(k) /\ (s + l) + j \in Idx /\ (s + l) + j \notin LowHalf(k)
        /\ (s + j) + l = (s + l) + j /\ ((s + l) + j) - l = s + j
        /\ s + (j + l) = (s + l) + j
  BY <1>1, <1>5, <1>7
<1>9. HalvesAt(k, s, l)
  BY ONLY <1>2, <1>3, <1>4, <1>6, <1>8 DEF HalvesAt
<1>10. QED
  BY <1>6, <1>9

\* Products are reduced, by every path.
LEMMA PathReduces ==
  ASSUME NEW q \in Moduli, NEW p \in Paths(q), NEW w \in 0 .. q - 1, NEW v \in 0 .. q - 1
  PROVE  PathMul(p, w, v, q) \in 0 .. q - 1
<1>1. q \in Nat
  BY ModulusFacts
<1>2. PICK x \in Int, y \in Int : Means(p, w, x, q) /\ Means(p, v, y, q)
  <2>1. Reads(p, w, q) \in 0 .. q - 1 /\ Means(p, w, Reads(p, w, q), q)
    BY ReadsReduced
  <2>2. Reads(p, v, q) \in 0 .. q - 1 /\ Means(p, v, Reads(p, v, q), q)
    BY ReadsReduced
  <2>3. QED
    BY <1>1, <2>1, <2>2
<1>3. Means(p, PathMul(p, w, v, q), x * y, q)
  BY <1>2, MeansCombined
<1>4. QED
  BY <1>3 DEF Means

\* Remainders are reduced.
LEMMA RemainderReduced ==
  ASSUME NEW q \in NttModuli, NEW a, \A i \in Idx : a[i] \in Nat,
         NEW k \in 1 .. 2 * N - 1, NEW j \in 0 .. Length(k) - 1
  PROVE  Remainder(a, j, k, q) \in 0 .. q - 1 /\ Remainder(a, j, k, q) \in Int
<1>1. q \in Nat
  BY RootModulus, ModulusFacts
<1>2. Remainder(a, j, k, q) \in 0 .. q - 1
  BY RemainderSum
<1>3. QED
  BY <1>1, <1>2

\* An iteration going forward splits block k, and leaves the others and reduced words.
LEMMA ForwardSplits ==
  ASSUME NEW q \in NttModuli, NEW p \in Paths(q), NEW k \in 1 .. N - 1, NEW c \in Arrays(q),
         NEW a, \A i \in Idx : a[i] \in Nat
  PROVE  /\ ForwardBlock(p, c, k, q) \in Arrays(q)
         /\ \A i \in Idx : i \notin LowHalf(k) /\ i \notin HighHalf(k) => ForwardBlock(p, c, k, q)[i] = c[i]
         /\ BlockHolds(p, c, k, a, 1, q) => /\ BlockHolds(p, ForwardBlock(p, c, k, q), 2 * k, a, 1, q)
                                            /\ BlockHolds(p, ForwardBlock(p, c, k, q), 2 * k + 1, a, 1, q)
<1>1. q \in Moduli /\ q \in Nat \ {0} /\ q \in Nat /\ N \in Nat /\ k \in 1 .. 2 * N - 1
  BY RootModulus, ModulusFacts, Dimension
<1>2. PICK w, z \in Int : /\ w = IF p = "shoup" THEN Context[q].psiStd[k] ELSE Context[q].psi[k]
                          /\ z = Constant(2 * k, q) /\ Means(p, w, z, q) /\ w \in 0 .. q - 1
  <2>1. 2 * k \in 1 .. 2 * N - 1
    BY <1>1
  <2>2. Constant(2 * k, q) \in 0 .. q - 1
    BY <2>1, ConstantFacts
  <2>3. Constant(2 * k, q) \in Int
    BY <1>1, <2>2
  <2>4. Means(p, IF p = "shoup" THEN Context[q].psiStd[k] ELSE Context[q].psi[k], Constant(2 * k, q), q)
    BY TwiddlesMean
  <2>5. QED
    BY <2>3, <2>4 DEF Means
<1>3. PICK v : v = [j \in HighHalf(k) |-> PathMul(p, c[j], w, q)]
  OBVIOUS
<1>4. PICK d : d = ForwardBlock(p, c, k, q) /\ d = SumAndDifference(c, v, k, q)
  BY <1>2, <1>3 DEF ForwardBlock
<1>5. PICK s \in Nat, l \in Nat :
           /\ l >= 1 /\ Half(k) = l /\ First(k) = s /\ Length(k) = 2 * l
           /\ First(2 * k) = s /\ Length(2 * k) = l /\ First(2 * k + 1) = s + l /\ Length(2 * k + 1) = l
           /\ \A j \in 0 .. l - 1 :
                /\ s + j \in LowHalf(k) /\ s + j \in Idx /\ s + j \notin HighHalf(k)
                /\ (s + l) + j \in HighHalf(k) /\ (s + l) + j \in Idx /\ (s + l) + j \notin LowHalf(k)
                /\ (s + j) + l = (s + l) + j /\ ((s + l) + j) - l = s + j
                /\ s + (j + l) = (s + l) + j
  BY HalfPlaces, Zenon DEF HalvesAt
<1>6. d \in Arrays(q)
  <2>1. \A j \in HighHalf(k) : v[j] \in 0 .. q - 1
    <3>1. ASSUME NEW j \in HighHalf(k)
          PROVE  v[j] \in 0 .. q - 1
      <4>1. j \in Idx
        BY Halves
      <4>2. c[j] \in 0 .. q - 1
        BY <4>1 DEF Arrays
      <4>3. QED
        BY <1>1, <1>2, <1>3, <4>2, PathReduces
    <3>2. QED
      BY <3>1
  <2>2. c \in [Idx -> 0 .. q - 1]
    BY DEF Arrays
  <2>3. SumAndDifference(c, v, k, q) \in [Idx -> 0 .. q - 1]
    BY <1>1, <2>1, <2>2, HalvesReduced
  <2>4. QED
    BY <1>4, <2>3 DEF Arrays
<1>7. \A i \in Idx : i \notin LowHalf(k) /\ i \notin HighHalf(k) => d[i] = c[i]
  BY <1>4 DEF SumAndDifference
<1>8. ASSUME BlockHolds(p, c, k, a, 1, q), NEW j \in 0 .. l - 1
      PROVE  /\ Means(p, d[s + j], 1 * Remainder(a, j, 2 * k, q), q)
             /\ Means(p, d[(s + l) + j], 1 * Remainder(a, j, 2 * k + 1, q), q)
  <2>1. j \in 0 .. Length(k) - 1 /\ j + l \in 0 .. Length(k) - 1 /\ j \in 0 .. Half(k) - 1
    BY <1>5
  <2>2. d[s + j] = AddMod(c[s + j], v[(s + l) + j], q)
    BY <1>4, <1>5 DEF SumAndDifference
  <2>3. d[(s + l) + j] = SubMod(c[s + j], v[(s + l) + j], q)
    BY <1>4, <1>5 DEF SumAndDifference
  <2>4. v[(s + l) + j] = PathMul(p, c[(s + l) + j], w, q)
    BY <1>3, <1>5
  <2>5. PICK x \in Int, y \in Int : x = Remainder(a, j, k, q) /\ y = Remainder(a, j + l, k, q)
    BY <1>1, <2>1, RemainderReduced
  <2>6. Means(p, c[s + j], x, q) /\ Means(p, c[(s + l) + j], y, q)
    <3>1. 1 * x = x /\ 1 * y = y
      OBVIOUS
    <3>2. Means(p, c[First(k) + j], 1 * x, q) /\ Means(p, c[First(k) + (j + l)], 1 * y, q)
      BY <1>8, <2>1, <2>5 DEF BlockHolds
    <3>3. QED
      BY <1>5, <3>1, <3>2
  <2>7. PICK u \in Int : u = y * z
    OBVIOUS
  <2>8. Means(p, v[(s + l) + j], u, q)
    BY <1>1, <1>2, <2>4, <2>6, <2>7, MeansCombined
  <2>9. Means(p, d[s + j], x + u, q) /\ Means(p, d[(s + l) + j], x - u, q)
    BY <1>1, <2>2, <2>3, <2>6, <2>8, MeansCombined
  <2>10. PICK e \in Int, f \in Int, r \in Int :
           /\ e = Remainder(a, j, 2 * k, q) /\ f = Remainder(a, j, 2 * k + 1, q) /\ r = Constant(2 * k + 1, q)
           /\ Same(e, x + z * y, q) /\ Same(f, x + r * y, q) /\ Same(r, -z, q)
    <3>1. 2 * k \in 1 .. 2 * N - 1 /\ 2 * k + 1 \in 1 .. 2 * N - 1
      BY <1>1
    <3>2. j \in 0 .. Length(2 * k) - 1 /\ j \in 0 .. Length(2 * k + 1) - 1
      BY <1>5
    <3>3. Remainder(a, j, 2 * k, q) \in Int
      BY <3>1, <3>2, RemainderReduced
    <3>4. Remainder(a, j, 2 * k + 1, q) \in Int
      BY <3>1, <3>2, RemainderReduced
    <3>5. Same(Remainder(a, j, 2 * k, q), Remainder(a, j, k, q) + Constant(2 * k, q) * Remainder(a, j + Half(k), k, q), q)
      BY <2>1, RemainderSplit
    <3>6. Same(Remainder(a, j, 2 * k + 1, q), Remainder(a, j, k, q) + Constant(2 * k + 1, q) * Remainder(a, j + Half(k), k, q), q)
      BY <2>1, RemainderSplit
    <3>7. Constant(2 * k + 1, q) \in 0 .. q - 1
      BY <3>1, ConstantFacts
    <3>8. Constant(2 * k + 1, q) \in Int
      BY <1>1, <3>7
    <3>9. Same(Constant(2 * k + 1, q), -Constant(2 * k, q), q)
      BY ConstantFacts
    <3>10. QED
      BY <1>2, <1>5, <2>5, <3>3, <3>4, <3>5, <3>6, <3>8, <3>9
  <2>11. Same(x + u, e, q)
    <3>1. z * y = u
      BY <2>7
    <3>2. x + u \in Int /\ Same(e, x + u, q)
      <4>1. x + u \in Int
        OBVIOUS
      <4>2. QED
        BY ONLY <2>10, <3>1, <4>1
    <3>3. QED
      BY ONLY <1>1, <3>2, e \in Int, SameSymmetric
  <2>12. Same(x - u, f, q)
    <3>1. PICK g \in Int : g = r * y
      OBVIOUS
    <3>2. Same(g, -u, q)
      <4>1. -z \in Int
        OBVIOUS
      <4>2. Same(y, y, q)
        BY ONLY <1>1, y \in Int, SameReflexive
      <4>3. Same(r * y, (-z) * y, q)
        BY ONLY <1>1, <2>10, <4>1, <4>2, r \in Int, y \in Int, SameProduct
      <4>4. (-z) * y = -(y * z)
        BY ONLY y \in Int, z \in Int
      <4>5. QED
        BY <2>7, <3>1, <4>3, <4>4
    <3>3. Same(x + g, x + (-u), q)
      <4>1. Same(x, x, q)
        BY ONLY <1>1, x \in Int, SameReflexive
      <4>2. -u \in Int
        OBVIOUS
      <4>3. QED
        BY ONLY <1>1, <3>2, <4>1, <4>2, x \in Int, g \in Int, SameSum
    <3>4. x + (-u) = x - u /\ x - u \in Int /\ x + g \in Int
      OBVIOUS
    <3>5. Same(f, x + g, q)
      BY <2>10, <3>1
    <3>6. Same(f, x - u, q)
      BY ONLY <1>1, <3>3, <3>4, <3>5, f \in Int, SameTransitive
    <3>7. QED
      BY ONLY <1>1, <3>4, <3>6, f \in Int, SameSymmetric
  <2>13. x + u \in Int /\ x - u \in Int /\ 1 * e = e /\ 1 * f = f
    OBVIOUS
  <2>14. Means(p, d[s + j], e, q)
    BY <1>1, <2>9, <2>11, <2>13, MeansSame
  <2>15. Means(p, d[(s + l) + j], f, q)
    BY <1>1, <2>9, <2>12, <2>13, MeansSame
  <2>16. QED
    BY <2>10, <2>13, <2>14, <2>15
<1>9. QED
  BY <1>4, <1>5, <1>6, <1>7, <1>8 DEF BlockHolds

\* An iteration going back joins the two blocks that block k was split into.
LEMMA InverseJoins ==
  ASSUME NEW q \in NttModuli, NEW p \in Paths(q), NEW k \in 1 .. N - 1, NEW c \in Arrays(q),
         NEW a, \A i \in Idx : a[i] \in Nat, NEW t \in Nat
  PROVE  /\ InverseBlock(p, c, k, q) \in Arrays(q)
         /\ \A i \in Idx : i \notin LowHalf(k) /\ i \notin HighHalf(k) => InverseBlock(p, c, k, q)[i] = c[i]
         /\ BlockHolds(p, c, 2 * k, a, t, q) /\ BlockHolds(p, c, 2 * k + 1, a, t, q)
              => BlockHolds(p, InverseBlock(p, c, k, q), k, a, 2 * t, q)
<1>1. q \in Moduli /\ q \in Nat \ {0} /\ q \in Nat /\ N \in Nat /\ k \in 1 .. 2 * N - 1
  BY RootModulus, ModulusFacts, Dimension
<1>2. PICK w, m \in Int : /\ w = IF p = "shoup" THEN Context[q].psiInvStd[k] ELSE Context[q].psiInv[k]
                          /\ Means(p, w, m, q) /\ Same(Constant(2 * k, q) * m, 1, q) /\ w \in 0 .. q - 1
  <2>1. \E m \in Int :
          /\ Means(p, IF p = "shoup" THEN Context[q].psiInvStd[k] ELSE Context[q].psiInv[k], m, q)
          /\ Same(Constant(2 * k, q) * m, 1, q)
    BY TwiddlesMean
  <2>2. QED
    BY <2>1 DEF Means
<1>3. PICK v : v = SumAndDifference(c, c, k, q)
  OBVIOUS
<1>4. PICK d : d = InverseBlock(p, c, k, q)
               /\ d = [j \in Idx |-> IF j \in HighHalf(k) THEN PathMul(p, v[j], w, q) ELSE v[j]]
  BY <1>2, <1>3 DEF InverseBlock
<1>5. PICK s \in Nat, l \in Nat :
           /\ l >= 1 /\ Half(k) = l /\ First(k) = s /\ Length(k) = 2 * l
           /\ First(2 * k) = s /\ Length(2 * k) = l /\ First(2 * k + 1) = s + l /\ Length(2 * k + 1) = l
           /\ \A j \in 0 .. l - 1 :
                /\ s + j \in LowHalf(k) /\ s + j \in Idx /\ s + j \notin HighHalf(k)
                /\ (s + l) + j \in HighHalf(k) /\ (s + l) + j \in Idx /\ (s + l) + j \notin LowHalf(k)
                /\ (s + j) + l = (s + l) + j /\ ((s + l) + j) - l = s + j
                /\ s + (j + l) = (s + l) + j
  BY HalfPlaces, Zenon DEF HalvesAt
<1>6. d \in Arrays(q)
  <2>1. c \in [Idx -> 0 .. q - 1]
    BY DEF Arrays
  <2>2. \A j \in HighHalf(k) : c[j] \in 0 .. q - 1
    BY <2>1, Halves
  <2>3. v \in [Idx -> 0 .. q - 1]
    BY <1>1, <1>3, <2>1, <2>2, HalvesReduced
  <2>4. ASSUME NEW j \in Idx
        PROVE  (IF j \in HighHalf(k) THEN PathMul(p, v[j], w, q) ELSE v[j]) \in 0 .. q - 1
    <3>1. v[j] \in 0 .. q - 1
      BY <2>3
    <3>2. PathMul(p, v[j], w, q) \in 0 .. q - 1
      BY <1>1, <1>2, <3>1, PathReduces
    <3>3. QED
      BY <3>1, <3>2
  <2>5. QED
    BY <1>4, <2>4 DEF Arrays
<1>7. \A i \in Idx : i \notin LowHalf(k) /\ i \notin HighHalf(k) => d[i] = c[i]
  BY <1>3, <1>4 DEF SumAndDifference
<1>8. ASSUME BlockHolds(p, c, 2 * k, a, t, q), BlockHolds(p, c, 2 * k + 1, a, t, q),
             NEW j \in 0 .. l - 1
      PROVE  /\ Means(p, d[s + j], (2 * t) * Remainder(a, j, k, q), q)
             /\ Means(p, d[(s + l) + j], (2 * t) * Remainder(a, j + l, k, q), q)
  <2>1. j \in 0 .. Length(k) - 1 /\ j + l \in 0 .. Length(k) - 1 /\ j \in 0 .. Half(k) - 1
    BY <1>5
  <2>2. d[s + j] = AddMod(c[s + j], c[(s + l) + j], q)
    <3>1. d[s + j] = v[s + j]
      BY <1>4, <1>5
    <3>2. v[s + j] = AddMod(c[s + j], c[(s + l) + j], q)
      BY <1>3, <1>5 DEF SumAndDifference
    <3>3. QED
      BY <3>1, <3>2
  <2>3. d[(s + l) + j] = PathMul(p, SubMod(c[s + j], c[(s + l) + j], q), w, q)
    <3>1. d[(s + l) + j] = PathMul(p, v[(s + l) + j], w, q)
      BY <1>4, <1>5
    <3>2. v[(s + l) + j] = SubMod(c[s + j], c[(s + l) + j], q)
      BY <1>3, <1>5 DEF SumAndDifference
    <3>3. QED
      BY <3>1, <3>2
  <2>4. PICK x \in Int, y \in Int : x = Remainder(a, j, k, q) /\ y = Remainder(a, j + l, k, q)
    BY <1>1, <2>1, RemainderReduced
  <2>5. PICK e \in Int, f \in Int, r \in Int, z \in Int :
           /\ e = Remainder(a, j, 2 * k, q) /\ f = Remainder(a, j, 2 * k + 1, q)
           /\ r = Constant(2 * k + 1, q) /\ z = Constant(2 * k, q)
           /\ Same(e, x + z * y, q) /\ Same(f, x + r * y, q) /\ Same(r, -z, q)
    <3>1. 2 * k \in 1 .. 2 * N - 1 /\ 2 * k + 1 \in 1 .. 2 * N - 1
      BY <1>1
    <3>2. j \in 0 .. Length(2 * k) - 1 /\ j \in 0 .. Length(2 * k + 1) - 1
      BY <1>5
    <3>3. Remainder(a, j, 2 * k, q) \in Int
      BY <3>1, <3>2, RemainderReduced
    <3>4. Remainder(a, j, 2 * k + 1, q) \in Int
      BY <3>1, <3>2, RemainderReduced
    <3>5. Same(Remainder(a, j, 2 * k, q), Remainder(a, j, k, q) + Constant(2 * k, q) * Remainder(a, j + Half(k), k, q), q)
      BY <2>1, RemainderSplit
    <3>6. Same(Remainder(a, j, 2 * k + 1, q), Remainder(a, j, k, q) + Constant(2 * k + 1, q) * Remainder(a, j + Half(k), k, q), q)
      BY <2>1, RemainderSplit
    <3>7. Constant(2 * k + 1, q) \in 0 .. q - 1 /\ Constant(2 * k, q) \in 0 .. q - 1
      BY <3>1, ConstantFacts
    <3>8. Constant(2 * k + 1, q) \in Int /\ Constant(2 * k, q) \in Int
      BY <1>1, <3>7
    <3>9. Same(Constant(2 * k + 1, q), -Constant(2 * k, q), q)
      BY ConstantFacts
    <3>10. QED
      BY <1>5, <2>4, <3>3, <3>4, <3>5, <3>6, <3>8, <3>9
  <2>6. PICK g \in Int, i \in Int : g = t * e /\ i = t * f
    OBVIOUS
  <2>7. Means(p, c[s + j], g, q) /\ Means(p, c[(s + l) + j], i, q)
    BY <1>5, <1>8, <2>5, <2>6 DEF BlockHolds
  <2>8. Means(p, d[s + j], g + i, q)
    BY <1>1, <2>2, <2>7, MeansCombined
  <2>9. Means(p, d[(s + l) + j], (g - i) * m, q)
    <3>1. Means(p, SubMod(c[s + j], c[(s + l) + j], q), g - i, q)
      BY <1>1, <2>7, MeansCombined
    <3>2. g - i \in Int
      OBVIOUS
    <3>3. QED
      BY <1>1, <1>2, <2>3, <3>1, <3>2, MeansCombined
  <2>10. Same(z * m, 1, q) /\ t \in Int
    BY <1>2, <2>5
  <2>11. Same(g + i, (2 * t) * x, q) /\ Same((g - i) * m, (2 * t) * y, q)
    BY <1>1, <2>5, <2>6, <2>10, JoinedResidues
  <2>12. PICK b \in Int : b = 2 * t
    OBVIOUS
  <2>13. g + i \in Int /\ (g - i) * m \in Int /\ b * x \in Int /\ b * y \in Int
    OBVIOUS
  <2>14. Means(p, d[s + j], b * x, q)
    BY <1>1, <2>8, <2>11, <2>12, <2>13, MeansSame
  <2>15. Means(p, d[(s + l) + j], b * y, q)
    BY <1>1, <2>9, <2>11, <2>12, <2>13, MeansSame
  <2>16. QED
    BY <2>4, <2>12, <2>14, <2>15
<1>9. ASSUME BlockHolds(p, c, 2 * k, a, t, q), BlockHolds(p, c, 2 * k + 1, a, t, q),
             NEW i \in 0 .. Length(k) - 1
      PROVE  Means(p, d[First(k) + i], (2 * t) * Remainder(a, i, k, q), q)
  <2>1. CASE i \in 0 .. l - 1
    BY <1>5, <1>8, <1>9, <2>1
  <2>2. CASE i \notin 0 .. l - 1
    <3>1. PICK j \in 0 .. l - 1 : i = j + l
      <4>1. i - l \in 0 .. l - 1 /\ i = (i - l) + l
        BY <1>5, <2>2
      <4>2. QED
        BY <4>1
    <3>2. Means(p, d[(s + l) + j], (2 * t) * Remainder(a, j + l, k, q), q)
      BY <1>8, <1>9
    <3>3. First(k) + i = (s + l) + j
      BY <1>5, <3>1
    <3>4. QED
      BY <3>1, <3>2, <3>3
  <2>3. QED
    BY <2>1, <2>2
<1>10. QED
  BY <1>4, <1>6, <1>7, <1>9 DEF BlockHolds
-----------------------------------------------------------------------------
(* The loops                                                               *)

\* The arrays hold remainders from block k to the words, which are the blocks 2k - 1 and
\* below: once each going forward, and as often as they have words going back.
ForwardHolds(p, c, k, a, q) == \A x \in k .. 2 * k - 1 : BlockHolds(p, c, x, a, 1, q)
InverseHolds(p, c, k, a, q) == \A x \in k .. 2 * k - 1 : BlockHolds(p, c, x, a, Length(x), q)

\* What is lifted holds its own remainders.
LEMMA LiftHolds ==
  ASSUME NEW q \in NttModuli, NEW p \in Paths(q), NEW c, \A j \in Idx : c[j] \in Words,
         p = "shoup" => \A j \in Idx : c[j] \in 0 .. q - 1
  PROVE  Lift(p, c, q) \in Arrays(q) /\ ForwardHolds(p, Lift(p, c, q), 1, c, q)
<1>1. /\ q \in Moduli /\ q \in Nat \ {0} /\ q \in Nat /\ N \in Nat /\ N >= 2
      /\ 1 \in 1 .. 2 * N - 1 /\ Idx = 0 .. N - 1 /\ Words = 0 .. Word - 1 /\ Word \in Nat
  BY RootModulus, ModulusFacts, Dimension DEF Idx, Words
<1>2. ASSUME NEW j \in Idx
      PROVE  /\ c[j] \in Nat /\ Lift(p, c, q)[j] \in 0 .. q - 1
             /\ Means(p, Lift(p, c, q)[j], c[j], q)
  <2>1. c[j] \in Words /\ (p = "shoup" => c[j] \in 0 .. q - 1)
    OBVIOUS
  <2>2. Means(p, Lift(p, c, q)[j], c[j], q)
    BY <1>1, <2>1, LiftMeans
  <2>3. QED
    BY <1>1, <2>1, <2>2 DEF Means
<1>3. Lift(p, c, q) \in Arrays(q)
  <2>1. Lift(p, c, q) = [j \in Idx |-> IF p = "shoup" THEN c[j] ELSE ToMontgomery(c[j], q)]
    BY DEF Lift
  <2>2. \A j \in Idx : Lift(p, c, q)[j] \in 0 .. q - 1
    BY <1>2
  <2>3. \A j \in Idx : (IF p = "shoup" THEN c[j] ELSE ToMontgomery(c[j], q)) \in 0 .. q - 1
    BY <2>1, <2>2
  <2>4. QED
    BY <2>1, <2>3 DEF Arrays
<1>4. ASSUME NEW j \in 0 .. Length(1) - 1
      PROVE  Means(p, Lift(p, c, q)[First(1) + j], 1 * Remainder(c, j, 1, q), q)
  <2>1. 0 \in Idx
    BY <1>1
  <2>2. Length(1) = N /\ First(1) = 0
    BY <1>2, <2>1, RemainderAtRoot
  <2>3. j \in Idx /\ 0 + j = j
    BY <1>1, <2>2
  <2>4. Remainder(c, j, 1, q) = c[j] % q
    BY <1>2, <2>3, RemainderAtRoot
  <2>5. PICK x \in Nat : x = c[j]
    BY <1>2, <2>3
  <2>6. x % q \in Int /\ Same(x % q, x, q) /\ x \in Int
    <3>1. x % q \in Nat /\ Same(x % q, x, q)
      BY ONLY <1>1, x \in Nat, ResidueOf
    <3>2. QED
      BY <3>1
  <2>7. Same(x, x % q, q)
    BY ONLY <1>1, <2>6, SameSymmetric
  <2>8. 1 * (x % q) = x % q
    BY ONLY <2>6
  <2>9. Means(p, Lift(p, c, q)[j], x, q)
    BY <1>2, <2>3, <2>5
  <2>10. Means(p, Lift(p, c, q)[j], x % q, q)
    BY <1>1, <2>6, <2>7, <2>9, MeansSame
  <2>11. QED
    BY <2>2, <2>3, <2>4, <2>5, <2>8, <2>10
<1>5. \A x \in 1 .. 2 * 1 - 1 : x = 1
  OBVIOUS
<1>6. QED
  BY <1>3, <1>4, <1>5 DEF ForwardHolds, BlockHolds

\* Going forward, an iteration on block k makes the next ones ready.
LEMMA ForwardAdvances ==
  ASSUME NEW q \in NttModuli, NEW p \in Paths(q), NEW k \in 1 .. N - 1, NEW c \in Arrays(q),
         NEW a, \A i \in Idx : a[i] \in Nat, ForwardHolds(p, c, k, a, q)
  PROVE  /\ ForwardBlock(p, c, k, q) \in Arrays(q)
         /\ ForwardHolds(p, ForwardBlock(p, c, k, q), k + 1, a, q)
<1>1. N \in Nat /\ k \in Nat /\ k >= 1
  BY Dimension
<1>2. PICK d : d = ForwardBlock(p, c, k, q)
  OBVIOUS
<1>3. BlockHolds(p, c, k, a, 1, q)
  <2>1. k \in k .. 2 * k - 1
    BY <1>1
  <2>2. QED
    BY <2>1 DEF ForwardHolds
<1>4. /\ d \in Arrays(q) /\ BlockHolds(p, d, 2 * k, a, 1, q) /\ BlockHolds(p, d, 2 * k + 1, a, 1, q)
      /\ \A i \in Idx : i \notin LowHalf(k) /\ i \notin HighHalf(k) => d[i] = c[i]
  BY <1>2, <1>3, ForwardSplits
<1>5. PICK h \in Nat : /\ h = HighBit(k) /\ h <= k /\ k < 2 * h
                       /\ \A x \in h .. 2 * h - 1 : x \in 1 .. N - 1 /\ HighBit(x) = h
                       /\ \A x \in 2 * h .. 4 * h - 1 : x \in 1 .. 2 * N - 1 /\ HighBit(x) = 2 * h
  BY LevelsApart
<1>6. ASSUME NEW x \in k + 1 .. 2 * (k + 1) - 1
      PROVE  BlockHolds(p, d, x, a, 1, q)
  <2>1. CASE x = 2 * k \/ x = 2 * k + 1
    BY <1>4, <2>1
  <2>2. CASE x # 2 * k /\ x # 2 * k + 1
    <3>1. x \in k .. 2 * k - 1 /\ x # k /\ x \in Nat
      BY <1>1, <2>2
    <3>2. BlockHolds(p, c, x, a, 1, q)
      BY <3>1 DEF ForwardHolds
    <3>3. /\ x \in 1 .. 2 * N - 1
          /\ \/ HighBit(x) = HighBit(k) /\ x # k
             \/ HighBit(x) = 2 * HighBit(k) /\ x # 2 * k /\ x # 2 * k + 1
      <4>1. CASE x < 2 * h
        <5>1. x \in h .. 2 * h - 1
          BY <1>5, <3>1, <4>1
        <5>2. x \in 1 .. N - 1 /\ HighBit(x) = h
          BY <1>5, <5>1
        <5>3. QED
          BY <1>1, <1>5, <3>1, <5>2
      <4>2. CASE ~(x < 2 * h)
        <5>1. x \in 2 * h .. 4 * h - 1
          BY <1>1, <1>5, <3>1, <4>2
        <5>2. x \in 1 .. 2 * N - 1 /\ HighBit(x) = 2 * h
          BY <1>5, <5>1
        <5>3. QED
          BY <1>5, <2>2, <5>2
      <4>3. QED
        BY <4>1, <4>2
    <3>4. QED
      BY ONLY <1>4, <3>2, <3>3, k \in 1 .. N - 1, HoldsElsewhere
  <2>3. QED
    BY <2>1, <2>2
<1>7. QED
  BY <1>2, <1>4, <1>6 DEF ForwardHolds

\* Going back, an iteration joins two blocks, and block k holds as often as it has words.
LEMMA InverseStep ==
  ASSUME NEW q \in NttModuli, NEW p \in Paths(q), NEW k \in 1 .. N - 1, NEW c \in Arrays(q),
         NEW a, \A i \in Idx : a[i] \in Nat,
         BlockHolds(p, c, 2 * k, a, Length(2 * k), q),
         BlockHolds(p, c, 2 * k + 1, a, Length(2 * k + 1), q)
  PROVE  /\ InverseBlock(p, c, k, q) \in Arrays(q)
         /\ BlockHolds(p, InverseBlock(p, c, k, q), k, a, Length(k), q)
         /\ \A x \in 1 .. 2 * N - 1 :
              /\ \/ HighBit(x) = HighBit(k) /\ x # k
                 \/ HighBit(x) = 2 * HighBit(k) /\ x # 2 * k /\ x # 2 * k + 1
              /\ BlockHolds(p, c, x, a, Length(x), q)
              => BlockHolds(p, InverseBlock(p, c, k, q), x, a, Length(x), q)
<1>1. PICK s \in Nat, l \in Nat : Length(k) = 2 * l /\ Length(2 * k) = l /\ Length(2 * k + 1) = l
  BY HalfPlaces DEF HalvesAt
<1>2. PICK d : d = InverseBlock(p, c, k, q)
  OBVIOUS
<1>3. /\ d \in Arrays(q) /\ BlockHolds(p, d, k, a, 2 * l, q)
      /\ \A i \in Idx : i \notin LowHalf(k) /\ i \notin HighHalf(k) => d[i] = c[i]
  <2>1. BlockHolds(p, c, 2 * k, a, l, q) /\ BlockHolds(p, c, 2 * k + 1, a, l, q)
    BY <1>1
  <2>2. QED
    BY <1>2, <2>1, InverseJoins
<1>4. ASSUME NEW x \in 1 .. 2 * N - 1,
             \/ HighBit(x) = HighBit(k) /\ x # k
             \/ HighBit(x) = 2 * HighBit(k) /\ x # 2 * k /\ x # 2 * k + 1,
             BlockHolds(p, c, x, a, Length(x), q)
      PROVE  BlockHolds(p, d, x, a, Length(x), q)
  BY ONLY <1>3, <1>4, k \in 1 .. N - 1, HoldsElsewhere
<1>5. QED
  BY <1>1, <1>2, <1>3, <1>4

\* Going back block by block from the last.
LEMMA InverseAdvances ==
  ASSUME NEW q \in NttModuli, NEW p \in Paths(q), NEW k \in 1 .. N - 1, NEW c \in Arrays(q),
         NEW a, \A i \in Idx : a[i] \in Nat, InverseHolds(p, c, k + 1, a, q)
  PROVE  /\ InverseBlock(p, c, k, q) \in Arrays(q)
         /\ InverseHolds(p, InverseBlock(p, c, k, q), k, a, q)
<1>1. N \in Nat /\ k \in Nat /\ k >= 1
  BY Dimension
<1>2. PICK d : d = InverseBlock(p, c, k, q)
  OBVIOUS
<1>3. /\ BlockHolds(p, c, 2 * k, a, Length(2 * k), q)
      /\ BlockHolds(p, c, 2 * k + 1, a, Length(2 * k + 1), q)
  <2>1. 2 * k \in k + 1 .. 2 * (k + 1) - 1 /\ 2 * k + 1 \in k + 1 .. 2 * (k + 1) - 1
    BY <1>1
  <2>2. QED
    BY <2>1 DEF InverseHolds
<1>4. /\ d \in Arrays(q) /\ BlockHolds(p, d, k, a, Length(k), q)
      /\ \A x \in 1 .. 2 * N - 1 :
              /\ \/ HighBit(x) = HighBit(k) /\ x # k
                 \/ HighBit(x) = 2 * HighBit(k) /\ x # 2 * k /\ x # 2 * k + 1
              /\ BlockHolds(p, c, x, a, Length(x), q)
              => BlockHolds(p, d, x, a, Length(x), q)
  BY <1>2, <1>3, InverseStep
<1>5. PICK h \in Nat : /\ h = HighBit(k) /\ h <= k /\ k < 2 * h
                       /\ \A x \in h .. 2 * h - 1 : x \in 1 .. N - 1 /\ HighBit(x) = h
                       /\ \A x \in 2 * h .. 4 * h - 1 : x \in 1 .. 2 * N - 1 /\ HighBit(x) = 2 * h
  BY LevelsApart
<1>6. ASSUME NEW x \in k .. 2 * k - 1
      PROVE  BlockHolds(p, d, x, a, Length(x), q)
  <2>1. CASE x = k
    BY <1>4, <2>1
  <2>2. CASE x # k
    <3>1. x \in k + 1 .. 2 * (k + 1) - 1 /\ x \in Nat /\ x # 2 * k /\ x # 2 * k + 1
      BY <1>1, <2>2
    <3>2. BlockHolds(p, c, x, a, Length(x), q)
      BY <3>1 DEF InverseHolds
    <3>3. /\ x \in 1 .. 2 * N - 1
          /\ \/ HighBit(x) = HighBit(k) /\ x # k
             \/ HighBit(x) = 2 * HighBit(k) /\ x # 2 * k /\ x # 2 * k + 1
      <4>1. CASE x < 2 * h
        <5>1. x \in h .. 2 * h - 1
          BY <1>5, <3>1, <4>1
        <5>2. x \in 1 .. N - 1 /\ HighBit(x) = h
          BY <1>5, <5>1
        <5>3. QED
          BY <1>1, <1>5, <2>2, <5>2
      <4>2. CASE ~(x < 2 * h)
        <5>1. x \in 2 * h .. 4 * h - 1
          BY <1>1, <1>5, <3>1, <4>2
        <5>2. x \in 1 .. 2 * N - 1 /\ HighBit(x) = 2 * h
          BY <1>5, <5>1
        <5>3. QED
          BY <1>5, <3>1, <5>2
      <4>3. QED
        BY <4>1, <4>2
    <3>4. QED
      BY <1>4, <3>2, <3>3
  <2>3. QED
    BY <2>1, <2>2
<1>7. QED
  BY <1>2, <1>4, <1>6 DEF InverseHolds

\* The words of the last level multiply to those of the product.
LEMMA PointwiseHolds ==
  ASSUME NEW q \in NttModuli, NEW p \in Paths(q), NEW c \in Arrays(q), NEW d \in Arrays(q),
         NEW a, \A i \in Idx : a[i] \in Nat, NEW b, \A i \in Idx : b[i] \in Nat,
         ForwardHolds(p, c, N, a, q), ForwardHolds(p, d, N, b, q)
  PROVE  /\ Pointwise(p, c, d, q) \in Arrays(q)
         /\ InverseHolds(p, Pointwise(p, c, d, q), N, [x \in Idx |-> Negacyclic(a, b, x, q)], q)
<1>1. q \in Moduli /\ q \in Nat /\ N \in Nat /\ N >= 2 /\ Idx = 0 .. N - 1
  BY RootModulus, ModulusFacts, Dimension DEF Idx
<1>2. PICK e : e = Pointwise(p, c, d, q) /\ e = [j \in Idx |-> PathMul(p, c[j], d[j], q)]
  BY DEF Pointwise
<1>3. e \in Arrays(q)
  <2>1. ASSUME NEW j \in Idx
        PROVE  PathMul(p, c[j], d[j], q) \in 0 .. q - 1
    <3>1. c[j] \in 0 .. q - 1 /\ d[j] \in 0 .. q - 1
      BY DEF Arrays
    <3>2. QED
      BY <1>1, <3>1, PathReduces
  <2>2. QED
    BY <1>2, <2>1 DEF Arrays
<1>4. PICK m : m = [x \in Idx |-> Negacyclic(a, b, x, q)]
  OBVIOUS
<1>5. ASSUME NEW x \in N .. 2 * N - 1
      PROVE  BlockHolds(p, e, x, m, Length(x), q)
  <2>1. /\ x \in 1 .. 2 * N - 1 /\ Length(x) = 1 /\ First(x) = x - N
        /\ x - N \in Idx /\ (x - N) + 0 = x - N /\ 0 \in 0 .. Length(x) - 1
    BY <1>1, LeafLevel
  <2>2. PICK u \in Int, v \in Int, w \in Int :
          /\ u = Remainder(a, 0, x, q) /\ v = Remainder(b, 0, x, q) /\ w = Remainder(m, 0, x, q)
          /\ Same(w, u * v, q)
    <3>1. Remainder(a, 0, x, q) \in Int
      BY <2>1, RemainderReduced
    <3>2. Remainder(b, 0, x, q) \in Int
      BY <2>1, RemainderReduced
    <3>3. Remainder(m, 0, x, q) \in Int
      <4>1. ASSUME NEW i \in Idx
            PROVE  m[i] \in Nat
        <5>1. Negacyclic(a, b, i, q) \in 0 .. q - 1
          BY <1>1, ProductSums
        <5>2. QED
          BY <1>1, <1>4, <5>1
      <4>2. QED
        BY <2>1, <4>1, RemainderReduced
    <3>4. Same(Remainder(m, 0, x, q), Remainder(a, 0, x, q) * Remainder(b, 0, x, q), q)
      BY <1>4, LeafMultiplies
    <3>5. QED
      BY <3>1, <3>2, <3>3, <3>4
  <2>3. Means(p, c[x - N], u, q) /\ Means(p, d[x - N], v, q)
    <3>1. Means(p, c[First(x) + 0], 1 * Remainder(a, 0, x, q), q)
      BY <2>1 DEF ForwardHolds, BlockHolds
    <3>2. Means(p, d[First(x) + 0], 1 * Remainder(b, 0, x, q), q)
      BY <2>1 DEF ForwardHolds, BlockHolds
    <3>3. 1 * u = u /\ 1 * v = v
      OBVIOUS
    <3>4. QED
      BY <2>1, <2>2, <3>1, <3>2, <3>3
  <2>4. PICK z \in Int : z = u * v
    OBVIOUS
  <2>5. Means(p, e[x - N], z, q)
    <3>1. e[x - N] = PathMul(p, c[x - N], d[x - N], q)
      BY <1>2, <2>1
    <3>2. QED
      BY <1>1, <2>3, <2>4, <3>1, MeansCombined
  <2>6. Same(z, w, q)
    BY <1>1, <2>2, <2>4, SameSymmetric
  <2>7. Means(p, e[x - N], w, q)
    BY <1>1, <2>5, <2>6, MeansSame
  <2>8. 1 * w = w /\ \A j \in 0 .. 1 - 1 : j = 0
    OBVIOUS
  <2>9. QED
    BY <2>1, <2>2, <2>7, <2>8 DEF BlockHolds
<1>6. QED
  BY <1>2, <1>3, <1>4, <1>5 DEF InverseHolds

\* The division leaves the coefficients in standard form.
LEMMA FinishReads ==
  ASSUME NEW q \in NttModuli, NEW p \in Paths(q), NEW c \in Arrays(q), NEW a \in Arrays(q),
         BlockHolds(p, c, 1, a, Length(1), q)
  PROVE  Strip(p, ScaleByInverse(p, c, q), q) = a
<1>1. /\ q \in Moduli /\ q \in Nat \ {0} /\ q \in Nat /\ N \in Nat /\ N >= 2 /\ Idx = 0 .. N - 1
  BY RootModulus, ModulusFacts, Dimension DEF Idx
<1>2. PICK w, m \in Int : /\ w = IF p = "shoup" THEN Context[q].nInvStd ELSE Context[q].nInv
                          /\ Means(p, w, m, q) /\ Same(N * m, 1, q)
  <2>1. \E m \in Int :
          /\ Means(p, IF p = "shoup" THEN Context[q].nInvStd ELSE Context[q].nInv, m, q)
          /\ Same(N * m, 1, q)
    BY TwiddlesMean
  <2>2. \A i \in 0 .. q - 1 : i \in Int
    BY <1>1
  <2>3. QED
    BY <2>1, <2>2 DEF Means
<1>3. PICK e : e = ScaleByInverse(p, c, q) /\ e = [j \in Idx |-> PathMul(p, c[j], w, q)]
  BY <1>2 DEF ScaleByInverse
<1>4. \A i \in Idx : a[i] \in 0 .. q - 1 /\ a[i] \in Nat /\ a[i] \in Int
  <2>1. \A i \in Idx : a[i] \in 0 .. q - 1
    BY DEF Arrays
  <2>2. \A i \in 0 .. q - 1 : i \in Nat /\ i \in Int
    BY <1>1
  <2>3. QED
    BY <2>1, <2>2
<1>5. ASSUME NEW j \in Idx
      PROVE  Reads(p, e[j], q) = a[j]
  <2>1. Length(1) = N /\ First(1) = 0 /\ Remainder(a, j, 1, q) = a[j] % q
    BY <1>4, RemainderAtRoot
  <2>2. PICK x \in 0 .. q - 1 : x = a[j] /\ x = a[j] % q
    <3>1. a[j] \in 0 .. q - 1
      BY <1>4
    <3>2. a[j] % q = a[j]
      BY <1>1, <3>1, ModSmall
    <3>3. QED
      BY <3>1, <3>2
  <2>3. x \in Int /\ j \in 0 .. Length(1) - 1 /\ 0 + j = j /\ N \in Int
    BY <1>1, <2>1
  <2>4. PICK y \in Int : y = N * x
    BY <1>1, <2>3
  <2>5. Means(p, c[j], y, q)
    BY <2>1, <2>2, <2>3, <2>4 DEF BlockHolds
  <2>6. Means(p, e[j], y * m, q)
    <3>1. e[j] = PathMul(p, c[j], w, q)
      BY <1>3
    <3>2. QED
      BY <1>1, <1>2, <2>5, <3>1, MeansCombined
  <2>7. Same(y * m, x, q)
    <3>1. PICK n \in Int : n = N * m /\ Same(n, 1, q)
      BY <1>1, <1>2
    <3>2. y * m = x * n
      <4>1. (N * x) * m = x * (N * m)
        BY ONLY <1>1, <2>3, m \in Int
      <4>2. QED
        BY <2>4, <3>1, <4>1
    <3>3. 1 \in Int /\ x * 1 = x
      BY <2>3
    <3>4. Same(x, x, q)
      BY ONLY <1>1, <2>3, SameReflexive
    <3>5. Same(x * n, x * 1, q)
      BY ONLY <1>1, <2>3, <3>1, <3>3, <3>4, n \in Int, SameProduct
    <3>6. QED
      BY <3>2, <3>3, <3>5
  <2>8. y * m \in Int
    OBVIOUS
  <2>9. Means(p, e[j], x, q)
    BY <1>1, <2>3, <2>6, <2>7, <2>8, MeansSame
  <2>10. Reads(p, e[j], q) = x % q
    BY <1>1, <2>3, <2>9, MeansSame
  <2>11. x % q = x
    BY <1>1, ModSmall
  <2>12. QED
    BY <2>2, <2>10, <2>11
<1>6. Strip(p, e, q) = [j \in Idx |-> Reads(p, e[j], q)]
  BY DEF Strip, Reads
<1>7. a = [j \in Idx |-> a[j]]
  BY DEF Arrays
<1>8. QED
  BY <1>3, <1>5, <1>6, <1>7

\* The first block going back, and the last going forward.
LEMMA ClassicalSteps ==
  ASSUME NEW q \in NttModuli
  PROVE  /\ "classical" \in Paths(q)
         /\ \A c : Lift("classical", c, q) = [j \in Idx |-> ToMontgomery(c[j], q)]
         /\ \A c : Strip("classical", ScaleByInverse("classical", c, q), q)
                     = [j \in Idx |-> FromMontgomery(MontgomeryMul(c[j], Context[q].nInv, q), q)]
<1>1. "classical" \in Paths(q) /\ "classical" # "shoup"
  BY DEF Paths, Kernels
<1>2. ASSUME NEW c
      PROVE  Lift("classical", c, q) = [j \in Idx |-> ToMontgomery(c[j], q)]
  BY <1>1 DEF Lift
<1>3. ASSUME NEW c
      PROVE  Strip("classical", ScaleByInverse("classical", c, q), q)
               = [j \in Idx |-> FromMontgomery(MontgomeryMul(c[j], Context[q].nInv, q), q)]
  <2>1. ScaleByInverse("classical", c, q) = [j \in Idx |-> MontgomeryMul(c[j], Context[q].nInv, q)]
    <3>1. \A j \in Idx : PathMul("classical", c[j], Context[q].nInv, q) = MontgomeryMul(c[j], Context[q].nInv, q)
      BY ClassicalPath
    <3>2. ScaleByInverse("classical", c, q) = [j \in Idx |-> PathMul("classical", c[j], Context[q].nInv, q)]
      BY <1>1 DEF ScaleByInverse
    <3>3. QED
      BY <3>1, <3>2
  <2>2. PICK d : d = ScaleByInverse("classical", c, q)
    OBVIOUS
  <2>3. Strip("classical", d, q) = [j \in Idx |-> FromMontgomery(d[j], q)]
    BY <1>1 DEF Strip
  <2>4. QED
    BY <2>1, <2>2, <2>3
<1>4. QED
  BY <1>1, <1>2, <1>3

\* A whole transform leaves the remainders of the last level.
LEMMA ForwardLeaves ==
  ASSUME NEW q \in NttModuli, NEW c, \A j \in Idx : c[j] \in Words
  PROVE  Forward(c, q) \in Arrays(q) /\ ForwardHolds("classical", Forward(c, q), N, c, q)
<1>1. q \in Moduli /\ N \in Nat /\ N >= 2 /\ N - 1 \in Nat /\ (N - 1) + 1 = N /\ Words = 0 .. Word - 1
      /\ 0 + 1 = 1 /\ Word \in Nat
  BY RootModulus, ModulusFacts, Dimension DEF Words
<1>2. \A j \in Idx : c[j] \in 0 .. Word - 1 /\ c[j] \in Nat
  BY <1>1
<1>3. PICK y : ForwardBy(y, c, q)
  BY <1>2, ForwardRounds
<1>4. /\ y[0] = [j \in Idx |-> ToMontgomery(c[j], q)] /\ Forward(c, q) = y[N - 1]
      /\ \A k \in 1 .. N - 1 : y[k] = ForwardInplace(y[k - 1], k, q)
  BY <1>3 DEF ForwardBy
<1> DEFINE T == {k \in 0 .. N - 1 : /\ y[k] \in Arrays(q)
                                   /\ ForwardHolds("classical", y[k], k + 1, c, q)}
<1>5. 0 \in T
  <2>1. y[0] = Lift("classical", c, q) /\ "classical" \in Paths(q) /\ "classical" # "shoup"
    BY <1>4, ClassicalSteps
  <2>2. Lift("classical", c, q) \in Arrays(q) /\ ForwardHolds("classical", Lift("classical", c, q), 1, c, q)
    BY <2>1, LiftHolds
  <2>3. QED
    BY <1>1, <2>1, <2>2
<1>6. ASSUME NEW k \in 0 .. N - 1, k # N - 1, k \in T
      PROVE  k + 1 \in T
  <2>1. k + 1 \in 1 .. N - 1 /\ (k + 1) - 1 = k /\ k + 1 \in 0 .. N - 1
    BY <1>1, <1>6
  <2>2. y[k] \in Arrays(q) /\ ForwardHolds("classical", y[k], k + 1, c, q)
    BY <1>6
  <2>3. y[k + 1] = ForwardBlock("classical", y[k], k + 1, q)
    <3>1. y[k + 1] = ForwardInplace(y[k], k + 1, q)
      BY <1>4, <2>1
    <3>2. y[k] \in [Idx -> 0 .. q - 1]
      BY <2>2 DEF Arrays
    <3>3. QED
      BY <2>1, <3>1, <3>2, InplaceReduced
  <2>4. "classical" \in Paths(q)
    BY ClassicalSteps
  <2>5. /\ ForwardBlock("classical", y[k], k + 1, q) \in Arrays(q)
        /\ ForwardHolds("classical", ForwardBlock("classical", y[k], k + 1, q), (k + 1) + 1, c, q)
    BY <1>2, <2>1, <2>2, <2>4, ForwardAdvances
  <2>6. QED
    BY <2>1, <2>3, <2>5
<1> HIDE DEF T
<1>7. \A k \in 0 .. N - 1 : k \in T
  BY <1>1, <1>5, <1>6, Induction
<1>8. N - 1 \in T
  BY <1>1, <1>7
<1>9. QED
  BY <1>1, <1>4, <1>8 DEF T

\* A whole transform back from the last level restores the polynomial.
LEMMA InverseRestores ==
  ASSUME NEW q \in NttModuli, NEW c \in Arrays(q), NEW a \in Arrays(q),
         InverseHolds("classical", c, N, a, q)
  PROVE  Inverse(c, q) = a
<1>1. q \in Moduli /\ q \in Nat /\ N \in Nat /\ N >= 2 /\ N - 1 \in Nat /\ N - 0 = N /\ N - (N - 1) = 1
  BY RootModulus, ModulusFacts, Dimension
<1>2. \A i \in Idx : a[i] \in Nat
  <2>1. \A i \in Idx : a[i] \in 0 .. q - 1
    BY DEF Arrays
  <2>2. QED
    BY <1>1, <2>1
<1>3. PICK y : InverseBy(y, c, q)
  <2>1. c \in [Idx -> 0 .. q - 1]
    BY DEF Arrays
  <2>2. QED
    BY <2>1, InverseRounds
<1>4. /\ y[0] = c /\ \A i \in 1 .. N - 1 : y[i] = InverseInplace(y[i - 1], N - i, q)
      /\ Inverse(c, q) = [j \in Idx |->
           FromMontgomery(MontgomeryMul(y[N - 1][j], Context[q].nInv, q), q)]
  BY <1>3 DEF InverseBy
<1> DEFINE T == {i \in 0 .. N - 1 : /\ y[i] \in Arrays(q)
                                   /\ InverseHolds("classical", y[i], N - i, a, q)}
<1>5. 0 \in T
  BY <1>1, <1>4
<1>6. ASSUME NEW i \in 0 .. N - 1, i # N - 1, i \in T
      PROVE  i + 1 \in T
  <2>1. /\ i + 1 \in 1 .. N - 1 /\ (i + 1) - 1 = i /\ i + 1 \in 0 .. N - 1
        /\ N - (i + 1) \in 1 .. N - 1 /\ (N - (i + 1)) + 1 = N - i
    BY <1>1, <1>6
  <2>2. y[i] \in Arrays(q) /\ InverseHolds("classical", y[i], (N - (i + 1)) + 1, a, q)
    BY <1>6, <2>1
  <2>3. y[i + 1] = InverseBlock("classical", y[i], N - (i + 1), q)
    <3>1. y[i + 1] = InverseInplace(y[i], N - (i + 1), q)
      BY <1>4, <2>1
    <3>2. y[i] \in [Idx -> 0 .. q - 1]
      BY <2>2 DEF Arrays
    <3>3. QED
      BY <2>1, <3>1, <3>2, InplaceReduced
  <2>4. "classical" \in Paths(q)
    BY ClassicalSteps
  <2>5. /\ InverseBlock("classical", y[i], N - (i + 1), q) \in Arrays(q)
        /\ InverseHolds("classical", InverseBlock("classical", y[i], N - (i + 1), q), N - (i + 1), a, q)
    BY <1>2, <2>1, <2>2, <2>4, InverseAdvances
  <2>6. QED
    BY <2>1, <2>3, <2>5
<1> HIDE DEF T
<1>7. \A i \in 0 .. N - 1 : i \in T
  BY <1>1, <1>5, <1>6, Induction
<1>8. y[N - 1] \in Arrays(q) /\ InverseHolds("classical", y[N - 1], 1, a, q)
  <2>1. N - 1 \in T
    BY <1>1, <1>7
  <2>2. QED
    BY <1>1, <2>1 DEF T
<1>9. BlockHolds("classical", y[N - 1], 1, a, Length(1), q)
  <2>1. 1 \in 1 .. 2 * 1 - 1
    OBVIOUS
  <2>2. QED
    BY <1>8, <2>1 DEF InverseHolds
<1>10. "classical" \in Paths(q)
  BY ClassicalSteps
<1>11. Strip("classical", ScaleByInverse("classical", y[N - 1], q), q) = a
  BY <1>8, <1>9, <1>10, FinishReads
<1>12. QED
  BY <1>4, <1>11, ClassicalSteps

\* The product by whole transforms.
LEMMA WholeProduct ==
  ASSUME NEW q \in NttModuli, NEW a, \A j \in Idx : a[j] \in Words, NEW b, \A j \in Idx : b[j] \in Words
  PROVE  Inverse(Pointwise("classical", Forward(a, q), Forward(b, q), q), q)
           = [x \in Idx |-> Negacyclic(a, b, x, q)]
<1>1. q \in Moduli /\ Words = 0 .. Word - 1 /\ Word \in Nat
  BY RootModulus, ModulusFacts DEF Words
<1>2. (\A j \in Idx : a[j] \in Nat) /\ (\A j \in Idx : b[j] \in Nat)
  BY <1>1
<1>3. PICK c, d : /\ c = Forward(a, q) /\ c \in Arrays(q) /\ ForwardHolds("classical", c, N, a, q)
                  /\ d = Forward(b, q) /\ d \in Arrays(q) /\ ForwardHolds("classical", d, N, b, q)
  BY ForwardLeaves
<1>4. "classical" \in Paths(q)
  BY ClassicalSteps
<1>5. PICK m : m = [x \in Idx |-> Negacyclic(a, b, x, q)]
  OBVIOUS
<1>6. m \in Arrays(q)
  <2>1. \A x \in Idx : Negacyclic(a, b, x, q) \in 0 .. q - 1
    BY <1>1, <1>2, ProductSums
  <2>2. QED
    BY <1>5, <2>1 DEF Arrays
<1>7. /\ Pointwise("classical", c, d, q) \in Arrays(q)
      /\ InverseHolds("classical", Pointwise("classical", c, d, q), N, m, q)
  BY <1>2, <1>3, <1>4, <1>5, PointwiseHolds
<1>8. Inverse(Pointwise("classical", c, d, q), q) = m
  BY <1>6, <1>7, InverseRestores
<1>9. QED
  BY <1>3, <1>5, <1>8
-----------------------------------------------------------------------------
(* The steps of NttSteps                                                   *)

\* What has become of two factors is two arrays.
IsPair(a) == a = [f \in 1 .. 2 |-> a[f]]
FirstReplaced(a, w) == [a EXCEPT ![1] = w]

\* What the arrays hold at each of the phases.
PhaseHolds ==
  /\ phase = "lift" => arrays = factors /\ block = 1
  /\ phase # "lift" => \A f \in 1 .. 2 : arrays[f] \in Arrays(prime)
  /\ phase = "forward" =>
       block \in 1 .. N - 1 /\ \A f \in 1 .. 2 : ForwardHolds(path, arrays[f], block, factors[f], prime)
  /\ phase = "pointwise" =>
       block = N \div 2 /\ \A f \in 1 .. 2 : ForwardHolds(path, arrays[f], N, factors[f], prime)
  /\ phase = "inverse" =>
       /\ block \in 1 .. N - 1
       /\ \A k \in Joined \cup Unjoined : BlockHolds(path, arrays[1], k, Product, Length(k), prime)
  /\ phase = "scale" => BlockHolds(path, arrays[1], 1, Product, Length(1), prime)
  /\ phase = "done" => arrays[1] = Product

NttInv ==
  /\ prime \in NttModuli /\ path \in Paths(prime)
  /\ factors \in [1 .. 2 -> Inputs(prime)]
  /\ path = "shoup" => \A f \in 1 .. 2 : factors[f] \in Arrays(prime)
  /\ IsPair(arrays)
  /\ phase \in {"lift", "forward", "pointwise", "inverse", "scale", "done"}
  /\ PhaseHolds

\* The factors are arrays of words, and their product is reduced.
LEMMA FactorFacts ==
  ASSUME InputArrays, NttInv
  PROVE  /\ \A f \in 1 .. 2, j \in Idx : factors[f][j] \in Words /\ factors[f][j] \in Nat
         /\ path = "shoup" => \A f \in 1 .. 2, j \in Idx : factors[f][j] \in 0 .. prime - 1
         /\ Product \in Arrays(prime) /\ \A j \in Idx : Product[j] \in Nat
         /\ Product = [x \in Idx |-> Negacyclic(factors[1], factors[2], x, prime)]
<1>1. prime \in NttModuli /\ prime \in Moduli /\ prime \in Nat /\ Words = 0 .. Word - 1 /\ Word \in Nat
  BY RootModulus, ModulusFacts DEF NttInv, Words
<1>2. \A f \in 1 .. 2 : factors[f] \in [Idx -> Words]
  BY DEF NttInv, InputArrays
<1>3. \A f \in 1 .. 2, j \in Idx : factors[f][j] \in Words /\ factors[f][j] \in Nat
  BY <1>1, <1>2
<1>4. path = "shoup" => \A f \in 1 .. 2, j \in Idx : factors[f][j] \in 0 .. prime - 1
  BY DEF NttInv, Arrays
<1>5. \A x \in Idx : Negacyclic(factors[1], factors[2], x, prime) \in 0 .. prime - 1
  <2>1. (\A i \in Idx : factors[1][i] \in Nat) /\ (\A i \in Idx : factors[2][i] \in Nat)
    BY <1>3
  <2>2. QED
    BY <1>1, <2>1, ProductSums
<1>6. Product = [x \in Idx |-> Negacyclic(factors[1], factors[2], x, prime)]
  BY DEF Product
<1>7. Product \in Arrays(prime) /\ \A j \in Idx : Product[j] \in Nat
  BY <1>1, <1>5, <1>6 DEF Arrays
<1>8. QED
  BY <1>3, <1>4, <1>6, <1>7

\* Initially.
LEMMA NttStarts ==
  ASSUME NttInit
  PROVE  NttInv
<1>1. IsPair(factors)
  BY DEF NttInit, IsPair
<1>2. QED
  BY <1>1 DEF NttInit, NttInv, PhaseHolds

\* Lifted, the factors hold themselves.
LEMMA LiftBothKeeps ==
  ASSUME InputArrays, NttInv, LiftBoth
  PROVE  NttInv'
<1>1. /\ phase = "lift" /\ phase' = "forward" /\ arrays = factors /\ block = 1 /\ block' = 1
      /\ arrays' = [f \in 1 .. 2 |-> Lift(path, arrays[f], prime)]
      /\ prime' = prime /\ path' = path /\ factors' = factors
      /\ prime \in NttModuli /\ path \in Paths(prime)
  BY DEF LiftBoth, NttInv, PhaseHolds
<1>2. 1 \in 1 .. N - 1
  BY Dimension
<1>3. ASSUME NEW f \in 1 .. 2
      PROVE  /\ arrays'[f] \in Arrays(prime)
             /\ ForwardHolds(path, arrays'[f], 1, factors[f], prime)
  <2>1. arrays'[f] = Lift(path, factors[f], prime)
    BY <1>1
  <2>2. \A j \in Idx : factors[f][j] \in Words
    BY FactorFacts
  <2>3. path = "shoup" => \A j \in Idx : factors[f][j] \in 0 .. prime - 1
    BY FactorFacts
  <2>4. QED
    BY <1>1, <2>1, <2>2, <2>3, LiftHolds
<1>4. IsPair(arrays')
  BY <1>1 DEF IsPair
<1>5. PhaseHolds'
  BY <1>1, <1>2, <1>3 DEF PhaseHolds
<1>6. QED
  BY <1>1, <1>4, <1>5 DEF NttInv

\* A block of butterflies, on both arrays.
LEMMA ButterfliesKeep ==
  ASSUME InputArrays, NttInv, Butterflies
  PROVE  NttInv'
<1>1. /\ phase = "forward" /\ block \in 1 .. N - 1
      /\ arrays' = [f \in 1 .. 2 |-> ForwardBlock(path, arrays[f], block, prime)]
      /\ block' = IF block < N - 1 THEN block + 1 ELSE N \div 2
      /\ phase' = IF block < N - 1 THEN "forward" ELSE "pointwise"
      /\ prime' = prime /\ path' = path /\ factors' = factors
      /\ prime \in NttModuli /\ path \in Paths(prime)
      /\ \A f \in 1 .. 2 : /\ arrays[f] \in Arrays(prime)
                           /\ ForwardHolds(path, arrays[f], block, factors[f], prime)
  BY DEF Butterflies, NttInv, PhaseHolds
<1>2. N \in Nat /\ N >= 2
  BY Dimension
<1>3. ASSUME NEW f \in 1 .. 2
      PROVE  /\ arrays'[f] \in Arrays(prime)
             /\ ForwardHolds(path, arrays'[f], block + 1, factors[f], prime)
  <2>1. arrays'[f] = ForwardBlock(path, arrays[f], block, prime)
    BY <1>1
  <2>2. \A j \in Idx : factors[f][j] \in Nat
    BY FactorFacts
  <2>3. QED
    BY <1>1, <2>1, <2>2, ForwardAdvances
<1>4. IsPair(arrays')
  BY <1>1 DEF IsPair
<1>5. PhaseHolds'
  <2>1. CASE block < N - 1
    <3>1. phase' = "forward" /\ block' = block + 1 /\ block + 1 \in 1 .. N - 1
      BY <1>1, <1>2, <2>1
    <3>2. QED
      BY <1>1, <1>3, <3>1 DEF PhaseHolds
  <2>2. CASE ~(block < N - 1)
    <3>1. phase' = "pointwise" /\ block' = N \div 2 /\ block + 1 = N
      BY <1>1, <1>2, <2>2
    <3>2. QED
      BY <1>1, <1>3, <3>1 DEF PhaseHolds
  <2>3. QED
    BY <2>1, <2>2
<1>6. phase' \in {"forward", "pointwise"}
  BY <1>1
<1>7. QED
  BY <1>1, <1>4, <1>5, <1>6 DEF NttInv

\* The last level with butterflies has half as many blocks as there are words.
LEMMA HalvedDimension ==
  /\ N \div 2 \in 1 .. N - 1 /\ HighBit(N \div 2) = N \div 2
  /\ 2 * (N \div 2) = N /\ 4 * (N \div 2) - 1 = 2 * N - 1
<1>1. PICK K \in 1 .. Bits : N = 2 ^ K /\ N \in Nat /\ N >= 2
  BY Dimension
<1>2. K - 1 \in 0 .. Bits /\ K \in 0 .. Bits /\ K # 0
  BY <1>1, WordAssumption
<1>3. PICK h : h = 2 ^ (K - 1)
  OBVIOUS
<1>4. h \in Nat /\ h >= 1 /\ N = 2 * h /\ h \in PowersOfTwo
  BY <1>1, <1>2, <1>3, Powers DEF PowersOfTwo
<1>5. N \div 2 = h /\ h <= h /\ h < 2 * h /\ h \in 1 .. N - 1
  BY <1>1, <1>4
<1>6. HighBit(h) = h
  BY <1>4, <1>5, HighBitIs
<1>7. QED
  BY <1>4, <1>5, <1>6

\* The first array is replaced, and the second is left.
LEMMA FirstIsReplaced ==
  ASSUME NEW a, IsPair(a), NEW w, NEW d, d = FirstReplaced(a, w)
  PROVE  d[1] = w /\ d[2] = a[2] /\ IsPair(d)
<1>1. PICK b : b = [f \in 1 .. 2 |-> IF f = 1 THEN w ELSE a[f]]
  OBVIOUS
<1>2. [[f \in 1 .. 2 |-> a[f]] EXCEPT ![1] = w] = b
  BY ONLY <1>1
<1>3. d = b
  BY <1>2 DEF IsPair, FirstReplaced
<1>4. b[1] = w /\ b[2] = a[2] /\ IsPair(b)
  BY ONLY <1>1 DEF IsPair
<1>5. QED
  BY ONLY <1>3, <1>4

\* The single words of the product are the products of the single words.
LEMMA MultiplyPointwiseKeeps ==
  ASSUME InputArrays, NttInv, MultiplyPointwise
  PROVE  NttInv'
<1>1. /\ phase = "pointwise" /\ phase' = "inverse" /\ block = N \div 2 /\ block' = block
      /\ arrays' = [arrays EXCEPT ![1] = Pointwise(path, arrays[1], arrays[2], prime)]
      /\ prime' = prime /\ path' = path /\ factors' = factors
      /\ prime \in NttModuli /\ path \in Paths(prime) /\ IsPair(arrays)
      /\ \A f \in 1 .. 2 : /\ arrays[f] \in Arrays(prime)
                           /\ ForwardHolds(path, arrays[f], N, factors[f], prime)
  BY DEF MultiplyPointwise, NttInv, PhaseHolds
<1>2. /\ arrays'[1] = Pointwise(path, arrays[1], arrays[2], prime) /\ arrays'[2] = arrays[2]
      /\ IsPair(arrays')
  <2>1. PICK a, d, w : a = arrays /\ d = arrays' /\ w = Pointwise(path, arrays[1], arrays[2], prime)
    OBVIOUS
  <2>2. d = FirstReplaced(a, w) /\ IsPair(a)
    BY <1>1, <2>1 DEF FirstReplaced
  <2>3. d[1] = w /\ d[2] = a[2] /\ IsPair(d)
    BY ONLY <2>2, FirstIsReplaced
  <2>4. QED
    BY <2>1, <2>3
<1>3. /\ arrays'[1] \in Arrays(prime)
      /\ InverseHolds(path, arrays'[1], N, Product, prime)
  <2>1. (\A i \in Idx : factors[1][i] \in Nat) /\ (\A i \in Idx : factors[2][i] \in Nat)
    BY FactorFacts
  <2>2. Product = [x \in Idx |-> Negacyclic(factors[1], factors[2], x, prime)]
    BY FactorFacts
  <2>3. QED
    BY <1>1, <1>2, <2>1, <2>2, PointwiseHolds
<1>4. Product' = Product
  BY <1>1 DEF Product
<1>5. \A k \in (Joined \cup Unjoined)' : k \in N .. 2 * N - 1
  <2>1. Joined' = N \div 2 .. N \div 2 - 1 /\ Unjoined' = N .. 2 * N - 1
    BY <1>1, HalvedDimension DEF Joined, Unjoined
  <2>2. N \div 2 \in Int
    BY Dimension
  <2>3. QED
    BY <2>1, <2>2
<1>6. \A k \in (Joined \cup Unjoined)' : BlockHolds(path, arrays'[1], k, Product, Length(k), prime)
  BY <1>3, <1>5 DEF InverseHolds
<1>7. block' \in 1 .. N - 1
  BY <1>1, HalvedDimension
<1>8. \A f \in 1 .. 2 : arrays'[f] \in Arrays(prime)
  BY <1>1, <1>2, <1>3
<1>9. PhaseHolds'
  BY <1>1, <1>4, <1>6, <1>7, <1>8 DEF PhaseHolds
<1>10. QED
  BY <1>1, <1>2, <1>9 DEF NttInv

\* Levels of butterflies one above the other, and their first blocks.
LEMMA LevelAbove ==
  ASSUME NEW k \in 1 .. N - 1, k # 1, NEW h, h = HighBit(k), k + 1 = 2 * h
  PROVE  /\ h \div 2 \in 1 .. N - 1 /\ HighBit(h \div 2) = h \div 2
         /\ 2 * (h \div 2) = h /\ h \in Nat /\ h \div 2 \in Nat
<1>1. N \in Nat /\ k \in Nat /\ k >= 2
  BY Dimension
<1>2. h \in PowersOfTwo /\ h \in Nat /\ h >= 2 /\ h <= k
  <2>1. HighBit(k) \in Nat /\ HighBit(k) >= 1 /\ HighBit(k) <= k
    BY LevelsApart
  <2>2. h \in PowersOfTwo
    BY LevelBelow DEF Level
  <2>3. QED
    BY <1>1, <2>1, <2>2
<1>3. PICK i \in 0 .. Bits : h = 2 ^ i
  BY <1>2 DEF PowersOfTwo
<1>4. Bits \in Nat /\ 2 ^ 0 = 1
  BY WordAssumption, Powers
<1>5. i # 0
  <2>1. ASSUME i = 0
        PROVE  h = 1
    BY ONLY <1>3, <1>4, <2>1
  <2>2. h # 1
    BY <1>2
  <2>3. QED
    BY <2>1, <2>2
<1>6. i - 1 \in 0 .. Bits /\ i \in 1 .. Bits
  BY <1>4, <1>5
<1>7. PICK m : m = 2 ^ (i - 1)
  OBVIOUS
<1>8. m \in Nat /\ m >= 1 /\ h = 2 * m /\ m \in PowersOfTwo
  BY <1>3, <1>4, <1>6, <1>7, Powers DEF PowersOfTwo
<1>9. h \div 2 = m /\ m <= m /\ m < 2 * m /\ m \in 1 .. N - 1
  BY <1>1, <1>2, <1>8
<1>10. HighBit(m) = m
  BY <1>8, <1>9, HighBitIs
<1>11. QED
  BY <1>2, <1>8, <1>9, <1>10

\* A block joined, of the level it is on, and the blocks that are then as they should be.
LEMMA InverseButterfliesKeep ==
  ASSUME InputArrays, NttInv, InverseButterflies
  PROVE  NttInv'
<1>0. PICK k \in 1 .. N - 1 : k = block
  BY DEF NttInv, PhaseHolds, InverseButterflies
<1>1. PICK h : k = block /\ h = HighBit(k)
  BY <1>0
<1>2. /\ phase = "inverse"
      /\ arrays' = [arrays EXCEPT ![1] = InverseBlock(path, arrays[1], k, prime)]
      /\ block' = IF k + 1 = 2 * h THEN h \div 2 ELSE k + 1
      /\ phase' = IF k = 1 THEN "scale" ELSE "inverse"
      /\ prime' = prime /\ path' = path /\ factors' = factors
      /\ prime \in NttModuli /\ path \in Paths(prime) /\ IsPair(arrays)
      /\ \A f \in 1 .. 2 : arrays[f] \in Arrays(prime)
      /\ \A x \in h .. k - 1 : BlockHolds(path, arrays[1], x, Product, Length(x), prime)
      /\ \A x \in 2 * k .. 4 * h - 1 : BlockHolds(path, arrays[1], x, Product, Length(x), prime)
  BY <1>1 DEF InverseButterflies, NttInv, PhaseHolds, Joined, Unjoined
<1>3. /\ N \in Nat /\ k \in Nat /\ k >= 1 /\ h \in Nat /\ h >= 1 /\ h <= k /\ k < 2 * h
      /\ \A x \in h .. 2 * h - 1 : x \in 1 .. N - 1 /\ HighBit(x) = h
      /\ \A x \in 2 * h .. 4 * h - 1 : x \in 1 .. 2 * N - 1 /\ HighBit(x) = 2 * h
      /\ 4 * h <= 2 * N
  BY <1>1, Dimension, LevelsApart
<1>4. /\ arrays'[1] = InverseBlock(path, arrays[1], k, prime) /\ arrays'[2] = arrays[2]
      /\ IsPair(arrays')
  <2>1. PICK a, d, w : a = arrays /\ d = arrays' /\ w = InverseBlock(path, arrays[1], k, prime)
    OBVIOUS
  <2>2. d = FirstReplaced(a, w) /\ IsPair(a)
    BY <1>2, <2>1 DEF FirstReplaced
  <2>3. d[1] = w /\ d[2] = a[2] /\ IsPair(d)
    BY ONLY <2>2, FirstIsReplaced
  <2>4. QED
    BY <2>1, <2>3
<1>5. \A j \in Idx : Product[j] \in Nat
  BY FactorFacts
<1>6. /\ arrays'[1] \in Arrays(prime)
      /\ BlockHolds(path, arrays'[1], k, Product, Length(k), prime)
      /\ \A x \in 1 .. 2 * N - 1 :
           /\ \/ HighBit(x) = h /\ x # k
              \/ HighBit(x) = 2 * h /\ x # 2 * k /\ x # 2 * k + 1
           /\ BlockHolds(path, arrays[1], x, Product, Length(x), prime)
           => BlockHolds(path, arrays'[1], x, Product, Length(x), prime)
  <2>1. 2 * k \in 2 * k .. 4 * h - 1 /\ 2 * k + 1 \in 2 * k .. 4 * h - 1
    BY <1>3
  <2>2. /\ BlockHolds(path, arrays[1], 2 * k, Product, Length(2 * k), prime)
        /\ BlockHolds(path, arrays[1], 2 * k + 1, Product, Length(2 * k + 1), prime)
    BY <1>2, <2>1
  <2>3. arrays[1] \in Arrays(prime)
    BY <1>2
  <2>4. QED
    BY <1>1, <1>2, <1>4, <1>5, <2>2, <2>3, InverseStep
<1>7. ASSUME NEW x \in h .. k
      PROVE  BlockHolds(path, arrays'[1], x, Product, Length(x), prime)
  <2>1. ASSUME x # k
        PROVE  BlockHolds(path, arrays'[1], x, Product, Length(x), prime)
    <3>1. x \in h .. k - 1 /\ x \in h .. 2 * h - 1 /\ x \in 1 .. 2 * N - 1
      BY <1>3, <2>1
    <3>2. HighBit(x) = h
      BY <1>3, <3>1
    <3>3. BlockHolds(path, arrays[1], x, Product, Length(x), prime)
      BY <1>2, <3>1
    <3>4. QED
      BY <1>6, <2>1, <3>1, <3>2, <3>3
  <2>2. QED
    BY <1>6, <2>1
<1>8. ASSUME NEW x \in 2 * k + 2 .. 4 * h - 1
      PROVE  BlockHolds(path, arrays'[1], x, Product, Length(x), prime)
  <2>1. /\ x \in 2 * k .. 4 * h - 1 /\ x \in 2 * h .. 4 * h - 1 /\ x \in 1 .. 2 * N - 1
        /\ x # 2 * k /\ x # 2 * k + 1
    BY <1>3
  <2>2. HighBit(x) = 2 * h
    BY <1>3, <2>1
  <2>3. BlockHolds(path, arrays[1], x, Product, Length(x), prime)
    BY <1>2, <2>1
  <2>4. QED
    BY <1>6, <2>1, <2>2, <2>3
<1>9. Product' = Product
  BY <1>2 DEF Product
<1>10. \A f \in 1 .. 2 : arrays'[f] \in Arrays(prime)
  BY <1>2, <1>4, <1>6
<1>11. PhaseHolds'
  <2>1. ASSUME k = 1
        PROVE  PhaseHolds'
    <3>1. phase' = "scale" /\ BlockHolds(path, arrays'[1], 1, Product, Length(1), prime)
      BY <1>2, <1>6, <2>1
    <3>2. QED
      BY <1>2, <1>9, <1>10, <3>1 DEF PhaseHolds
  <2>2. ASSUME k # 1, k + 1 = 2 * h
        PROVE  PhaseHolds'
    <3>1. /\ h \div 2 \in 1 .. N - 1 /\ HighBit(h \div 2) = h \div 2 /\ 2 * (h \div 2) = h
          /\ h \div 2 \in Nat
      BY <1>1, <2>2, LevelAbove
    <3>2. phase' = "inverse" /\ block' = h \div 2
      BY <1>2, <2>2
    <3>3. \A x \in (Joined \cup Unjoined)' : x \in h .. k
      <4>1. Joined' = h \div 2 .. h \div 2 - 1 /\ Unjoined' = 2 * (h \div 2) .. 4 * (h \div 2) - 1
        BY <3>1, <3>2 DEF Joined, Unjoined
      <4>2. \A x \in Joined' \cup Unjoined' : x \in h .. k
        BY <1>3, <2>2, <3>1, <4>1
      <4>3. QED
        BY <4>2
    <3>4. \A x \in (Joined \cup Unjoined)' : BlockHolds(path, arrays'[1], x, Product, Length(x), prime)
      BY <1>7, <3>3
    <3>5. QED
      BY <1>2, <1>9, <1>10, <3>1, <3>2, <3>4 DEF PhaseHolds
  <2>3. ASSUME k # 1, k + 1 # 2 * h
        PROVE  PhaseHolds'
    <3>1. /\ k + 1 \in h .. 2 * h - 1 /\ phase' = "inverse" /\ block' = k + 1
      BY <1>2, <1>3, <2>3
    <3>2. k + 1 \in 1 .. N - 1 /\ HighBit(k + 1) = h
      BY <1>3, <3>1
    <3>3. \A x \in (Joined \cup Unjoined)' : x \in h .. k \/ x \in 2 * k + 2 .. 4 * h - 1
      <4>1. Joined' = h .. (k + 1) - 1 /\ Unjoined' = 2 * (k + 1) .. 4 * h - 1
        BY <3>1, <3>2 DEF Joined, Unjoined
      <4>2. (k + 1) - 1 = k /\ 2 * (k + 1) = 2 * k + 2
        BY <1>3
      <4>3. QED
        BY <4>1, <4>2
    <3>4. \A x \in (Joined \cup Unjoined)' : BlockHolds(path, arrays'[1], x, Product, Length(x), prime)
      BY <1>7, <1>8, <3>3
    <3>5. QED
      BY <1>2, <1>9, <1>10, <3>1, <3>2, <3>4 DEF PhaseHolds
  <2>4. QED
    BY <2>1, <2>2, <2>3
<1>12. phase' \in {"inverse", "scale"}
  BY <1>2
<1>13. path' = "shoup" => \A f \in 1 .. 2 : factors'[f] \in Arrays(prime')
  BY <1>2 DEF NttInv
<1>14. factors' \in [1 .. 2 -> Inputs(prime')]
  BY <1>2 DEF NttInv
<1>15. QED
  BY <1>2, <1>4, <1>11, <1>12, <1>13, <1>14 DEF NttInv

\* Scaled and stripped, the words are those of the product.
LEMMA FinishKeeps ==
  ASSUME InputArrays, NttInv, Finish
  PROVE  NttInv'
<1>1. /\ phase = "scale" /\ phase' = "done" /\ block' = block
      /\ arrays' = [arrays EXCEPT ![1] = Strip(path, ScaleByInverse(path, arrays[1], prime), prime)]
      /\ prime' = prime /\ path' = path /\ factors' = factors
      /\ prime \in NttModuli /\ path \in Paths(prime) /\ IsPair(arrays)
      /\ \A f \in 1 .. 2 : arrays[f] \in Arrays(prime)
      /\ BlockHolds(path, arrays[1], 1, Product, Length(1), prime)
  BY DEF Finish, NttInv, PhaseHolds
<1>2. /\ arrays'[1] = Strip(path, ScaleByInverse(path, arrays[1], prime), prime)
      /\ arrays'[2] = arrays[2] /\ IsPair(arrays')
  <2>1. PICK a, d, w : a = arrays /\ d = arrays' /\ w = Strip(path, ScaleByInverse(path, arrays[1], prime), prime)
    OBVIOUS
  <2>2. d = FirstReplaced(a, w) /\ IsPair(a)
    BY <1>1, <2>1 DEF FirstReplaced
  <2>3. d[1] = w /\ d[2] = a[2] /\ IsPair(d)
    BY ONLY <2>2, FirstIsReplaced
  <2>4. QED
    BY <2>1, <2>3
<1>3. Product \in Arrays(prime)
  BY FactorFacts
<1>4. arrays'[1] = Product
  <2>1. arrays[1] \in Arrays(prime)
    BY <1>1
  <2>2. QED
    BY <1>1, <1>2, <1>3, <2>1, FinishReads
<1>5. Product' = Product
  BY <1>1 DEF Product
<1>6. \A f \in 1 .. 2 : arrays'[f] \in Arrays(prime)
  BY <1>1, <1>2, <1>3, <1>4
<1>7. PhaseHolds'
  BY <1>1, <1>4, <1>5, <1>6 DEF PhaseHolds
<1>8. QED
  BY <1>1, <1>2, <1>7 DEF NttInv

\* No step breaks the invariant.
LEMMA NttKeeps ==
  ASSUME InputArrays, NttInv, [NttNext]_nttVars
  PROVE  NttInv'
<1>1. CASE UNCHANGED nttVars
  <2>1. /\ prime' = prime /\ path' = path /\ factors' = factors /\ arrays' = arrays
        /\ phase' = phase /\ block' = block
    BY <1>1 DEF nttVars
  <2>2. Product' = Product /\ Joined' = Joined /\ Unjoined' = Unjoined
    BY <2>1 DEF Product, Joined, Unjoined
  <2>3. PhaseHolds'
    BY <2>1, <2>2 DEF NttInv, PhaseHolds
  <2>4. QED
    BY <2>1, <2>3 DEF NttInv
<1>2. CASE Done
  BY <1>1, <1>2 DEF Done
<1>3. CASE LiftBoth
  BY <1>3, LiftBothKeeps
<1>4. CASE Butterflies
  BY <1>4, ButterfliesKeep
<1>5. CASE MultiplyPointwise
  BY <1>5, MultiplyPointwiseKeeps
<1>6. CASE InverseButterflies
  BY <1>6, InverseButterfliesKeep
<1>7. CASE Finish
  BY <1>7, FinishKeeps
<1>8. QED
  BY <1>1, <1>2, <1>3, <1>4, <1>5, <1>6, <1>7 DEF NttNext

\* The constant of a block squares to that of the block it is half of.
LEMMA ConstantSquares ==
  ASSUME NEW q \in NttModuli, NEW k \in 2 .. 2 * N - 1
  PROVE  (Constant(k, q) * Constant(k, q)) % q = Constant(k \div 2, q)
<1>1. q \in Nat \ {0} /\ q \in Nat /\ N \in Nat /\ N >= 2 /\ k \in Nat
  BY RootModulus, ModulusFacts, Dimension
<1>2. PICK z \in Nat, d \in {0, 1} : z = k \div 2 /\ k = 2 * z + d
  BY <1>1, HalfOf
<1>3. z \in 1 .. N - 1 /\ z \in 1 .. 2 * N - 1 /\ k \in 1 .. 2 * N - 1
  BY <1>1, <1>2
<1>4. PICK c, e : c = Constant(k, q) /\ e = Constant(z, q)
  OBVIOUS
<1>5. c \in 0 .. q - 1 /\ e \in 0 .. q - 1 /\ c \in Int /\ e \in Int
  BY <1>1, <1>3, <1>4, ConstantFacts
<1>6. Same(c * c, e, q)
  <2>1. /\ Same(Constant(2 * z, q) * Constant(2 * z, q), Constant(z, q), q)
        /\ Same(Constant(2 * z + 1, q) * Constant(2 * z + 1, q), Constant(z, q), q)
    BY <1>3, ConstantFacts
  <2>2. k = 2 * z \/ k = 2 * z + 1
    BY <1>2
  <2>3. QED
    BY <1>4, <2>1, <2>2
<1>7. PICK s \in Int : s = c * c
  BY <1>5
<1>8. Same(e, s, q)
  BY ONLY <1>1, <1>5, <1>6, <1>7, SameSymmetric
<1>9. e = s % q
  BY ONLY <1>1, <1>5, <1>7, <1>8, SameResidue
<1>10. QED
  BY <1>2, <1>4, <1>7, <1>9

\* What the words of a block mean is what they read as.
LEMMA BlockReads ==
  ASSUME NttInv, NEW k \in 1 .. 2 * N - 1, NEW c, NEW a, \A i \in Idx : a[i] \in Nat,
         NEW t \in Nat, BlockHolds(path, c, k, a, t, prime)
  PROVE  HoldsRemainder(c, k, a, t)
<1>1. prime \in NttModuli /\ prime \in Moduli
  BY RootModulus DEF NttInv
<1>2. ASSUME NEW j \in 0 .. Length(k) - 1
      PROVE  Standard(c[First(k) + j]) = (t * Remainder(a, j, k, prime)) % prime
  <2>1. PICK w, r : w = c[First(k) + j] /\ r = Remainder(a, j, k, prime)
    OBVIOUS
  <2>2. r \in Int
    BY <1>1, <2>1, RemainderReduced
  <2>3. PICK x \in Int : x = t * r
    BY <2>2
  <2>4. Means(path, w, x, prime)
    BY <2>1, <2>3 DEF BlockHolds
  <2>5. Reads(path, w, prime) = x % prime
    BY <1>1, <2>4, MeansSame
  <2>6. Standard(w) = Reads(path, w, prime)
    BY DEF Standard, Reads
  <2>7. QED
    BY <2>1, <2>3, <2>5, <2>6
<1>3. QED
  BY <1>2 DEF HoldsRemainder

\* The invariant says what the loops compute.
LEMMA NttImplies ==
  ASSUME InputArrays, NttInv
  PROVE  TransformsMultiply
<1>1. /\ prime \in NttModuli /\ prime \in Moduli /\ N \in Nat /\ N >= 2
      /\ \A f \in 1 .. 2 : (\A j \in Idx : factors[f][j] \in Words) /\ (\A j \in Idx : factors[f][j] \in Nat)
      /\ \A j \in Idx : Product[j] \in Nat
      /\ Product = [x \in Idx |-> Negacyclic(factors[1], factors[2], x, prime)]
  BY FactorFacts, RootModulus, Dimension DEF NttInv
<1>2. InRange
  BY DEF NttInv, PhaseHolds, InRange
<1>3. LevelsHoldRemainders
  <2>1. ASSUME phase = "forward", NEW f \in 1 .. 2, NEW k \in block .. 2 * block - 1
        PROVE  HoldsRemainder(arrays[f], k, factors[f], 1)
    <3>1. block \in 1 .. N - 1 /\ ForwardHolds(path, arrays[f], block, factors[f], prime)
      BY <2>1 DEF NttInv, PhaseHolds
    <3>2. k \in 1 .. 2 * N - 1
      BY <1>1, <3>1
    <3>3. BlockHolds(path, arrays[f], k, factors[f], 1, prime)
      BY <3>1 DEF ForwardHolds
    <3>4. QED
      BY <1>1, <3>2, <3>3, BlockReads
  <2>2. ASSUME phase = "inverse", NEW k \in Joined \cup Unjoined
        PROVE  HoldsRemainder(arrays[1], k, Product, Length(k))
    <3>1. block \in 1 .. N - 1 /\ BlockHolds(path, arrays[1], k, Product, Length(k), prime)
      BY <2>2 DEF NttInv, PhaseHolds
    <3>2. k \in 1 .. 2 * N - 1
      <4>1. PICK h : h = HighBit(block) /\ h \in Nat /\ h >= 1 /\ 4 * h <= 2 * N /\ block < 2 * h
        BY <3>1, LevelsApart
      <4>2. k \in h .. block - 1 \/ k \in 2 * block .. 4 * h - 1
        BY <2>2, <4>1 DEF Joined, Unjoined
      <4>3. QED
        BY <1>1, <3>1, <4>1, <4>2
    <3>3. Length(k) \in Nat
      BY <3>2, BlockPlace
    <3>4. QED
      BY <1>1, <3>1, <3>2, <3>3, BlockReads
  <2>3. \A k \in 2 .. 2 * N - 1 :
          (Constant(k, prime) * Constant(k, prime)) % prime = Constant(k \div 2, prime)
    BY <1>1, ConstantSquares
  <2>4. QED
    BY <2>1, <2>2, <2>3 DEF LevelsHoldRemainders
<1>4. ProductIsNegacyclic
  <2>1. Product = Inverse(Pointwise("classical", Forward(factors[1], prime),
                                    Forward(factors[2], prime), prime), prime)
    <3>1. PICK a, b : a = factors[1] /\ b = factors[2]
      OBVIOUS
    <3>2. (\A j \in Idx : a[j] \in Words) /\ (\A j \in Idx : b[j] \in Words)
      BY <1>1, <3>1
    <3>3. Inverse(Pointwise("classical", Forward(a, prime), Forward(b, prime), prime), prime)
            = [x \in Idx |-> Negacyclic(a, b, x, prime)]
      BY <1>1, <3>2, WholeProduct
    <3>4. QED
      BY <1>1, <3>1, <3>3
  <2>2. phase = "done" => arrays[1] = Product
    BY DEF NttInv, PhaseHolds
  <2>3. QED
    BY <2>1, <2>2 DEF ProductIsNegacyclic
<1>5. QED
  BY <1>2, <1>3, <1>4 DEF TransformsMultiply

\* math/ntt.rs, NttContext and every kernel: whatever two arrays of words are multiplied, for
\* every modulus that with_moduli accepts, words stay below the modulus, the blocks hold the
\* remainders of the factors and of the product, and the end is the product modulo X^N + 1.
THEOREM TransformsAlwaysMultiply ==
  ASSUME InputArrays
  PROVE  NttSpec => []TransformsMultiply
<1>1. NttInit => NttInv
  BY NttStarts
<1>2. NttInv /\ [NttNext]_nttVars => NttInv'
  BY NttKeeps
<1>3. NttInv => TransformsMultiply
  BY NttImplies
<1>4. QED
  BY <1>1, <1>2, <1>3, PTL DEF NttSpec
=============================================================================
