---------------------------- MODULE ModuliProofs ----------------------------
(***************************************************************************)
(* Parameters, their moduli and the switch to a smaller one, for words,    *)
(* dimensions and moduli of every size. What validate, setup and           *)
(* from_versioned_bytes let through can be used: coefficients survive the  *)
(* gadget, widths pack, and what this crate made is accepted again unless  *)
(* it is too large to be decoded or its moduli multiply past a word. An    *)
(* answer that was switched any number of times is given back by the wire  *)
(* as it was sent, its error stays within its bound, and where that bound  *)
(* leaves room it reads as the message.                                    *)
(*                                                                         *)
(* The argument about parameters, in the order of the sections: the powers *)
(* of 1 + 2^c below the 2^b-th differ modulo 2^(c+b), so that the          *)
(* generator of a legal width has that order and 5 generates with its      *)
(* negatives; a modulus that passed the checks is 1 modulo twice the       *)
(* dimension, even when its product wrapped, so that every width has an    *)
(* inverse; the loop of min_gadget_len ends with the least number of       *)
(* digits that reaches the modulus. The invariant Inv then follows the     *)
(* parameters from the caller to the digits.                               *)
(*                                                                         *)
(* The argument about switched answers: the bytes of a residue make it     *)
(* again; a switch scales a phase, along the partial sums of its product;  *)
(* the reader rounds right within the bound. SwitchInv ties the answer,    *)
(* its wire and its bound together.                                        *)
(***************************************************************************)
EXTENDS CrsSteps, ModSwitch, ArithmeticLemmas, FiniteSetTheorems
-----------------------------------------------------------------------------
(* Powers of 1 + 2^c                                                       *)

\* Four times a power of two and one.
Step4(g, c) == g \in Nat /\ c \in Nat /\ c >= 2 /\ g = 1 + TwoTo(c)

\* The exponent of two in the d-th power of g less one is that of d, and c more.
Exact(g, c, d) ==
  \E k \in Nat, o \in Nat, u \in Nat :
    /\ d = TwoTo(k) * (2 * o + 1)
    /\ PowerOf(g, d) = 1 + TwoTo(c + k) * (2 * u + 1)

\* So it is when g is one more than a power of two divisible by 4.
LEMMA PowerLessOne ==
  ASSUME NEW g, NEW c, Step4(g, c), NEW d \in Nat, d >= 1
  PROVE  Exact(g, c, d)
<1> DEFINE Good(e) == Exact(g, c, e)
           Bad == {e \in Nat : e >= 1 /\ ~Good(e)}
<1>0. g \in Nat /\ c \in Nat /\ c >= 2 /\ g = 1 + TwoTo(c)
  BY DEF Step4
<1>1. /\ TwoTo(0) = 1 /\ PowerOf(g, 0) = 1
      /\ \A i \in Nat : TwoTo(i) \in Nat /\ TwoTo(i + 1) = TwoTo(i) * 2
      /\ \A i \in Nat : PowerOf(g, i) \in Nat /\ PowerOf(g, i + 1) = PowerOf(g, i) * g
  BY ONLY <1>0, TwoToStep, PowerOfStep
<1>2. SUFFICES ASSUME d \in Bad PROVE FALSE
  OBVIOUS
<1>3. PICK e \in Bad : \A x \in Bad : e <= x
  <2>1. Bad \in SUBSET Nat
    OBVIOUS
  <2> HIDE DEF Bad
  <2>2. QED
    BY <1>2, <2>1, LeastNat
<1>4. e \in Nat /\ e >= 1 /\ ~Good(e)
  OBVIOUS
<1>5. \A x \in Nat : x >= 1 /\ x < e => Good(x)
  <2>1. ASSUME NEW x \in Nat, x >= 1, x < e
        PROVE  Good(x)
    <3>1. x \notin Bad
      <4>1. x \in Bad => e <= x
        BY ONLY <1>0, <1>3
      <4>2. ~(e <= x)
        BY ONLY <1>0, <1>4, <2>1
      <4>3. QED
        BY ONLY <1>0, <4>1, <4>2
    <3>2. QED
      BY <2>1, <3>1
  <2> HIDE DEF Good
  <2>2. QED
    BY <2>1
<1>6. PICK h \in Nat : e = h + h \/ e = h + h + 1
  <2>1. e \in Int /\ 2 \in Nat \ {0}
    BY ONLY <1>0, <1>4
  <2>2. e = 2 * (e \div 2) + (e % 2) /\ e % 2 \in 0 .. 2 - 1 /\ (e \div 2) \in Int
    BY ONLY <1>0, <2>1, DivMod
  <2>3. PICK h \in Int, r \in 0 .. 1 : e = 2 * h + r
    BY ONLY <1>0, <2>2
  <2>4. h \in Nat
    BY ONLY <1>0, <1>4, <2>3, h \in Int, r \in 0 .. 1
  <2>5. QED
    BY ONLY <1>0, <2>3, <2>4, r \in 0 .. 1
<1>7. PICK z \in Nat : z = TwoTo(c) /\ g = 1 + z
  BY <1>0, <1>1
<1>8. CASE e = 1
  <2>1. PowerOf(g, 1) = g
    <3>1. PowerOf(g, 0 + 1) = 1 * g
      BY ONLY <1>0, <1>1
    <3>2. 0 + 1 = 1 /\ 1 * g = g
      BY ONLY <1>0
    <3>3. QED
      BY ONLY <1>0, <3>1, <3>2
  <2>2. e = TwoTo(0) * (2 * 0 + 1) /\ c + 0 = c
    BY <1>0, <1>1, <1>8
  <2>3. PowerOf(g, e) = 1 + TwoTo(c + 0) * (2 * 0 + 1)
    BY ONLY <1>0, <1>7, <1>8, <2>1, <2>2, z \in Nat
  <2>4. 0 \in Nat
    OBVIOUS
  <2>5. QED
    BY ONLY <1>0, <1>4, <2>2, <2>3, <2>4 DEF Exact
<1>9. CASE e # 1 /\ e = h + h
  <2>1. h >= 1 /\ h < e
    BY <1>4, <1>9
  <2>2. PICK k \in Nat, o \in Nat, u \in Nat :
          h = TwoTo(k) * (2 * o + 1) /\ PowerOf(g, h) = 1 + TwoTo(c + k) * (2 * u + 1)
    BY ONLY <1>0, <1>5, <2>1, h \in Nat DEF Exact
  <2>3. PICK j \in Nat : j + 2 = c + k
    BY ONLY <1>0, k \in Nat
  <2>4. PICK y \in Nat : y = TwoTo(j) /\ TwoTo(c + k) = 4 * y /\ TwoTo(c + (k + 1)) = 8 * y
    <3>1. (j + 1) + 1 = c + k /\ (c + k) + 1 = c + (k + 1) /\ j + 1 \in Nat /\ c + k \in Nat
      BY ONLY <1>0, <2>3, k \in Nat, j \in Nat
    <3>2. PICK y \in Nat : y = TwoTo(j)
      BY ONLY <1>0, <1>1, j \in Nat
    <3>3. TwoTo(j + 1) = y * 2
      BY ONLY <1>0, <1>1, <3>2, j \in Nat
    <3>4. TwoTo(c + k) = (y * 2) * 2
      BY ONLY <1>0, <1>1, <3>1, <3>3
    <3>5. TwoTo(c + (k + 1)) = ((y * 2) * 2) * 2
      BY ONLY <1>0, <1>1, <3>1, <3>4
    <3>6. QED
      BY ONLY <1>0, <3>2, <3>4, <3>5, y \in Nat
  <2>5. PICK w \in Nat : w = 2 * u + 1
    BY ONLY <1>0, u \in Nat
  <2>6. PICK s \in Nat : s = 4 * y * w /\ PowerOf(g, h) = 1 + s
    BY ONLY <1>0, <2>2, <2>4, <2>5, y \in Nat, w \in Nat
  <2>7. PowerOf(g, e) = (1 + s) * (1 + s)
    BY ONLY <1>0, <1>9, <2>6, h \in Nat, PowerOfSum
  <2>8. PICK t \in Nat : t = y * w * w
    BY ONLY <1>0, y \in Nat, w \in Nat
  <2>9. (1 + s) * (1 + s) = 1 + (8 * y) * (w + 2 * t)
    <3>1. (1 + s) * (1 + s) = 1 + 2 * s + s * s
      BY ONLY <1>0, s \in Nat
    <3>2. PICK v \in Nat : v = y * w
      BY ONLY <1>0, y \in Nat, w \in Nat
    <3>3. s = 4 * v /\ s * s = 16 * (v * v)
      BY ONLY <1>0, <2>6, <3>2, v \in Nat, s \in Nat, y \in Nat, w \in Nat
    <3>4. y * t = v * v
      BY ONLY <1>0, <2>8, <3>2, y \in Nat, w \in Nat
    <3>5. (8 * y) * (w + 2 * t) = 8 * v + 16 * (y * t)
      BY ONLY <1>0, <3>2, y \in Nat, w \in Nat, t \in Nat
    <3>6. QED
      BY ONLY <1>0, <3>1, <3>3, <3>4, <3>5, s \in Nat, v \in Nat
  <2>10. PICK u2 \in Nat : w + 2 * t = 2 * u2 + 1
    <3>1. w + 2 * t = 2 * (u + t) + 1 /\ u + t \in Nat
      BY ONLY <1>0, <2>5, u \in Nat, t \in Nat, w \in Nat
    <3>2. QED
      BY ONLY <1>0, <3>1
  <2>11. PowerOf(g, e) = 1 + TwoTo(c + (k + 1)) * (2 * u2 + 1)
    BY ONLY <1>0, <2>4, <2>7, <2>9, <2>10
  <2>12. e = TwoTo(k + 1) * (2 * o + 1)
    <3>1. PICK x \in Nat : x = TwoTo(k) /\ TwoTo(k + 1) = x * 2
      BY ONLY <1>0, <1>1, k \in Nat
    <3>2. h = x * (2 * o + 1)
      BY ONLY <1>0, <2>2, <3>1
    <3>3. PICK r \in Nat : r = 2 * o + 1
      BY ONLY <1>0, o \in Nat
    <3>4. x * r + x * r = (x * 2) * r
      BY ONLY <1>0, x \in Nat, r \in Nat
    <3>5. QED
      BY ONLY <1>0, <1>9, <3>1, <3>2, <3>3, <3>4
  <2>13. k + 1 \in Nat
    OBVIOUS
  <2>14. Good(e)
    BY ONLY <1>0, <2>11, <2>12, <2>13, o \in Nat, u2 \in Nat DEF Exact
  <2>15. QED
    BY ONLY <1>0, <1>4, <2>14
<1>10. CASE e # 1 /\ e = h + h + 1
  <2>1. h >= 1 /\ h + h < e /\ h + h >= 1 /\ h + h \in Nat
    BY <1>4, <1>10
  <2>2. PICK k \in Nat, o \in Nat, u \in Nat :
          /\ h + h = TwoTo(k) * (2 * o + 1)
          /\ PowerOf(g, h + h) = 1 + TwoTo(c + k) * (2 * u + 1)
    BY ONLY <1>0, <1>5, <2>1 DEF Exact
  <2>3. k # 0
    <3>1. ASSUME k = 0 PROVE FALSE
      <4>1. h + h = 1 * (2 * o + 1)
        BY ONLY <1>0, <1>1, <2>2, <3>1
      <4>2. QED
        BY ONLY <1>0, <4>1, h \in Nat, o \in Nat
    <3>2. QED
      BY <3>1
  <2>4. PICK j \in Nat : k = j + 1
    BY ONLY <1>0, <2>3, k \in Nat
  <2>5. PICK y \in Nat : y = TwoTo(j) /\ TwoTo(c + k) = z * (2 * y)
    <3>1. PICK y \in Nat : y = TwoTo(j) /\ TwoTo(k) = y * 2
      BY ONLY <1>0, <1>1, <2>4, j \in Nat
    <3>2. TwoTo(c + k) = z * TwoTo(k)
      <4>1. PICK s \in Nat : s = c + k
        BY ONLY <1>0, k \in Nat
      <4>2. TwoTo(s) = TwoTo(c) * TwoTo(k)
        BY ONLY <1>0, <4>1, k \in Nat, TwoToSum
      <4>3. QED
        BY ONLY <1>0, <1>7, <4>1, <4>2
    <3>3. QED
      BY ONLY <1>0, <3>1, <3>2, y \in Nat
  <2>6. PICK w \in Nat, s \in Nat : w = 2 * u + 1 /\ s = y * w /\ (2 * y) * w = 2 * s
    <3>1. PICK w \in Nat : w = 2 * u + 1
      BY ONLY <1>0, u \in Nat
    <3>2. (2 * y) * w = 2 * (y * w) /\ y * w \in Nat
      BY ONLY <1>0, y \in Nat, w \in Nat
    <3>3. QED
      BY ONLY <1>0, <3>1, <3>2
  <2>7. PowerOf(g, h + h) = 1 + z * (2 * s)
    <3>1. PowerOf(g, h + h) = 1 + (z * (2 * y)) * w
      BY ONLY <1>0, <2>2, <2>5, <2>6
    <3>2. (z * (2 * y)) * w = z * ((2 * y) * w)
      BY ONLY <1>0, z \in Nat, y \in Nat, w \in Nat
    <3>3. QED
      BY ONLY <1>0, <2>6, <3>1, <3>2
  <2>8. PowerOf(g, e) = (1 + z * (2 * s)) * (1 + z)
    <3>1. PowerOf(g, e) = PowerOf(g, h + h) * g
      BY ONLY <1>0, <1>1, <1>10, <2>1
    <3>2. QED
      BY ONLY <1>0, <1>7, <2>7, <3>1
  <2>9. PICK t \in Nat : t = z * s
    BY ONLY <1>0, z \in Nat, s \in Nat
  <2>10. (1 + z * (2 * s)) * (1 + z) = 1 + z * (2 * (s + t) + 1)
    <3>1. z * (2 * s) = 2 * t
      BY ONLY <1>0, <2>9, z \in Nat, s \in Nat
    <3>2. (1 + 2 * t) * (1 + z) = 1 + z + 2 * t + 2 * (t * z)
      BY ONLY <1>0, z \in Nat, t \in Nat
    <3>3. z * (2 * (s + t) + 1) = 2 * (z * s) + 2 * (t * z) + z
      BY ONLY <1>0, z \in Nat, t \in Nat, s \in Nat
    <3>4. QED
      BY ONLY <1>0, <2>9, <3>1, <3>2, <3>3, z \in Nat, t \in Nat
  <2>11. c + 0 = c /\ PowerOf(g, e) = 1 + TwoTo(c + 0) * (2 * (s + t) + 1) /\ s + t \in Nat
    BY ONLY <1>0, <1>7, <2>8, <2>10, s \in Nat, t \in Nat
  <2>12. e = TwoTo(0) * (2 * h + 1) /\ 0 \in Nat
    BY ONLY <1>0, <1>1, <1>10, h \in Nat
  <2>13. Good(e)
    BY ONLY <1>0, <2>11, <2>12, h \in Nat DEF Exact
  <2>14. QED
    BY ONLY <1>0, <1>4, <2>13
<1>11. QED
  BY ONLY <1>0, <1>6, <1>8, <1>9, <1>10

\* Products of odd numbers are odd, and so are powers.
LEMMA OddPower ==
  ASSUME NEW g \in Nat, g % 2 = 1, NEW n \in Nat
  PROVE  PowerOf(g, n) % 2 = 1
<1>1. /\ PowerOf(g, 0) = 1
      /\ \A i \in Nat : PowerOf(g, i) \in Nat /\ PowerOf(g, i + 1) = PowerOf(g, i) * g
  BY ONLY g \in Nat, PowerOfStep
<1> DEFINE T == {i \in 0 .. n : PowerOf(g, i) % 2 = 1}
<1>2. 0 \in T
  BY <1>1
<1>3. ASSUME NEW i \in 0 .. n, i # n, i \in T
      PROVE  i + 1 \in T
  <2>0. PowerOf(g, i) % 2 = 1 /\ i \in Nat
    BY ONLY <1>3, n \in Nat
  <2>1. PICK x \in Nat : x = PowerOf(g, i) /\ x % 2 = 1 /\ PowerOf(g, i + 1) = x * g
    BY ONLY <1>1, <2>0
  <2>2. PICK a \in Nat, h \in Nat : x = 2 * a + 1 /\ g = 2 * h + 1
    BY ONLY <2>1, g \in Nat, g % 2 = 1, x \in Nat
  <2>3. x * g = 2 * (2 * (a * h) + a + h) + 1
    BY ONLY <2>2, a \in Nat, h \in Nat
  <2>4. PICK y \in Nat : y = 2 * (a * h) + a + h
    BY ONLY a \in Nat, h \in Nat
  <2>5. (2 * y + 1) % 2 = 1
    BY ONLY y \in Nat
  <2>6. i + 1 \in 0 .. n /\ PowerOf(g, i + 1) % 2 = 1
    BY ONLY <1>3, <2>1, <2>3, <2>4, <2>5, n \in Nat
  <2>7. QED
    BY <2>6
<1> HIDE DEF T
<1>4. \A i \in 0 .. n : i \in T
  BY <1>2, <1>3, Induction
<1>5. n \in T
  BY <1>4
<1>6. QED
  BY <1>5 DEF T

\* x divides z an even number of times.
Doubles(x, z) == \E y \in Nat : z = x * (2 * y)

\* A lower power of two divides a higher one an even number of times.
LEMMA LowerPower ==
  ASSUME NEW k \in Nat, NEW b \in Nat, k < b, NEW c \in Nat
  PROVE  Doubles(TwoTo(c + k), TwoTo(c + b))
<1>1. PICK j \in Nat : b = k + (j + 1)
  <2>1. b - k - 1 \in Nat /\ b = k + ((b - k - 1) + 1)
    OBVIOUS
  <2>2. QED
    BY <2>1
<1>2. c + b = (c + k) + (j + 1) /\ c + k \in Nat /\ j + 1 \in Nat /\ 2 \in Nat
  BY <1>1
<1>3. TwoTo(c + b) = TwoTo(c + k) * TwoTo(j + 1)
  <2>1. PICK s \in Nat, m \in Nat, n \in Nat : s = c + b /\ m = c + k /\ n = j + 1 /\ s = m + n
    BY <1>2
  <2>2. TwoTo(s) = TwoTo(m) * TwoTo(n)
    BY ONLY <2>1, m \in Nat, n \in Nat, TwoToSum
  <2>3. QED
    BY ONLY <2>1, <2>2
<1>4. PICK y \in Nat : y = TwoTo(j) /\ TwoTo(j + 1) = y * 2
  BY ONLY <1>2, j \in Nat, TwoToStep
<1>5. y * 2 = 2 * y
  BY ONLY y \in Nat
<1>6. QED
  BY ONLY <1>3, <1>4, <1>5, y \in Nat DEF Doubles

\* The powers below 2^b of 1 + 2^c differ modulo 2^(c+b).
LEMMA PowersDiffer ==
  ASSUME NEW g, NEW c, Step4(g, c), NEW b \in Nat,
         NEW i \in Nat, NEW j \in Nat, i < j, j < TwoTo(b),
         PowerOf(g, i) % TwoTo(c + b) = PowerOf(g, j) % TwoTo(c + b)
  PROVE  FALSE
<1>0. g \in Nat /\ c \in Nat /\ c >= 2 /\ g = 1 + TwoTo(c)
  BY DEF Step4
<1>1. PICK d \in Nat : d >= 1 /\ j = i + d
  <2>1. j - i \in Nat /\ j - i >= 1 /\ j = i + (j - i)
    OBVIOUS
  <2>2. QED
    BY <2>1
<1>2. PICK k \in Nat, o \in Nat, u \in Nat :
           /\ d = TwoTo(k) * (2 * o + 1)
           /\ PowerOf(g, d) = 1 + TwoTo(c + k) * (2 * u + 1)
  <2>1. Exact(g, c, d)
    BY ONLY <1>1, Step4(g, c), d \in Nat, PowerLessOne
  <2>2. QED
    BY <2>1 DEF Exact
<1>3. TwoTo(k) \in Nat /\ TwoTo(b) \in Nat /\ TwoTo(c + k) \in Nat
  <2>1. c + k \in Nat
    BY <1>0
  <2>2. QED
    BY ONLY <2>1, k \in Nat, b \in Nat, TwoToStep
<1>4. k < b
  <2>1. PICK x \in Nat, y \in Nat : x = TwoTo(k) /\ y = TwoTo(b)
    BY <1>3
  <2>2. d = x + 2 * (x * o)
    BY ONLY <1>2, <2>1, x \in Nat, o \in Nat
  <2>3. x * o >= 0
    BY ONLY x \in Nat, o \in Nat
  <2>4. x < y
    BY ONLY <1>1, <2>1, <2>2, <2>3, d \in Nat, x \in Nat, y \in Nat, i \in Nat, j < TwoTo(b), j \in Nat, x * o \in Nat
  <2>5. b <= k => y <= x
    BY ONLY <1>0, <2>1, b \in Nat, k \in Nat, TwoToGrows
  <2>6. QED
    BY ONLY <2>4, <2>5, x \in Nat, y \in Nat, b \in Nat, k \in Nat
<1>5. PICK y \in Nat : TwoTo(c + b) = TwoTo(c + k) * (2 * y)
  <2>1. Doubles(TwoTo(c + k), TwoTo(c + b))
    BY ONLY <1>0, <1>4, k \in Nat, b \in Nat, LowerPower
  <2>2. QED
    BY <2>1 DEF Doubles
<1>6. PICK z \in Nat : z = TwoTo(c + k) /\ z >= 1
  <2>1. c + k \in Nat
    BY <1>0
  <2>2. QED
    BY ONLY <2>1, TwoToStep
<1>7. PICK m \in Nat \ {0} : m = TwoTo(c + b) /\ m = z * (2 * y)
  <2>1. c + b \in Nat
    BY <1>0
  <2>2. TwoTo(c + b) \in Nat /\ TwoTo(c + b) >= 1
    BY ONLY <2>1, TwoToStep
  <2>3. QED
    BY ONLY <1>5, <1>6, <2>2
<1>8. g % 2 = 1
  <2>1. PICK e \in Nat : c = e + 1
    BY ONLY <1>0
  <2>2. PICK x \in Nat : x = TwoTo(e) /\ TwoTo(c) = x * 2
    BY ONLY <1>0, <2>1, e \in Nat, TwoToStep
  <2>3. QED
    BY ONLY <1>0, <2>2, x \in Nat
<1>9. PICK p \in Nat, h \in Nat : p = PowerOf(g, i) /\ p = 2 * h + 1
  <2>1. PowerOf(g, i) \in Nat /\ PowerOf(g, i) % 2 = 1
    BY ONLY <1>0, <1>8, i \in Nat, PowerOfStep, OddPower
  <2>2. QED
    BY ONLY <2>1
<1>10. PICK w \in Nat : w = 2 * u + 1 /\ PowerOf(g, d) = 1 + z * w
  BY ONLY <1>2, <1>6, u \in Nat
<1>11. PowerOf(g, j) = p * (1 + z * w)
  <2>1. PowerOf(g, j) = PowerOf(g, i) * PowerOf(g, d)
    BY ONLY <1>0, <1>1, i \in Nat, d \in Nat, j \in Nat, PowerOfSum
  <2>2. QED
    BY ONLY <1>9, <1>10, <2>1
<1>12. PICK t \in Int : p * (1 + z * w) = p + m * t
  <2>1. PICK x \in Nat, r \in Nat : x = p /\ r = p * (1 + z * w)
    BY ONLY p \in Nat, z \in Nat, w \in Nat
  <2>2. x % m = r % m
    BY ONLY <1>7, <1>9, <1>11, <2>1,
       PowerOf(g, i) % TwoTo(c + b) = PowerOf(g, j) % TwoTo(c + b)
  <2>3. x \in Int /\ r \in Int
    OBVIOUS
  <2>4. /\ x = m * (x \div m) + (x % m) /\ (x \div m) \in Int
        /\ r = m * (r \div m) + (r % m) /\ (r \div m) \in Int /\ (x % m) \in Int
    <3>1. \A f \in 0 .. m - 1 : f \in Int
      BY ONLY m \in Nat \ {0}
    <3>2. QED
      BY ONLY <2>3, <3>1, m \in Nat \ {0}, DivMod
  <2>5. PICK s1 \in Int, s2 \in Int, f \in Int : s1 = x \div m /\ s2 = r \div m /\ f = x % m
    BY ONLY <2>4, Zenon
  <2>6. x = m * s1 + f /\ r = m * s2 + f
    BY ONLY <2>2, <2>4, <2>5
  <2>7. r = x + m * (s2 - s1) /\ s2 - s1 \in Int
    BY ONLY <2>6, s1 \in Int, s2 \in Int, f \in Int, m \in Nat \ {0}
  <2>8. QED
    BY ONLY <2>1, <2>7
<1>13. z * (p * w) = z * ((2 * y) * t)
  <2>1. p * (1 + z * w) = p + z * (p * w)
    BY ONLY p \in Nat, z \in Nat, w \in Nat
  <2>2. PICK x \in Nat, r \in Int, s \in Nat : x = z * (p * w) /\ r = m * t /\ s = p * w
    BY ONLY p \in Nat, z \in Nat, w \in Nat, m \in Nat \ {0}, t \in Int
  <2>3. x = r
    BY ONLY <1>12, <2>1, <2>2, x \in Nat, r \in Int, p \in Nat
  <2>4. r = z * ((2 * y) * t)
    BY ONLY <1>7, <2>2, z \in Nat, y \in Nat, t \in Int
  <2>5. QED
    BY ONLY <2>2, <2>3, <2>4
<1>14. p * w = (2 * y) * t
  <2>1. PICK r \in Int, s \in Int : r = p * w /\ s = (2 * y) * t
    BY ONLY p \in Nat, w \in Nat, y \in Nat, t \in Int
  <2>2. z * r = z * s
    BY ONLY <1>13, <2>1
  <2>3. z * (r - s) = 0
    BY ONLY <2>2, z \in Nat, r \in Int, s \in Int
  <2>4. r - s = 0
    BY ONLY <1>6, <2>3, z \in Nat, r \in Int, s \in Int
  <2>5. QED
    BY ONLY <2>1, <2>4, r \in Int, s \in Int
<1>15. p * w = 2 * (2 * (h * u) + h + u) + 1
  BY ONLY <1>9, <1>10, h \in Nat, u \in Nat
<1>16. PICK a \in Nat, q \in Int : a = 2 * (h * u) + h + u /\ q = y * t
  BY ONLY h \in Nat, u \in Nat, y \in Nat, t \in Int
<1>17. 2 * a + 1 = 2 * q
  BY ONLY <1>14, <1>15, <1>16, y \in Nat, t \in Int
<1>18. QED
  BY ONLY <1>17, a \in Nat, q \in Int

\* The power 2^b of 1 + 2^c is 1 modulo 2^(c+b).
LEMMA PowerReturns ==
  ASSUME NEW g, NEW c, Step4(g, c), NEW b \in Nat
  PROVE  PowerOf(g, TwoTo(b)) % TwoTo(c + b) = 1
<1>0. c + b \in Nat /\ g \in Nat /\ c \in Nat /\ c >= 2 /\ g = 1 + TwoTo(c)
  BY DEF Step4
<1>1. PICK d \in Nat : d = TwoTo(b) /\ d >= 1
  BY ONLY b \in Nat, TwoToStep
<1>2. PICK k \in Nat, o \in Nat, u \in Nat :
           /\ d = TwoTo(k) * (2 * o + 1)
           /\ PowerOf(g, d) = 1 + TwoTo(c + k) * (2 * u + 1)
  <2>1. Exact(g, c, d)
    BY ONLY <1>1, Step4(g, c), d \in Nat, PowerLessOne
  <2>2. QED
    BY <2>1 DEF Exact
<1>3. ~(k < b)
  <2>1. ASSUME k < b PROVE FALSE
    <3>1. PICK y \in Nat : TwoTo(0 + b) = TwoTo(0 + k) * (2 * y)
      <4>1. 0 \in Nat
        OBVIOUS
      <4>2. QED
        BY ONLY <2>1, <4>1, k \in Nat, b \in Nat, LowerPower DEF Doubles
    <3>2. 0 + b = b /\ 0 + k = k
      BY ONLY k \in Nat, b \in Nat
    <3>3. PICK x \in Nat : x = TwoTo(k) /\ x >= 1
      BY ONLY k \in Nat, TwoToStep
    <3>4. x * (2 * y) = x * (2 * o + 1)
      BY ONLY <1>1, <1>2, <3>1, <3>2, <3>3
    <3>5. x * (2 * y - (2 * o + 1)) = 0
      BY ONLY <3>4, x \in Nat, y \in Nat, o \in Nat
    <3>6. 2 * y - (2 * o + 1) = 0
      <4>1. PICK r \in Int : r = 2 * y - (2 * o + 1)
        BY ONLY y \in Nat, o \in Nat
      <4>2. x * r = 0
        BY ONLY <3>5, <4>1
      <4>3. r = 0
        BY ONLY <3>3, <4>2, x \in Nat, r \in Int
      <4>4. QED
        BY ONLY <4>1, <4>3
    <3>7. QED
      BY ONLY <3>6, y \in Nat, o \in Nat
  <2>2. QED
    BY <2>1
<1>4. PICK e \in Nat : k = b + e
  <2>1. k - b \in Nat /\ k = b + (k - b)
    BY ONLY <1>3, k \in Nat, b \in Nat
  <2>2. QED
    BY <2>1
<1>5. PICK m \in Nat : m = TwoTo(c + b) /\ m >= 2
  <2>1. TwoTo(1) = 2
    <3>0. 0 \in Nat
      OBVIOUS
    <3>1. TwoTo(0 + 1) = 1 * 2
      BY ONLY <3>0, TwoToStep
    <3>2. QED
      BY <3>1
  <2>2. 1 \in Nat /\ 1 <= c + b
    BY <1>0
  <2>3. TwoTo(1) <= TwoTo(c + b)
    BY ONLY <1>0, <2>2, TwoToGrows
  <2>4. TwoTo(c + b) \in Nat
    BY ONLY <1>0, TwoToStep
  <2>5. QED
    BY ONLY <2>1, <2>3, <2>4
<1>6. PICK f \in Nat : TwoTo(c + k) = m * f
  <2>1. c + k = (c + b) + e
    BY ONLY <1>4, <1>0, b \in Nat, e \in Nat
  <2>4. PICK s \in Nat, n \in Nat : s = c + k /\ n = c + b /\ s = n + e
    BY ONLY <1>0, <2>1, k \in Nat
  <2>5. TwoTo(s) = TwoTo(n) * TwoTo(e)
    BY ONLY <2>4, n \in Nat, e \in Nat, TwoToSum
  <2>2. TwoTo(c + k) = TwoTo(c + b) * TwoTo(e) /\ TwoTo(e) \in Nat
    BY ONLY <1>0, <2>4, <2>5, e \in Nat, TwoToStep
  <2>3. QED
    BY ONLY <1>5, <2>2
<1>7. PICK v \in Int : v = f * (2 * u + 1)
  BY ONLY f \in Nat, u \in Nat
<1>8. (m * f) * (2 * u + 1) = m * v
  <2>1. PICK w \in Nat : w = 2 * u + 1
    BY ONLY u \in Nat
  <2>2. (m * f) * w = m * (f * w)
    BY ONLY m \in Nat, f \in Nat, w \in Nat
  <2>3. QED
    BY ONLY <1>7, <2>1, <2>2
<1>9. PICK x \in Int : x = PowerOf(g, d) /\ x = m * v + 1
  <2>1. PowerOf(g, d) = 1 + m * v
    BY ONLY <1>2, <1>6, <1>8
  <2>2. PICK r \in Int : r = m * v
    BY ONLY m \in Nat, v \in Int
  <2>3. QED
    BY ONLY <2>1, <2>2
<1>10. m \in Nat \ {0} /\ 1 \in 0 .. m - 1
  BY ONLY <1>5, m \in Nat
<1>11. x % m = 1
  BY ONLY <1>9, <1>10, x \in Int, v \in Int, DivModUnique
<1>12. QED
  BY ONLY <1>1, <1>5, <1>9, <1>11
-----------------------------------------------------------------------------
(* Generators and widths                                                   *)

\* 2 ^ k is the k-th power of two.
LEMMA WordPowers ==
  ASSUME CrsAssumption, PowersDouble
  PROVE  /\ \A k \in 0 .. Bits : 2 ^ k = TwoTo(k)
         /\ Word = TwoTo(Bits) /\ Word \in Nat /\ Word >= 2
<1> DEFINE T == {k \in 0 .. Bits : 2 ^ k = TwoTo(k)}
<1>1. Bits \in Nat /\ Bits >= 1
  BY DEF CrsAssumption
<1>2. 0 \in T
  <2>1. 0 \in 0 .. Bits
    BY ONLY <1>1
  <2>2. 2 ^ 0 = TwoTo(0)
    BY TwoToStep DEF PowersDouble
  <2>3. QED
    BY <2>1, <2>2
<1>3. ASSUME NEW k \in 0 .. Bits, k # Bits, k \in T
      PROVE  k + 1 \in T
  <2>1. k \in 0 .. Bits - 1 /\ k + 1 \in 0 .. Bits /\ k \in Nat
    BY ONLY <1>1, <1>3
  <2>2. 2 ^ (k + 1) = 2 * 2 ^ k /\ 2 ^ k = TwoTo(k)
    BY <1>3, <2>1 DEF PowersDouble
  <2>3. PICK x \in Nat : x = TwoTo(k) /\ TwoTo(k + 1) = x * 2
    BY ONLY <2>1, TwoToStep
  <2>4. 2 ^ (k + 1) = TwoTo(k + 1)
    BY ONLY <2>2, <2>3, x \in Nat
  <2>5. QED
    BY <2>1, <2>4
<1> HIDE DEF T
<1>4. \A k \in 0 .. Bits : k \in T
  BY <1>1, <1>2, <1>3, Induction
<1>5. \A k \in 0 .. Bits : 2 ^ k = TwoTo(k)
  BY <1>4 DEF T
<1>6. Bits \in 0 .. Bits
  BY ONLY <1>1
<1>7. Word = TwoTo(Bits)
  BY ONLY <1>5, <1>6 DEF Word
<1>8. TwoTo(Bits) \in Nat /\ TwoTo(Bits) >= 2
  <2>1. PICK j \in Nat : Bits = j + 1
    <3>1. Bits - 1 \in Nat /\ Bits = (Bits - 1) + 1
      BY ONLY <1>1
    <3>2. QED
      BY ONLY <3>1
  <2>2. PICK x \in Nat : x = TwoTo(j) /\ x >= 1 /\ TwoTo(Bits) = x * 2
    BY ONLY <2>1, TwoToStep
  <2>3. QED
    BY ONLY <2>2, x \in Nat
<1>9. QED
  BY ONLY <1>5, <1>7, <1>8

\* gen_pows: the powers of the generator modulo 2n.
LEMMA GenPowsReads ==
  ASSUME NEW n \in Nat \ {0}, NEW g \in Nat
  PROVE  \A i \in 0 .. n - 1 : GenPows(n, g)[i] = (PowerOf(g, i) % (2 * n))
<1> DEFINE F(h) == [i \in 0 .. n - 1 |-> IF i = 0 THEN 1 ELSE (h[i - 1] * g) % (2 * n)]
           f == [i \in 0 .. n - 1 |-> PowerOf(g, i) % (2 * n)]
<1>1. PICK m \in Nat \ {0} : m = 2 * n /\ m >= 2
  OBVIOUS
<1>2. /\ PowerOf(g, 0) = 1
      /\ \A i \in Nat : PowerOf(g, i) \in Nat /\ PowerOf(g, i + 1) = PowerOf(g, i) * g
  BY ONLY g \in Nat, PowerOfStep
<1>3. ASSUME NEW i \in 0 .. n - 1
      PROVE  f[i] = IF i = 0 THEN 1 ELSE (f[i - 1] * g) % (2 * n)
  <2>1. CASE i = 0
    <3>1. 1 % m = 1
      BY ONLY <1>1, m \in Nat \ {0}
    <3>2. QED
      BY <1>1, <1>2, <2>1, <3>1
  <2>2. CASE i # 0
    <3>1. PICK j \in 0 .. n - 1 : i = j + 1 /\ j = i - 1 /\ j \in Nat
      BY <2>2
    <3>2. f[i] = PowerOf(g, i) % m /\ f[i - 1] = PowerOf(g, j) % m
      BY <1>1, <3>1
    <3>3. PICK x \in Nat : x = PowerOf(g, j) /\ PowerOf(g, i) = x * g
      BY ONLY <1>2, <3>1
    <3>4. (x * g) % m = ((x % m) * g) % m
      BY ONLY m \in Nat \ {0}, x \in Nat, g \in Nat, ReducedFactors
    <3>5. f[i] = (f[i - 1] * g) % m
      BY ONLY <3>2, <3>3, <3>4
    <3> HIDE DEF f
    <3>6. QED
      BY ONLY <1>1, <2>2, <3>5
  <2>3. QED
    BY <2>1, <2>2
<1>4. f = F(f)
  <2>1. f = [i \in 0 .. n - 1 |-> f[i]]
    BY Zenon
  <2> HIDE DEF f
  <2>2. QED
    BY ONLY <1>3, <2>1, Zenon
<1>5. GenPows(n, g) = CHOOSE h : h = F(h)
  BY Zenon DEF GenPows
<1> HIDE DEF f
<1>6. PICK y : y = GenPows(n, g) /\ y = F(y)
  <2> HIDE DEF F
  <2>1. QED
    BY ONLY <1>4, <1>5, Zenon
<1>7. \A i \in 0 .. n - 1 : y[i] = IF i = 0 THEN 1 ELSE (y[i - 1] * g) % (2 * n)
  BY ONLY <1>6, Zenon
<1> DEFINE T == {i \in 0 .. n - 1 : y[i] = f[i]}
<1>8. n - 1 \in Nat /\ 0 \in 0 .. n - 1
  OBVIOUS
<1>9. 0 \in T
  BY ONLY <1>3, <1>7, <1>8
<1>10. ASSUME NEW i \in 0 .. n - 1, i # n - 1, i \in T
       PROVE  i + 1 \in T
  <2>1. i + 1 \in 0 .. n - 1 /\ i + 1 # 0 /\ (i + 1) - 1 = i /\ y[i] = f[i]
    BY <1>10
  <2>2. y[i + 1] = (y[i] * g) % (2 * n) /\ f[i + 1] = (f[i] * g) % (2 * n)
    BY ONLY <1>3, <1>7, <2>1
  <2>3. QED
    BY ONLY <2>1, <2>2
<1> HIDE DEF T
<1>11. \A i \in 0 .. n - 1 : i \in T
  BY ONLY <1>8, <1>9, <1>10, Induction
<1>12. \A i \in 0 .. n - 1 : y[i] = f[i]
  BY ONLY <1>11 DEF T
<1>13. \A i \in 0 .. n - 1 : f[i] = (PowerOf(g, i) % (2 * n))
  BY DEF f
<1>14. QED
  BY ONLY <1>6, <1>12, <1>13

\* PackParams::is_legal_width: what the exponents of a legal width are.
Exponents(n, w, b, c) ==
  /\ b \in Nat /\ c \in Nat /\ w = TwoTo(b) /\ 2 * n = TwoTo(c + b)
  /\ Step4(Generator(n, w), c) /\ w \in 1 .. n /\ n >= 2 /\ n % 2 = 0

\* A legal width has them.
LEMMA LegalExponents ==
  ASSUME CrsAssumption, PowersDouble, NEW n \in Nat, NEW w \in Nat, IsLegalWidth(n, w)
  PROVE  \E b \in Nat, c \in Nat : Exponents(n, w, b, c)
<1>0. Bits \in Nat
  BY DEF CrsAssumption
<1>1. PICK a \in Nat, b \in Nat : n = TwoTo(a) /\ w = TwoTo(b) /\ w <= n \div 2
  <2>1. \A k \in 0 .. Bits - 1 : k \in 0 .. Bits /\ k \in Nat
    BY ONLY <1>0
  <2>2. QED
    BY <2>1, WordPowers DEF IsLegalWidth, IsPowerOfTwo
<1>2. a # 0 /\ w >= 1
  <2>1. w >= 1
    BY ONLY <1>1, b \in Nat, TwoToStep
  <2>2. a = 0 => n = 1
    BY ONLY <1>1, TwoToStep
  <2>3. 1 \div 2 = 0
    OBVIOUS
  <2>4. QED
    BY ONLY <1>1, <2>1, <2>2, <2>3
<1>3. PICK e \in Nat : a = e + 1
  BY <1>2
<1>4. PICK x \in Nat : x = TwoTo(e) /\ x >= 1 /\ n = x * 2 /\ n \div 2 = x
  <2>1. PICK x \in Nat : x = TwoTo(e) /\ x >= 1 /\ n = x * 2
    BY ONLY <1>1, <1>3, TwoToStep
  <2>2. n \div 2 = x
    BY ONLY <2>1, x \in Nat
  <2>3. QED
    BY <2>1, <2>2
<1>5. b <= e
  <2>1. e < b => TwoTo(e) < TwoTo(b)
    BY ONLY e \in Nat, b \in Nat, TwoToGrows
  <2>2. QED
    BY ONLY <1>1, <1>4, <2>1, e \in Nat, b \in Nat, x \in Nat, w \in Nat
<1>6. PICK d \in Nat, c \in Nat : e = d + b /\ c = d + 2
  <2>1. e - b \in Nat /\ e = (e - b) + b
    BY <1>5
  <2>2. QED
    BY <2>1
<1>7. PICK y \in Nat, u \in Nat : y = TwoTo(d) /\ u = TwoTo(b) /\ x = y * u /\ y >= 1 /\ u >= 1
  <2>1. PICK y \in Nat, u \in Nat : y = TwoTo(d) /\ u = TwoTo(b) /\ y >= 1 /\ u >= 1
    BY ONLY d \in Nat, b \in Nat, TwoToStep
  <2>2. TwoTo(e) = TwoTo(d) * TwoTo(b)
    BY ONLY <1>6, d \in Nat, b \in Nat, e \in Nat, TwoToSum
  <2>3. QED
    BY ONLY <1>4, <2>1, <2>2
<1>8. TwoTo(c) = 4 * y
  <2>1. (d + 1) + 1 = c /\ d + 1 \in Nat
    BY <1>6
  <2>2. TwoTo(d + 1) = y * 2
    BY ONLY <1>7, d \in Nat, TwoToStep
  <2>3. TwoTo(c) = (y * 2) * 2
    BY ONLY <2>1, <2>2, TwoToStep
  <2>4. QED
    BY ONLY <2>3, y \in Nat
<1>9. 2 * n = TwoTo(c + b)
  <2>1. PICK s \in Nat : s = c + b
    OBVIOUS
  <2>2. TwoTo(s) = TwoTo(c) * TwoTo(b)
    BY ONLY <2>1, b \in Nat, c \in Nat, TwoToSum
  <2>3. (4 * y) * u = 2 * ((y * u) * 2)
    BY ONLY y \in Nat, u \in Nat
  <2>4. QED
    BY ONLY <1>4, <1>7, <1>8, <2>1, <2>2, <2>3
<1>10. Generator(n, w) = 1 + TwoTo(c)
  <2>1. PICK m \in Nat : m = 2 * n /\ m = w * (4 * y)
    <3>1. 2 * ((y * u) * 2) = u * (4 * y)
      BY ONLY y \in Nat, u \in Nat
    <3>2. QED
      BY <1>1, <1>4, <1>7, <3>1
  <2>2. PICK z \in Int : z = 4 * y
    OBVIOUS
  <2>3. m = w * z + 0 /\ w \in Nat \ {0} /\ 0 \in 0 .. w - 1 /\ m \in Int
    BY ONLY <1>2, <2>1, <2>2, w \in Nat, m \in Nat, z \in Int
  <2>4. m \div w = z
    BY ONLY <2>3, z \in Int, DivModUnique
  <2>5. QED
    BY ONLY <1>8, <2>1, <2>2, <2>4, y \in Nat DEF Generator
<1>11. Step4(Generator(n, w), c)
  BY <1>6, <1>8, <1>10 DEF Step4
<1>12. w \in 1 .. n /\ n >= 2 /\ n % 2 = 0
  <2>1. n % 2 = 0
    BY ONLY <1>4, x \in Nat
  <2>2. QED
    BY ONLY <1>1, <1>2, <1>4, <2>1, x \in Nat, w \in Nat, n \in Nat
<1>13. QED
  BY ONLY <1>1, <1>9, <1>11, <1>12, b \in Nat, c \in Nat DEF Exponents

\* The powers of the generator below the width differ, and the width-th is 1.
LEMMA WidthIsOrder ==
  ASSUME NEW n \in Nat, NEW w \in Nat, NEW b, NEW c, Exponents(n, w, b, c)
  PROVE  LET g == Generator(n, w)  pows == GenPows(n, g)
         IN  /\ \A i, j \in 0 .. w - 1 : pows[i] = pows[j] => i = j
             /\ (pows[w - 1] * g) % (2 * n) = 1
             /\ \A i \in 0 .. w - 1 : pows[i] \in 0 .. 2 * n - 1 /\ pows[i] % 4 = 1
<1> DEFINE g == Generator(n, w)  pows == GenPows(n, g)
<1>1. /\ b \in Nat /\ c \in Nat /\ w = TwoTo(b) /\ 2 * n = TwoTo(c + b)
      /\ Step4(g, c) /\ w \in 1 .. n /\ n >= 2 /\ n % 2 = 0
  BY DEF Exponents
<1>2. g \in Nat /\ c >= 2 /\ g = 1 + TwoTo(c)
  BY ONLY <1>1 DEF Step4
<1> HIDE DEF g
<1>3. \A i \in 0 .. n - 1 : pows[i] = (PowerOf(g, i) % (2 * n))
  <2>1. n \in Nat \ {0}
    BY ONLY <1>1, n \in Nat
  <2>2. QED
    BY ONLY <1>2, <2>1, GenPowsReads
<1> HIDE DEF pows
<1>4. \A i \in 0 .. w - 1 : i \in 0 .. n - 1 /\ i \in Nat /\ i < w
  BY ONLY <1>1, n \in Nat, w \in Nat
<1>5. ASSUME NEW i \in 0 .. w - 1, NEW j \in 0 .. w - 1, pows[i] = pows[j], i < j
      PROVE  FALSE
  <2>1. (PowerOf(g, i) % TwoTo(c + b)) = (PowerOf(g, j) % TwoTo(c + b))
    BY ONLY <1>1, <1>3, <1>4, <1>5
  <2>2. i \in Nat /\ j \in Nat /\ j < TwoTo(b)
    BY ONLY <1>1, <1>4, <1>5
  <2>3. QED
    BY ONLY <1>1, <1>5, <2>1, <2>2, PowersDiffer
<1>6. \A i, j \in 0 .. w - 1 : pows[i] = pows[j] => i = j
  <2>1. \A i, j \in 0 .. w - 1 : i < j \/ j < i \/ i = j
    BY ONLY w \in Nat
  <2>2. QED
    BY ONLY <1>5, <2>1
<1>7. (pows[w - 1] * g) % (2 * n) = 1
  <2>1. PICK m \in Nat \ {0}, k \in Nat : m = 2 * n /\ k = w - 1 /\ w = k + 1 /\ k \in 0 .. n - 1
    <3>1. 2 * n \in Nat \ {0} /\ w - 1 \in Nat /\ w = (w - 1) + 1 /\ w - 1 \in 0 .. n - 1
      BY ONLY <1>1, n \in Nat, w \in Nat
    <3>2. QED
      BY ONLY <3>1
  <2>2. PICK x \in Nat : x = PowerOf(g, k) /\ PowerOf(g, w) = x * g
    <3>1. PICK x \in Nat : x = PowerOf(g, k) /\ PowerOf(g, k + 1) = x * g
      BY ONLY <1>2, k \in Nat, PowerOfStep
    <3>2. QED
      BY ONLY <2>1, <3>1, x \in Nat
  <2>3. pows[w - 1] = x % m
    BY ONLY <1>3, <2>1, <2>2
  <2>4. ((x % m) * g) % m = (x * g) % m
    BY ONLY <1>2, m \in Nat \ {0}, x \in Nat, ReducedFactors
  <2>5. PowerOf(g, TwoTo(b)) % TwoTo(c + b) = 1
    BY ONLY <1>1, PowerReturns
  <2>6. QED
    BY ONLY <1>1, <2>1, <2>2, <2>3, <2>4, <2>5
<1>8. ASSUME NEW i \in 0 .. w - 1
      PROVE  pows[i] \in 0 .. 2 * n - 1 /\ pows[i] % 4 = 1
  <2>1. PICK x \in Nat : x = PowerOf(g, i) /\ pows[i] = x % (2 * n)
    BY ONLY <1>2, <1>3, <1>4, <1>8, PowerOfStep
  <2>2. PICK h \in Nat : 2 * n = 4 * h /\ h >= 1
    BY ONLY <1>1, n \in Nat
  <2>3. PICK v \in Nat : g = 1 + 4 * v
    <3>1. PICK e \in Nat : c = (e + 1) + 1
      BY ONLY <1>1, <1>2
    <3>2. PICK y \in Nat : y = TwoTo(e) /\ TwoTo(e + 1) = y * 2 /\ e + 1 \in Nat
      BY ONLY e \in Nat, TwoToStep
    <3>3. TwoTo(c) = (y * 2) * 2
      BY ONLY <3>1, <3>2, TwoToStep
    <3>4. g = 1 + 4 * y
      BY ONLY <1>2, <3>3, y \in Nat
    <3>5. QED
      BY ONLY <3>4, y \in Nat
  <2>4. x % 4 = 1
    <3>1. /\ PowerOf(g, 0) = 1
          /\ \A k \in Nat : PowerOf(g, k) \in Nat /\ PowerOf(g, k + 1) = PowerOf(g, k) * g
      BY ONLY <1>2, PowerOfStep
    <3> DEFINE T == {k \in 0 .. i : PowerOf(g, k) % 4 = 1}
    <3>2. i \in Nat /\ 0 \in 0 .. i
      BY ONLY <1>4, <1>8
    <3>3. 0 \in T
      BY ONLY <3>1, <3>2
    <3>4. ASSUME NEW k \in 0 .. i, k # i, k \in T
          PROVE  k + 1 \in T
      <4>1. k \in Nat /\ k + 1 \in 0 .. i /\ PowerOf(g, k) % 4 = 1
        BY ONLY <3>2, <3>4
      <4>2. PICK z \in Nat : z = PowerOf(g, k) /\ z % 4 = 1 /\ PowerOf(g, k + 1) = z * g
        BY ONLY <3>1, <4>1
      <4>3. PICK r \in Nat : z = 4 * r + 1
        <5>1. z \in Int /\ 4 \in Nat \ {0}
          OBVIOUS
        <5>2. z = 4 * (z \div 4) + (z % 4) /\ (z \div 4) \in Int
          BY ONLY <5>1, DivMod
        <5>3. PICK s \in Int : z = 4 * s + 1
          BY ONLY <4>2, <5>2
        <5>4. s \in Nat
          BY ONLY <5>3, z \in Nat, s \in Int
        <5>5. QED
          BY ONLY <5>3, <5>4
      <4>4. z * g = 4 * (4 * (r * v) + r + v) + 1
        BY ONLY <2>3, <4>3, r \in Nat, v \in Nat
      <4>5. PICK s \in Nat : s = 4 * (r * v) + r + v
        BY ONLY r \in Nat, v \in Nat
      <4>6. (4 * s + 1) % 4 = 1
        BY ONLY s \in Nat
      <4>7. QED
        BY ONLY <4>1, <4>2, <4>4, <4>5, <4>6
    <3> HIDE DEF T
    <3>5. \A k \in 0 .. i : k \in T
      BY ONLY <3>2, <3>3, <3>4, Induction
    <3>6. i \in T
      BY ONLY <3>2, <3>5
    <3>7. QED
      BY ONLY <2>1, <3>6 DEF T
  <2>5. PICK m \in Nat \ {0} : m = 2 * n /\ m = 4 * h
    BY ONLY <1>1, <2>2, n \in Nat
  <2>6. x = m * (x \div m) + (x % m) /\ (x \div m) \in Int /\ (x % m) \in 0 .. m - 1
    <3>1. x \in Int
      OBVIOUS
    <3>2. QED
      BY ONLY <3>1, m \in Nat \ {0}, DivMod
  <2>7. PICK s \in Int, f \in Int : s = x \div m /\ f = x % m
    BY ONLY <2>6, m \in Nat \ {0}
  <2>8. PICK t \in Int : t = h * s
    BY ONLY h \in Nat, s \in Int
  <2>9. x = 4 * t + f
    <3>1. x = (4 * h) * s + f
      BY ONLY <2>5, <2>6, <2>7
    <3>2. (4 * h) * s = 4 * (h * s)
      BY ONLY h \in Nat, s \in Int
    <3>3. QED
      BY ONLY <2>8, <3>1, <3>2
  <2>10. f % 4 = 1
    BY ONLY <2>4, <2>9, x \in Nat, t \in Int, f \in Int
  <2>11. QED
    BY ONLY <2>1, <2>5, <2>6, <2>7, <2>10
<1>9. QED
  BY <1>6, <1>7, <1>8 DEF g, pows

\* mod_inverse_u64: q is one more than a multiple of every legal width.
LEMMA WidthInverts ==
  ASSUME NEW n \in Nat, NEW w \in Nat, NEW b, NEW c, Exponents(n, w, b, c),
         NEW q \in Nat, q % (2 * n) = 1
  PROVE  Inverses(w, q) # {}
<1>1. /\ b \in Nat /\ c \in Nat /\ w = TwoTo(b) /\ 2 * n = TwoTo(c + b)
      /\ w \in 1 .. n /\ n >= 2
  BY DEF Exponents
<1>2. PICK f \in Nat : f >= 1 /\ 2 * n = f * w
  <2>1. PICK s \in Nat : s = c + b
    BY ONLY <1>1
  <2>2. TwoTo(s) = TwoTo(c) * TwoTo(b)
    BY ONLY <1>1, <2>1, TwoToSum
  <2>3. TwoTo(c) \in Nat /\ TwoTo(c) >= 1
    BY ONLY <1>1, TwoToStep
  <2>4. QED
    BY ONLY <1>1, <2>1, <2>2, <2>3
<1>3. PICK m \in Nat \ {0} : m = 2 * n /\ m >= 4
  <2>1. 2 * n \in Nat \ {0} /\ 2 * n >= 4
    BY ONLY <1>1, n \in Nat
  <2>2. QED
    BY ONLY <2>1
<1>4. PICK t \in Nat : q = m * t + 1
  <2>1. q \in Int
    OBVIOUS
  <2>2. q = m * (q \div m) + (q % m) /\ (q \div m) \in Int
    BY ONLY <2>1, m \in Nat \ {0}, DivMod
  <2>3. PICK t \in Int : q = m * t + 1
    BY ONLY <1>3, <2>2, q % (2 * n) = 1
  <2>4. t >= 0
    <3>1. ASSUME t <= -1 PROVE FALSE
      <4>1. m * t <= m * (-1)
        BY ONLY <3>1, m \in Nat \ {0}, t \in Int
      <4>2. QED
        BY ONLY <1>3, <2>3, <4>1, q \in Nat, m \in Nat \ {0}, t \in Int
    <3>2. QED
      BY ONLY <3>1, t \in Int
  <2>5. QED
    BY ONLY <2>3, <2>4, t \in Int
<1>5. CASE t = 0
  <2>1. q = 1
    BY ONLY <1>4, <1>5, m \in Nat \ {0}
  <2>2. 0 \in 0 .. q - 1 /\ (w * 0) % q = 1 % q
    BY ONLY <2>1, w \in Nat
  <2>3. QED
    BY ONLY <2>2 DEF Inverses
<1>6. CASE t # 0
  <2>1. PICK y \in Nat : y = f * t /\ y >= 1
    <3>1. f * t \in Nat /\ f * t >= 1
      BY ONLY <1>2, <1>6, f \in Nat, t \in Nat
    <3>2. QED
      BY ONLY <3>1
  <2>2. q = w * y + 1
    <3>1. q = (f * w) * t + 1
      BY ONLY <1>2, <1>3, <1>4
    <3>2. (f * w) * t = w * (f * t)
      BY ONLY f \in Nat, w \in Nat, t \in Nat
    <3>3. QED
      BY ONLY <2>1, <3>1, <3>2
  <2>3. w * y >= y
    BY ONLY <1>1, w \in Nat, y \in Nat
  <2>4. PICK x \in 0 .. q - 1 : x = q - y
    <3>1. PICK z \in Nat : z = w * y
      BY ONLY w \in Nat, y \in Nat
    <3>2. q - y \in 0 .. q - 1
      BY ONLY <2>1, <2>2, <2>3, <3>1, y \in Nat, z \in Nat, q \in Nat
    <3>3. QED
      BY ONLY <3>2
  <2>5. q > 1
    <3>1. m * t >= 1
      BY ONLY <1>6, m \in Nat \ {0}, t \in Nat
    <3>2. PICK z \in Nat : z = m * t
      BY ONLY m \in Nat \ {0}, t \in Nat
    <3>3. QED
      BY ONLY <1>4, <3>1, <3>2, z \in Nat
  <2>6. PICK v \in Int, k \in Int : v = w * x /\ k = w - 1 /\ v = q * k + 1
    <3>1. w * (q - y) = w * q - w * y
      BY ONLY w \in Nat, q \in Nat, y \in Nat
    <3>2. q * (w - 1) = w * q - q
      BY ONLY w \in Nat, q \in Nat
    <3>3. PICK v \in Int, k \in Int : v = w * x /\ k = w - 1
      BY ONLY x \in 0 .. q - 1, w \in Nat, q \in Nat
    <3>4. PICK z1 \in Int, z2 \in Int : z1 = w * q /\ z2 = w * y
      BY ONLY w \in Nat, q \in Nat, y \in Nat
    <3>5. v = z1 - z2 /\ q = z2 + 1 /\ q * k = z1 - q
      BY ONLY <2>2, <2>4, <3>1, <3>2, <3>3, <3>4
    <3>6. v = (z1 - q) + 1
      BY ONLY <3>5, z1 \in Int, z2 \in Int, q \in Nat
    <3>7. QED
      BY ONLY <3>3, <3>5, <3>6, v \in Int, k \in Int
  <2>7. q \in Nat \ {0} /\ 1 \in 0 .. q - 1
    BY ONLY <2>5, q \in Nat
  <2>8. v % q = 1
    BY ONLY <2>6, <2>7, v \in Int, k \in Int, DivModUnique
  <2>9. 1 % q = 1
    BY ONLY <2>5, q \in Nat
  <2>10. (w * x) % q = 1 % q
    BY ONLY <2>6, <2>8, <2>9
  <2>11. QED
    BY ONLY <2>10, x \in 0 .. q - 1 DEF Inverses
<1>7. QED
  BY <1>5, <1>6

\* try_new_full: the powers of 5 and their negatives are the odd numbers below 2n.
LEMMA FiveGenerates ==
  ASSUME CrsAssumption, PowersDouble, NEW n \in Nat, n >= 4, IsPowerOfTwo(n)
  PROVE  LET full == GenPows(n, FullGenerator)
         IN  {full[i] : i \in 0 .. n \div 2 - 1} \cup {2 * n - full[i] : i \in 0 .. n \div 2 - 1}
               = {2 * i + 1 : i \in 0 .. n - 1}
<1> DEFINE full == GenPows(n, FullGenerator)
<1>0. Bits \in Nat
  BY DEF CrsAssumption
<1>1. PICK k \in 0 .. Bits - 1 : n = TwoTo(k) /\ n = 2 ^ k
  <2>1. \A i \in 0 .. Bits - 1 : i \in 0 .. Bits
    BY ONLY <1>0
  <2>2. QED
    BY <2>1, WordPowers DEF IsPowerOfTwo
<1>2. PICK m \in Nat : n = 2 * m /\ m = n \div 2 /\ m >= 2 /\ IsPowerOfTwo(m)
  <2>1. k # 0
    <3>1. TwoTo(0) = 1
      BY TwoToStep
    <3>2. k = 0 => n = 1
      BY ONLY <1>1, <3>1
    <3>3. QED
      BY ONLY <3>2, n \in Nat, n >= 4
  <2>2. PICK j \in Nat : k = j + 1 /\ j \in 0 .. Bits - 1 /\ j \in 0 .. Bits
    <3>1. k - 1 \in Nat /\ k = (k - 1) + 1 /\ k - 1 \in 0 .. Bits - 1 /\ k - 1 \in 0 .. Bits
      BY ONLY <1>0, <2>1, k \in 0 .. Bits - 1
    <3>2. QED
      BY ONLY <3>1
  <2>3. PICK m \in Nat : m = TwoTo(j) /\ n = m * 2
    BY ONLY <1>1, <2>2, j \in Nat, TwoToStep
  <2>4. n = 2 * m /\ m = n \div 2 /\ m >= 2
    BY ONLY <2>3, m \in Nat, n \in Nat, n >= 4
  <2>5. m = 2 ^ j
    BY <2>2, <2>3, WordPowers
  <2>6. IsPowerOfTwo(m)
    BY ONLY <2>2, <2>5 DEF IsPowerOfTwo
  <2>7. QED
    BY ONLY <2>4, <2>6, m \in Nat
<1>3. IsLegalWidth(n, m)
  <2>1. m <= n \div 2
    BY ONLY <1>2, m \in Nat
  <2>2. QED
    BY <1>2, <2>1 DEF IsLegalWidth
<1>4. PICK b \in Nat, c \in Nat : Exponents(n, m, b, c)
  BY <1>3, LegalExponents
<1>5. Generator(n, m) = FullGenerator
  <2>1. (2 * n) \div m = 4
    <3>1. PICK a \in Int : a = 2 * n /\ a = m * 4 + 0
      BY ONLY <1>2, m \in Nat
    <3>2. m \in Nat \ {0} /\ 0 \in 0 .. m - 1
      BY ONLY <1>2, m \in Nat
    <3>3. a \div m = 4
      BY ONLY <3>1, <3>2, a \in Int, DivModUnique
    <3>4. QED
      BY ONLY <3>1, <3>3
  <2>2. QED
    BY ONLY <2>1 DEF Generator, FullGenerator
<1>6. /\ \A i, j \in 0 .. m - 1 : full[i] = full[j] => i = j
      /\ \A i \in 0 .. m - 1 : full[i] \in 0 .. 2 * n - 1 /\ full[i] % 4 = 1
  BY ONLY <1>4, <1>5, m \in Nat, n \in Nat, WidthIsOrder
<1> HIDE DEF full
<1> DEFINE S == 0 .. m - 1
           h == [i \in S |-> full[i] \div 4]
<1>7. ASSUME NEW i \in S
      PROVE  h[i] \in S /\ full[i] = 4 * h[i] + 1
  <2>1. PICK x \in Nat : x = full[i] /\ x < 4 * m /\ x % 4 = 1
    BY ONLY <1>2, <1>6, i \in S, m \in Nat, n \in Nat
  <2>2. x \in Int /\ 4 \in Nat \ {0}
    OBVIOUS
  <2>3. x = 4 * (x \div 4) + (x % 4) /\ (x \div 4) \in Int
    BY ONLY <2>2, DivMod
  <2>4. PICK z \in Int : z = x \div 4 /\ x = 4 * z + 1
    BY ONLY <2>1, <2>3
  <2>5. z \in 0 .. m - 1
    BY ONLY <2>1, <2>4, x \in Nat, z \in Int, m \in Nat
  <2>6. h[i] = z
    BY <2>1, <2>4
  <2> HIDE DEF h
  <2>7. QED
    BY ONLY <2>1, <2>4, <2>5, <2>6
<1>8. h \in Injection(S, S)
  <2>1. h \in [S -> S]
    BY <1>7
  <2>2. ASSUME NEW i \in S, NEW j \in S, h[i] = h[j]
        PROVE  i = j
    <3>1. full[i] = full[j]
      BY ONLY <1>7, <2>2
    <3>2. QED
      BY ONLY <1>6, <3>1, i \in S, j \in S
  <2> HIDE DEF h, S
  <2>3. QED
    BY ONLY <2>1, <2>2 DEF Injection, IsInjective
<1>9. h \in Surjection(S, S)
  <2>1. 0 \in Int /\ m - 1 \in Int
    OBVIOUS
  <2>2. IsFiniteSet(S)
    BY ONLY <2>1, FS_Interval
  <2> HIDE DEF h, S
  <2>3. QED
    BY ONLY <1>8, <2>2, FS_Injection
<1>10. \A j \in S : \E i \in S : full[i] = 4 * j + 1
  <2>1. \A j \in S : \E i \in S : h[i] = j
    <3> HIDE DEF h, S
    <3>1. QED
      BY ONLY <1>9 DEF Surjection
  <2> HIDE DEF h, S
  <2>2. QED
    BY ONLY <1>7, <2>1
<1> DEFINE A == {full[i] : i \in S}  B == {2 * n - full[i] : i \in S}
           odd == {2 * i + 1 : i \in 0 .. n - 1}
<1>11. ASSUME NEW i \in S
       PROVE  full[i] \in odd /\ 2 * n - full[i] \in odd
  <2>1. PICK z \in S : full[i] = 4 * z + 1
    BY ONLY <1>7, i \in S
  <2>2. /\ 2 * z \in 0 .. n - 1 /\ 4 * z + 1 = 2 * (2 * z) + 1
        /\ n - 2 * z - 1 \in 0 .. n - 1 /\ 2 * n - (4 * z + 1) = 2 * (n - 2 * z - 1) + 1
    BY ONLY <1>2, m \in Nat, n \in Nat, z \in S
  <2>3. QED
    BY ONLY <2>1, <2>2
<1>12. ASSUME NEW x \in odd
       PROVE  x \in A \cup B
  <2>1. PICK i \in 0 .. n - 1 : x = 2 * i + 1
    OBVIOUS
  <2>2. PICK j \in S : x = 4 * j + 1 \/ x = 2 * n - (4 * j + 1)
    <3>1. PICK z \in Nat, r \in 0 .. 1 : i = 2 * z + r
      <4>1. i \in Int /\ 2 \in Nat \ {0}
        BY ONLY i \in 0 .. n - 1, n \in Nat
      <4>2. i = 2 * (i \div 2) + (i % 2) /\ (i \div 2) \in Int /\ (i % 2) \in 0 .. 2 - 1
        BY ONLY <4>1, DivMod
      <4>3. PICK z \in Int, r \in 0 .. 1 : i = 2 * z + r
        BY ONLY <4>2
      <4>4. z \in Nat
        BY ONLY <4>3, z \in Int, r \in 0 .. 1, i \in 0 .. n - 1, n \in Nat
      <4>5. QED
        BY ONLY <4>3, <4>4, r \in 0 .. 1
    <3>2. CASE r = 0
      <4>1. z \in S /\ x = 4 * z + 1
        BY ONLY <1>2, <2>1, <3>1, <3>2, z \in Nat, i \in 0 .. n - 1, n \in Nat, m \in Nat
      <4>2. QED
        BY ONLY <4>1
    <3>3. CASE r = 1
      <4>1. m - z - 1 \in S /\ x = 2 * n - (4 * (m - z - 1) + 1)
        BY ONLY <1>2, <2>1, <3>1, <3>3, z \in Nat, i \in 0 .. n - 1, n \in Nat, m \in Nat
      <4>2. QED
        BY ONLY <4>1
    <3>4. QED
      BY <3>1, <3>2, <3>3
  <2>3. PICK l \in S : full[l] = 4 * j + 1
    BY ONLY <1>10, j \in S
  <2>4. QED
    BY ONLY <2>2, <2>3
<1>13. A \cup B = odd
  BY <1>11, <1>12
<1>14. QED
  BY <1>2, <1>13 DEF full
-----------------------------------------------------------------------------
(* What the checks of validate say                                         *)

\* The product of a sequence is the last of its partial products.
LEMMA ProductList ==
  ASSUME NEW s \in Seq(Nat)
  PROVE  \E p \in [0 .. Len(s) -> Nat] :
           /\ Product(s) = p[Len(s)] /\ p[0] = 1
           /\ \A i \in 0 .. Len(s) : i # 0 => p[i] = p[i - 1] * s[i]
<1> DEFINE n == Len(s)
           F(g) == [i \in 0 .. n |-> IF i = 0 THEN 1 ELSE g[i - 1] * s[i]]
           G == [i \in 0 .. n |-> [x \in Nat |-> IF i = 0 THEN x ELSE x * s[i]]]
<1>1. n \in Nat /\ \A i \in 0 .. n : i # 0 => i \in 1 .. n /\ s[i] \in Nat
  OBVIOUS
<1> HIDE DEF n
<1>2. Recurs(Nat, n, 1, G)
  <2>1. ASSUME NEW i \in 0 .. n, NEW x \in Nat
        PROVE  (IF i = 0 THEN x ELSE x * s[i]) \in Nat
    BY <1>1
  <2>2. G \in [0 .. n -> [Nat -> Nat]]
    BY <2>1
  <2>3. QED
    BY <1>1, <2>2 DEF Recurs
<1>3. PICK f : Solves(f, Nat, n, 1, G)
  <2> HIDE DEF G
  <2>1. QED
    BY ONLY <1>2, RecursionExists, Zenon
<1>4. ASSUME NEW i \in 0 .. n
      PROVE  f[i] = IF i = 0 THEN 1 ELSE f[i - 1] * s[i]
  <2>1. i # 0 => f[i - 1] \in Nat
    BY <1>1, <1>3 DEF Solves
  <2>2. f[i] = IF i = 0 THEN 1 ELSE G[i][f[i - 1]]
    BY ONLY <1>3, i \in 0 .. n, Zenon DEF Solves
  <2>3. i # 0 => G[i][f[i - 1]] = f[i - 1] * s[i]
    BY ONLY <2>1, i \in 0 .. n
  <2> HIDE DEF G
  <2>4. QED
    BY ONLY <2>2, <2>3
<1>5. f = F(f)
  <2>1. f = [i \in 0 .. n |-> f[i]]
    BY <1>3 DEF Solves
  <2>2. QED
    BY ONLY <1>4, <2>1, Zenon
<1>6. PICK y : y = F(y) /\ Product(s) = y[n]
  <2>1. Product(s) = (CHOOSE y : y = F(y))[n]
    BY Zenon DEF Product, n
  <2> HIDE DEF F
  <2>2. QED
    BY ONLY <1>5, <2>1, Zenon
<1>7. \A i \in 0 .. n : y[i] = IF i = 0 THEN 1 ELSE y[i - 1] * s[i]
  BY ONLY <1>6, Zenon
<1> DEFINE T == {i \in 0 .. n : y[i] \in Nat}
<1>8. 0 \in T
  BY <1>1, <1>7
<1>9. ASSUME NEW i \in 0 .. n, i # n, i \in T
      PROVE  i + 1 \in T
  <2>1. i + 1 \in 0 .. n /\ i + 1 # 0 /\ (i + 1) - 1 = i /\ y[i] \in Nat
    BY <1>1, <1>9
  <2>2. y[i + 1] = y[i] * s[i + 1] /\ s[i + 1] \in Nat
    BY ONLY <1>1, <1>7, <2>1
  <2>3. y[i + 1] \in Nat
    BY ONLY <2>1, <2>2
  <2>4. QED
    BY <2>1, <2>3
<1> HIDE DEF T
<1>10. \A i \in 0 .. n : i \in T
  BY <1>1, <1>8, <1>9, Induction
<1>11. \A i \in 0 .. n : y[i] \in Nat
  BY <1>10 DEF T
<1>12. y \in [0 .. n -> Nat]
  <2>1. y = [i \in 0 .. n |-> IF i = 0 THEN 1 ELSE y[i - 1] * s[i]]
    BY <1>6
  <2>2. QED
    BY ONLY <1>11, <2>1
<1>13. 0 \in 0 .. n
  BY <1>1
<1>14. QED
  BY <1>6, <1>7, <1>12, <1>13 DEF n

\* It is a natural number.
LEMMA ProductType ==
  ASSUME NEW s \in Seq(Nat)
  PROVE  Product(s) \in Nat
<1>1. PICK p \in [0 .. Len(s) -> Nat] : Product(s) = p[Len(s)]
  BY ProductList
<1>2. Len(s) \in 0 .. Len(s)
  OBVIOUS
<1>3. QED
  BY <1>1, <1>2

\* Moduli that are 1 modulo m have such a product.
LEMMA ProductIsOne ==
  ASSUME NEW s \in Seq(Nat), NEW m \in Nat, m >= 2, \A i \in 1 .. Len(s) : s[i] % m = 1
  PROVE  Same(Product(s), 1, m)
<1>0. Len(s) \in Nat /\ m \in Nat \ {0}
  OBVIOUS
<1>1. PICK p \in [0 .. Len(s) -> Nat] :
           /\ Product(s) = p[Len(s)] /\ p[0] = 1
           /\ \A i \in 0 .. Len(s) : i # 0 => p[i] = p[i - 1] * s[i]
  BY ProductList
<1> DEFINE T == {i \in 0 .. Len(s) : Same(p[i], 1, m)}
<1>2. 0 \in T
  <2>1. Same(1, 1, m) /\ 0 \in 0 .. Len(s)
    BY <1>0, SameReflexive
  <2>2. QED
    BY <1>1, <2>1
<1>3. ASSUME NEW i \in 0 .. Len(s), i # Len(s), i \in T
      PROVE  i + 1 \in T
  <2>1. i + 1 \in 0 .. Len(s) /\ i + 1 \in 1 .. Len(s) /\ i + 1 # 0 /\ (i + 1) - 1 = i
    BY <1>3
  <2>2. PICK x \in Int, y \in Int : x = p[i] /\ y = s[i + 1]
    <3>1. p[i] \in Int
      BY ONLY <1>1, i \in 0 .. Len(s)
    <3>2. s[i + 1] \in Nat
      BY ONLY <2>1, s \in Seq(Nat)
    <3>3. s[i + 1] \in Int
      BY ONLY <3>2
    <3>4. QED
      BY ONLY <3>1, <3>3
  <2>3. p[i + 1] = x * y
    BY ONLY <1>1, <2>1, <2>2
  <2>4. Same(x, 1, m)
    BY <1>3, <2>2
  <2>5. Same(y, 1, m)
    <3>1. Same(y % m, y, m) /\ y % m = 1
      BY <1>0, <2>1, <2>2, SameMod
    <3>2. 1 \in Int
      OBVIOUS
    <3>3. QED
      BY ONLY <1>0, <3>1, <3>2, y \in Int, m \in Nat, SameSymmetric
  <2>6. Same(x * y, 1 * 1, m)
    <3>1. 1 \in Int
      OBVIOUS
    <3>2. QED
      BY ONLY <2>4, <2>5, <3>1, x \in Int, y \in Int, m \in Nat, SameProduct
  <2>7. 1 * 1 = 1
    OBVIOUS
  <2>8. QED
    BY <2>1, <2>3, <2>6, <2>7
<1> HIDE DEF T
<1>4. \A i \in 0 .. Len(s) : i \in T
  BY <1>0, <1>2, <1>3, Induction
<1>5. Len(s) \in T
  BY <1>0, <1>4
<1>6. QED
  BY <1>1, <1>5 DEF T

\* validate's verdict is the first check that fails.
LEMMA DefectReads ==
  ASSUME NEW s, NEW pr
  PROVE  /\ Defect(s, pr) = NoDefect <=> \A i \in 1 .. 9 : ~Fails(i, s, pr)
         /\ \/ Defect(s, pr) = NoDefect
            \/ \E i \in 1 .. 9 : Fails(i, s, pr) /\ Defect(s, pr) = Checks[i]
<1> DEFINE failing == {i \in DOMAIN Checks :
                         /\ \A j \in 1 .. i - 1 : ~Fails(j, s, pr)
                         /\ Fails(i, s, pr)}
<1>1. DOMAIN Checks = 1 .. 9 /\ \A i \in 1 .. 9 : Checks[i] # NoDefect
  BY DEF Checks, NoDefect
<1>2. Defect(s, pr) = IF failing = {} THEN NoDefect ELSE Checks[CHOOSE i \in failing : TRUE]
  BY DEF Defect
<1>3. CASE failing = {}
  <2>1. Defect(s, pr) = NoDefect
    BY <1>2, <1>3
  <2>2. ASSUME NEW x \in 1 .. 9, Fails(x, s, pr)
        PROVE  FALSE
    <3> DEFINE T == {i \in 1 .. 9 : Fails(i, s, pr)}
    <3>1. T \in SUBSET Nat /\ x \in T
      BY <2>2
    <3> HIDE DEF T
    <3>2. PICK m \in T : \A k \in T : m <= k
      BY <3>1, LeastNat
    <3>3. m \in 1 .. 9 /\ Fails(m, s, pr)
      BY DEF T
    <3>4. \A j \in 1 .. m - 1 : ~Fails(j, s, pr)
      <4>1. \A j \in 1 .. m - 1 : j \in 1 .. 9 /\ ~(m <= j)
        BY ONLY <3>3
      <4>2. QED
        BY ONLY <3>2, <4>1 DEF T
    <3>5. m \in failing
      BY ONLY <1>1, <3>3, <3>4
    <3>6. QED
      BY <1>3, <3>5
  <2>3. QED
    BY <2>1, <2>2
<1>4. CASE failing # {}
  <2>1. PICK k : k = (CHOOSE i \in failing : TRUE) /\ k \in failing
    BY <1>4, Zenon
  <2>2. k \in 1 .. 9 /\ Fails(k, s, pr)
    BY ONLY <1>1, <2>1
  <2>3. Defect(s, pr) = Checks[k]
    BY ONLY <1>2, <1>4, <2>1
  <2>4. QED
    BY ONLY <1>1, <2>2, <2>3
<1>5. QED
  BY <1>3, <1>4

\* What passed the checks of validate.
Checked(s) == \E pr \in Products(s.moduli) : Defect(s, pr) = NoDefect

\* The modulus that validate accepted, whether or not its product wrapped.
LEMMA CheckedModulus ==
  ASSUME CrsAssumption, PowersDouble, NEW s \in ParamRecords, Checked(s)
  PROVE  /\ s.q % (2 * s.ringDim) = 1 /\ s.q \in 1 .. Word - 1
         /\ IsPowerOfTwo(s.ringDim) /\ s.ringDim \in Nat \ {0}
         /\ \A pr \in Products(s.moduli) : pr # NoProduct => pr = s.q
         /\ Defect(s, s.q) = NoDefect
<1>1. s.q \in 0 .. Word - 1 /\ s.moduli \in Seq(Nat) /\ s.ringDim \in Nat
  BY DEF ParamRecords
<1>2. PICK pr \in Products(s.moduli) : Defect(s, pr) = NoDefect
  BY DEF Checked
<1>3. /\ IsPowerOfTwo(s.ringDim) /\ s.q = pr
      /\ \A m \in Members(s.moduli) : m % (2 * s.ringDim) = 1
  <2>1. ~Fails(1, s, pr) /\ ~Fails(4, s, pr) /\ ~Fails(5, s, pr)
    BY <1>2, DefectReads
  <2>2. QED
    BY ONLY <2>1 DEF Fails
<1>4. Word \in Nat /\ Word >= 2 /\ Word = TwoTo(Bits) /\ Bits \in Nat
  BY WordPowers DEF CrsAssumption
<1>5. PICK k \in Nat, m \in Nat, y \in Nat :
        s.ringDim = TwoTo(k) /\ m = 2 * s.ringDim /\ m >= 2 /\ Word = m * y
  <2>1. PICK k \in 0 .. Bits - 1 : s.ringDim = TwoTo(k)
    <3>1. \A i \in 0 .. Bits - 1 : i \in 0 .. Bits
      BY ONLY <1>4
    <3>2. QED
      BY <1>3, <3>1, WordPowers DEF IsPowerOfTwo
  <2>2. PICK i \in Nat, j \in Nat : i = k + 1 /\ Bits = i + j
    <3>1. k + 1 \in Nat /\ Bits - (k + 1) \in Nat /\ Bits = (k + 1) + (Bits - (k + 1))
      BY ONLY <1>4, k \in 0 .. Bits - 1
    <3>2. QED
      BY ONLY <3>1
  <2>3. TwoTo(Bits) = TwoTo(i) * TwoTo(j)
    BY ONLY <1>4, <2>2, i \in Nat, j \in Nat, TwoToSum
  <2>4. k \in Nat
    BY ONLY <1>4, k \in 0 .. Bits - 1
  <2>5. PICK x \in Nat : x = s.ringDim /\ TwoTo(i) = 2 * x /\ x >= 1
    <3>1. TwoTo(k) \in Nat /\ TwoTo(k) >= 1 /\ TwoTo(i) = TwoTo(k) * 2
      BY ONLY <2>2, <2>4, TwoToStep
    <3>2. QED
      BY ONLY <2>1, <3>1
  <2>6. TwoTo(j) \in Nat
    BY ONLY j \in Nat, TwoToStep
  <2>7. 2 * x \in Nat /\ 2 * x >= 2
    BY ONLY <2>5, x \in Nat
  <2>8. QED
    BY ONLY <1>4, <2>1, <2>3, <2>4, <2>5, <2>6, <2>7
<1>6. PICK x \in Nat : x = Product(s.moduli) /\ Same(x, 1, m)
  <2>1. PICK t \in Seq(Nat) : t = s.moduli
    BY ONLY <1>1
  <2>2. \A i \in 1 .. Len(t) : t[i] % m = 1
    <3>1. ASSUME NEW i \in 1 .. Len(t)
          PROVE  t[i] \in Members(t)
      BY ONLY <3>1, t \in Seq(Nat) DEF Members
    <3>2. QED
      BY ONLY <1>3, <1>5, <2>1, <3>1
  <2>3. Same(Product(t), 1, m) /\ Product(t) \in Nat
    BY ONLY <1>5, <2>2, m \in Nat, t \in Seq(Nat), ProductIsOne, ProductType
  <2>4. QED
    BY ONLY <2>1, <2>3
<1>7. s.q = x \/ s.q = x % Word
  BY <1>1, <1>2, <1>3, <1>6, <1>4 DEF Products, NoProduct
<1>8. Same(s.q, 1, m)
  <2>1. CASE s.q = x
    BY <1>6, <2>1
  <2>2. CASE s.q = x % Word
    <3>1. Word \in Nat \ {0} /\ x \in Int
      BY <1>4
    <3>2. x = Word * (x \div Word) + (x % Word) /\ (x \div Word) \in Int
      BY ONLY <3>1, DivMod
    <3>3. PICK d \in Int, r \in Int : d = x \div Word /\ r = s.q
      <4>1. s.q \in Int
        BY ONLY <1>1, <1>4
      <4>2. QED
        BY ONLY <3>2, <4>1
    <3>4. x = (m * y) * d + r
      BY ONLY <1>5, <2>2, <3>2, <3>3
    <3>5. PICK e \in Int : e = y * d
      BY ONLY y \in Nat, d \in Int
    <3>6. (m * y) * d = m * e
      BY ONLY <3>5, m \in Nat, y \in Nat, d \in Int
    <3>7. PICK l \in Int : x = 1 + m * l
      BY ONLY <1>6 DEF Same
    <3>8. r = 1 + m * (l - e) /\ l - e \in Int
      BY ONLY <3>4, <3>6, <3>7, m \in Nat, l \in Int, e \in Int, x \in Nat, r \in Int
    <3>9. QED
      BY ONLY <3>3, <3>8 DEF Same
  <2>3. QED
    BY ONLY <1>7, <2>1, <2>2
<1>9. s.q % m = 1
  <2>1. m \in Nat \ {0} /\ 1 \in 0 .. m - 1 /\ s.q \in Int /\ 1 \in Int
    BY ONLY <1>1, <1>4, <1>5, m \in Nat
  <2>2. PICK z \in Int : z = s.q
    BY ONLY <2>1
  <2>3. PICK l \in Int : z = 1 + m * l
    BY ONLY <1>8, <2>2 DEF Same
  <2>4. z = m * l + 1
    BY ONLY <2>3, m \in Nat, l \in Int, z \in Int
  <2>5. z % m = 1
    BY ONLY <2>1, <2>4, z \in Int, l \in Int, DivModUnique
  <2>6. QED
    BY ONLY <2>2, <2>5
<1>10. s.q \in 1 .. Word - 1
  <2>1. s.q # 0
    <3>1. 0 % m = 0
      BY ONLY <1>5, m \in Nat
    <3>2. QED
      BY ONLY <1>9, <3>1
  <2>2. QED
    BY ONLY <1>1, <1>4, <2>1
<1>11. s.ringDim \in Nat \ {0}
  BY ONLY <1>1, <1>5, m \in Nat
<1>12. \A pr2 \in Products(s.moduli) : pr2 # NoProduct => pr2 = s.q
  <2>1. s.q # NoProduct
    BY ONLY <1>1, <1>4 DEF NoProduct
  <2>2. QED
    BY ONLY <1>2, <1>3, <2>1 DEF Products
<1>13. QED
  BY ONLY <1>2, <1>3, <1>5, <1>9, <1>10, <1>11, <1>12
-----------------------------------------------------------------------------
(* The inductive invariant                                                 *)

\* What the whole of validate leaves: some number of digits that the gadget has
\* reaches the modulus.
Covered(s) ==
  /\ s.base >= 2
  /\ \E n \in 1 .. Bits : n <= s.len /\ s.q <= PowerOf(s.base, n)
Sound(s) == Checked(s) /\ Covered(s)

\* A reason is given by a refusal, and a caller starts over with nothing.
Started ==
  /\ at # "refused" => reason = NoDefect
  /\ at = "idle" => made = "none" /\ own = FALSE
  /\ override \in Seq(Nat)

\* The loop of min_gadget_len: no smaller number of digits reaches its target.
Looping ==
  at = "covering" =>
    /\ needed \in 1 .. Bits /\ covered = PowerOf(Base, needed) /\ Base >= 2
    /\ \A n \in 1 .. needed - 1 : PowerOf(Base, n) < Target
    /\ goal # "widen" => Checked(params)

\* for_scenario_with_crt, before and after it has made its parameters.
Widening ==
  /\ goal = "widen" =>
       /\ at \in {"covering", "panicked", "refused"} /\ made = "widened"
       /\ at = "covering" => Widens(override)
  /\ made = "widened" /\ goal # "widen" =>
       /\ params.q = Product(override) /\ params.moduli = override
       /\ Product(override) < Word /\ Covered(params)
  /\ made = "widened" => reason \notin {"gadget", "product", "base"}

\* Where a CRS is, validate has accepted its parameters, and its width is legal.
Accepting ==
  /\ at \in {"valid", "ready", "digits", "joined", "packed"} => Sound(params)
  /\ at = "ready" /\ width > 0 => IsLegalWidth(params.ringDim, width)

\* A CRS that setup made stays one that every check lets through, but for its size and
\* the product of its moduli.
Owning ==
  own =>
    /\ at \notin {"idle", "held"}
    /\ at = "refused" => TooLarge \/ WrappedModuli
    /\ at \in {"blob", "checks", "covering", "valid"} => goal = "load"
    /\ goal # "widen" /\ Sound(params) /\ width > 0 /\ IsLegalWidth(params.ringDim, width)

\* The digits that are out and the digits that are left make the coefficient.
Splitting ==
  at \in {"digits", "joined"} =>
    /\ digit \in 0 .. params.len /\ value \in 0 .. params.q - 1
    /\ value = rest * PowerOf(params.base, digit) + sum
    /\ Same(current, PowerOf(params.base, digit), params.q)
    /\ at = "joined" => digit = params.len

Inv == TypeOK /\ Started /\ Looping /\ Widening /\ Accepting /\ Owning /\ Splitting
-----------------------------------------------------------------------------
(* The loop of min_gadget_len and the parameters that are made             *)

\* min_gadget_len: Bits digits of any base reach every word.
LEMMA WordReached ==
  ASSUME CrsAssumption, PowersDouble, NEW b \in Nat, b >= 2
  PROVE  Word <= PowerOf(b, Bits) /\ Word \in Nat /\ Word >= 2
<1>1. Bits \in Nat /\ Word = TwoTo(Bits) /\ Word \in Nat /\ Word >= 2
  BY WordPowers DEF CrsAssumption
<1>2. PICK a \in Nat : a = 2 /\ a <= b
  BY ONLY b \in Nat, b >= 2
<1>3. PowerOf(a, Bits) <= PowerOf(b, Bits)
  BY ONLY <1>1, <1>2, a \in Nat, b \in Nat, PowerOfBase
<1>4. QED
  BY ONLY <1>1, <1>2, <1>3 DEF TwoTo

\* A covered modulus is reached by the whole gadget.
LEMMA CoveredReaches ==
  ASSUME CrsAssumption, NEW s \in ParamRecords, Covered(s)
  PROVE  s.q <= PowerOf(s.base, s.len)
<1>1. PICK b \in Nat, l \in Nat : b = s.base /\ l = s.len /\ b >= 2
  <2>1. s.base \in 0 .. Word - 1 /\ s.len \in Nat /\ s.q \in 0 .. Word - 1
    BY DEF ParamRecords
  <2>2. s.base >= 2
    BY DEF Covered
  <2>3. s.base \in Nat
    BY ONLY <2>1
  <2>4. QED
    BY ONLY <2>1, <2>2, <2>3
<1>2. PICK n \in Nat : n <= l /\ s.q <= PowerOf(b, n)
  BY <1>1 DEF Covered, CrsAssumption
<1>3. PowerOf(b, n) <= PowerOf(b, l)
  <2>1. b >= 1
    BY ONLY <1>1, b \in Nat
  <2>2. QED
    BY ONLY <2>1, <1>2, b \in Nat, n \in Nat, l \in Nat, PowerOfGrows
<1>4. PowerOf(b, n) \in Nat /\ PowerOf(b, l) \in Nat
  BY ONLY b \in Nat, n \in Nat, l \in Nat, PowerOfStep
<1>5. s.q \in Int
  <2>1. s.q \in 0 .. Word - 1
    BY DEF ParamRecords
  <2>2. QED
    BY ONLY <2>1
<1>6. QED
  BY ONLY <1>1, <1>2, <1>3, <1>4, <1>5

\* min_gadget_len, the second time: it asks for no more than the gadget has.
LEMMA CoveredLength ==
  ASSUME CrsAssumption, NEW s \in ParamRecords, Covered(s), NEW k \in 1 .. Bits,
         \A n \in 1 .. k - 1 : PowerOf(s.base, n) < s.q
  PROVE  k <= s.len
<1>0. Bits \in Nat /\ s.base \in Nat /\ s.len \in Nat /\ s.q \in Int
  <2>1. s.base \in 0 .. Word - 1 /\ s.len \in Nat /\ s.q \in 0 .. Word - 1 /\ Bits \in Nat
    BY DEF ParamRecords, CrsAssumption
  <2>2. QED
    BY ONLY <2>1
<1>1. PICK n \in 1 .. Bits : n <= s.len /\ s.q <= PowerOf(s.base, n)
  BY DEF Covered
<1>2. PowerOf(s.base, n) \in Nat
  <2>1. PICK b \in Nat : b = s.base
    BY ONLY <1>0
  <2>2. n \in Nat
    BY ONLY <1>0, n \in 1 .. Bits
  <2>3. PowerOf(b, n) \in Nat
    BY ONLY <2>2, b \in Nat, PowerOfStep
  <2>4. QED
    BY ONLY <2>1, <2>3
<1>3. ~(n \in 1 .. k - 1)
  BY <1>0, <1>1, <1>2
<1>4. QED
  BY ONLY <1>0, <1>1, <1>3, n \in 1 .. Bits, k \in 1 .. Bits

\* from_derivation and for_scenario_with_crt make records of words.
LEMMA MadeTyped ==
  ASSUME CrsAssumption, PowersDouble
  PROVE  /\ FromDerivation \in ParamRecords
         /\ FromDerivation.base \in 2 .. Word - 1 /\ FromDerivation.base = Derived.base
         /\ \A ms \in Seq(Nat), k \in Nat :
              Product(ms) < Word =>
                LET s == Widened(ms, k)
                IN  /\ s \in ParamRecords /\ s.q = Product(ms) /\ s.moduli = ms
                    /\ s.base = Derived.base /\ s.len >= k
<1>1. Word \in Nat /\ Word >= 2
  BY WordPowers
<1>2. /\ Derived.ringDim \in Nat /\ Derived.moduli \in Seq(Nat) /\ Derived.p \in Nat
      /\ Derived.base \in 2 .. Word - 1 /\ Derived.len \in Nat
  BY DEF CrsAssumption
<1>3. Product(Derived.moduli) \in 0 .. Word - 1
  <2>1. Product(Derived.moduli) \in Nat /\ Product(Derived.moduli) < Word
    BY <1>2, ProductType DEF CrsAssumption
  <2>2. QED
    BY ONLY <1>1, <2>1
<1>4. Derived.base \in 0 .. Word - 1
  BY ONLY <1>1, <1>2
<1>5. ASSUME NEW r \in Nat, NEW q \in 0 .. Word - 1, NEW ms \in Seq(Nat), NEW p \in Nat,
             NEW b \in 0 .. Word - 1, NEW l \in Nat
      PROVE  [ringDim |-> r, q |-> q, moduli |-> ms, p |-> p, sigma |-> "wide", base |-> b,
              len |-> l] \in ParamRecords
  <2> DEFINE A == 0 .. Word - 1  B == Seq(Nat)
  <2>1. ParamRecords = [ringDim : Nat, q : A, moduli : B, p : Nat, sigma : {"wide", "narrow"}, base : A, len : Nat]
    BY DEF ParamRecords
  <2>2. q \in A /\ b \in A /\ ms \in B
    OBVIOUS
  <2> HIDE DEF A, B
  <2>3. QED
    BY ONLY <2>1, <2>2, r \in Nat, p \in Nat, l \in Nat
<1>8. FromDerivation \in ParamRecords
  BY ONLY <1>2, <1>3, <1>4, <1>5 DEF FromDerivation
<1>6. ASSUME NEW ms \in Seq(Nat), NEW k \in Nat, Product(ms) < Word
      PROVE  /\ Widened(ms, k) \in ParamRecords /\ Widened(ms, k).q = Product(ms)
             /\ Widened(ms, k).moduli = ms
             /\ Widened(ms, k).base = Derived.base /\ Widened(ms, k).len >= k
  <2>1. Product(ms) \in 0 .. Word - 1
    <3>1. Product(ms) \in Nat
      BY ProductType
    <3>2. QED
      BY ONLY <1>1, <1>6, <3>1
  <2>2. PICK l \in Nat : l = (IF k > Derived.len THEN k ELSE Derived.len) /\ l >= k
    BY ONLY <1>2, k \in Nat
  <2>3. PICK f \in ParamRecords : f = FromDerivation
    BY <1>8
  <2>4. PICK q \in 0 .. Word - 1 : q = Product(ms)
    BY ONLY <2>1
  <2> DEFINE A == 0 .. Word - 1  B == Seq(Nat)
             f1 == [f EXCEPT !.q = q]  f2 == [f1 EXCEPT !.moduli = ms]
             f3 == [f2 EXCEPT !.len = l]
  <2>5. ParamRecords = [ringDim : Nat, q : A, moduli : B, p : Nat,
                        sigma : {"wide", "narrow"}, base : A, len : Nat]
    BY DEF ParamRecords
  <2>6. q \in A /\ ms \in B
    OBVIOUS
  <2>7. Widened(ms, k) = f3
    <3>1. Widened(ms, k) = [f EXCEPT !.q = q, !.moduli = ms, !.len = l]
      BY ONLY <2>2, <2>3, <2>4, Zenon DEF Widened
    <3>2. QED
      BY ONLY <3>1, Zenon
  <2> HIDE DEF A, B
  <2>8. f1 \in ParamRecords /\ f1.q = q /\ f1.base = f.base
    BY ONLY <2>5, <2>6, f \in ParamRecords
  <2> HIDE DEF f1
  <2>9. f2 \in ParamRecords /\ f2.q = q /\ f2.moduli = ms /\ f2.base = f.base
    BY ONLY <2>5, <2>6, <2>8
  <2> HIDE DEF f2
  <2>10. f3 \in ParamRecords /\ f3.q = q /\ f3.moduli = ms /\ f3.base = f.base /\ f3.len = l
    BY ONLY <2>5, <2>9, l \in Nat
  <2> HIDE DEF f3
  <2>11. f.base = Derived.base
    BY <2>3 DEF FromDerivation
  <2>12. QED
    BY ONLY <2>2, <2>4, <2>7, <2>10, <2>11
<1>7. QED
  BY ONLY <1>2, <1>8, <1>6 DEF FromDerivation
-----------------------------------------------------------------------------
(* The steps                                                               *)

\* Types of what the steps read.
Inputs ==
  /\ Bits \in Nat /\ Bits >= 1 /\ Word \in Nat /\ Word >= 2 /\ FromDerivation \in ParamRecords
  /\ HandWritten \subseteq ParamRecords /\ Overrides \subseteq Seq(Nat)
  /\ EntrySizes \subseteq Nat /\ WireWidths \subseteq Nat
  /\ \A c \in 0 .. Word : c \in 0 .. Word * Word

\* The assumptions give them.
LEMMA InputsTyped ==
  ASSUME CrsAssumption, PowersDouble
  PROVE  Inputs
<1>1. Word \in Nat /\ Word >= 2
  BY WordPowers
<1>2. PICK w \in Nat : w = Word /\ w >= 2
  BY <1>1
<1>3. PICK v \in Nat : v = w * w /\ w <= v
  <2>1. PICK d \in Nat : w = d + 1
    <3>1. w - 1 \in Nat /\ w = (w - 1) + 1
      BY <1>2
    <3>2. QED
      BY <3>1
  <2>2. (d + 1) * (d + 1) = (d + 1) + d * (d + 1) /\ d * (d + 1) \in Nat
    OBVIOUS
  <2>3. QED
    BY ONLY <2>1, <2>2, w \in Nat, d \in Nat
<1>4. \A c \in 0 .. Word : c \in 0 .. Word * Word
  BY ONLY <1>2, <1>3, w \in Nat, v \in Nat
<1>5. QED
  BY <1>1, <1>4, MadeTyped DEF Inputs, CrsAssumption

\* The steps that enter and leave the calls.
LEMMA PlainSteps ==
  ASSUME Inputs, Inv,
         \/ Again \/ WriteParams \/ ForScenario \/ Setup \/ Serialize \/ Receive \/ Load
         \/ AcceptCrs \/ Join \/ UNCHANGED vars
  PROVE  Inv'
<1> USE DEF Inv, TypeOK, Started, Looping, Widening, Accepting, Owning, Splitting,
        Inputs, Base, Target, Places, Goto, Refuse, NoParams, vars, made_vars, loop_vars, digit_vars
<1>1. CASE Again
  <2>1. covered' \in 0 .. Word * Word
    <3>1. 0 \in 0 .. Word
      OBVIOUS
    <3>2. 0 \in 0 .. Word * Word
      BY ONLY <3>1, Inputs DEF Inputs
    <3>3. covered' = 0
      BY ONLY <1>1 DEF Again
    <3>4. QED
      BY ONLY <3>2, <3>3
  <2>2. /\ at' \in Places /\ goal' \in {"none", "construct", "widen", "setup", "load"}
        /\ params' \in ParamRecords /\ product' \in {NoProduct} \cup 0 .. Word - 1
        /\ needed' \in 0 .. Bits /\ width' \in Nat /\ own' \in BOOLEAN
        /\ \A x \in {value', rest', current', sum'} : x \in 0 .. Word - 1
    <3>1. Bits \in Nat /\ Word \in Nat /\ Word >= 2 /\ FromDerivation \in ParamRecords
      BY ONLY Inputs DEF Inputs
    <3>2. 0 \in 0 .. Word - 1 /\ 0 \in 0 .. Bits /\ 0 \in Nat
      BY ONLY <3>1
    <3>3. QED
      BY ONLY <1>1, <3>1, <3>2 DEF Again, Places, NoParams
  <2>3. TypeOK'
    BY ONLY <2>1, <2>2, Zenon DEF TypeOK
  <2>4. Started' /\ Looping' /\ Widening' /\ Accepting' /\ Owning' /\ Splitting'
    BY ONLY <1>1 DEF Again, Started, Looping, Widening, Accepting, Owning, Splitting
  <2>5. QED
    BY ONLY <2>3, <2>4 DEF Inv
<1>2. CASE WriteParams
  BY <1>2 DEF WriteParams
<1>3. CASE ForScenario
  BY <1>3 DEF ForScenario
<1>4. CASE Setup
  BY <1>4 DEF Setup
<1>5. CASE Serialize
  BY <1>5 DEF Serialize
<1>6. CASE Receive
  BY <1>6 DEF Receive
<1>7. CASE Load
  BY <1>7 DEF Load, TooLarge, WrappedModuli
<1>8. CASE AcceptCrs
  BY <1>8 DEF AcceptCrs
<1>9. CASE Join
  BY <1>9 DEF Join
<1>10. CASE UNCHANGED vars
  BY <1>10 DEF TooLarge, WrappedModuli
<1>11. QED
  BY ONLY <1>1, <1>2, <1>3, <1>4, <1>5, <1>6, <1>7, <1>8, <1>9, <1>10,
     Again \/ WriteParams \/ ForScenario \/ Setup \/ Serialize \/ Receive \/ Load
     \/ AcceptCrs \/ Join \/ UNCHANGED vars

\* What the loop holds before it multiplies.
LEMMA LoopTyped ==
  ASSUME CrsAssumption, PowersDouble, Inv, at = "covering"
  PROVE  /\ Base \in Nat /\ Base >= 2 /\ Base < Word
         /\ Target \in Nat /\ Target < Word
         /\ needed \in 1 .. Bits /\ needed \in Nat
         /\ PowerOf(Base, needed) \in Nat /\ covered = PowerOf(Base, needed)
<1>1. Inputs /\ Bits \in Nat /\ Word \in Nat
  BY InputsTyped DEF Inputs
<1>2. Base >= 2 /\ needed \in 1 .. Bits /\ covered = PowerOf(Base, needed)
  BY DEF Inv, Looping
<1>3. Base \in Nat /\ Base < Word
  <2>1. params.base \in 0 .. Word - 1 /\ Derived.base \in 2 .. Word - 1
    BY DEF Inv, TypeOK, ParamRecords, CrsAssumption
  <2>2. Base \in 0 .. Word - 1
    BY ONLY <1>1, <2>1 DEF Base
  <2>3. QED
    BY ONLY <1>1, <2>2
<1>4. Target \in Nat /\ Target < Word
  <2>1. CASE goal = "widen"
    <3>1. override \in Seq(Nat) /\ Product(override) < Word
      BY <2>1 DEF Inv, Started, Widening, Widens
    <3>2. QED
      BY ONLY <2>1, <3>1, ProductType DEF Target
  <2>2. CASE goal # "widen"
    <3>1. params.q \in 0 .. Word - 1
      BY DEF Inv, TypeOK, ParamRecords
    <3>2. QED
      BY ONLY <1>1, <2>2, <3>1 DEF Target
  <2>3. QED
    BY <2>1, <2>2
<1>5. needed \in Nat
  BY ONLY <1>1, <1>2
<1>6. PowerOf(Base, needed) \in Nat
  <2>1. PICK b \in Nat, k \in Nat : b = Base /\ k = needed
    BY ONLY <1>3, <1>5
  <2>2. QED
    BY ONLY <2>1, b \in Nat, k \in Nat, PowerOfStep
<1>7. QED
  BY ONLY <1>2, <1>3, <1>4, <1>5, <1>6

\* min_gadget_len: one power more, still a word short of its type, and never too many.
LEMMA CoverKeeps ==
  ASSUME CrsAssumption, PowersDouble, Inv, Cover
  PROVE  Inv'
<1>0. at = "covering" /\ covered < Target
  BY DEF Cover
<1>1. PICK b \in Nat, k \in Nat, w \in Nat, t \in Nat, v \in Nat :
        /\ b = Base /\ k = needed /\ w = Word /\ t = Target /\ v = covered
        /\ b >= 2 /\ b < w /\ t < w /\ v < t /\ k \in 1 .. Bits /\ v = PowerOf(b, k)
  BY ONLY <1>0, CrsAssumption, PowersDouble, Inv, LoopTyped, InputsTyped DEF Inputs
<1>2. k # Bits
  <2>1. w <= PowerOf(b, Bits)
    BY ONLY <1>1, CrsAssumption, PowersDouble, b \in Nat, WordReached
  <2>2. k = Bits => w <= v
    BY ONLY <1>1, <2>1
  <2>3. QED
    BY ONLY <1>1, <2>2, v \in Nat, w \in Nat, t \in Nat
<1>3. /\ at' = "covering" /\ reason' = reason /\ covered' = v * b /\ needed' = k + 1
      /\ UNCHANGED <<goal, made_vars, product, width, own, digit_vars>>
  BY ONLY <1>1, <1>2, Cover DEF Cover, Goto
<1>4. Base' = Base /\ Target' = Target
  BY ONLY <1>3 DEF Base, Target, made_vars
<1>5. covered' \in 0 .. Word * Word
  <2>1. PICK e \in Nat, f \in Nat : w = v + e /\ w = b + f
    <3>1. w - v \in Nat /\ w - b \in Nat /\ w = v + (w - v) /\ w = b + (w - b)
      BY ONLY <1>1, w \in Nat, v \in Nat, b \in Nat, t \in Nat
    <3>2. QED
      BY ONLY <3>1
  <2>2. (v + e) * (b + f) = v * b + (v * f + e * b + e * f)
    BY ONLY v \in Nat, e \in Nat, b \in Nat, f \in Nat
  <2>3. v * b \in Nat /\ v * f + e * b + e * f \in Nat
    BY ONLY v \in Nat, e \in Nat, b \in Nat, f \in Nat
  <2>4. v * b \in 0 .. w * w
    BY ONLY <2>1, <2>2, <2>3, w \in Nat
  <2>5. QED
    BY ONLY <1>1, <1>3, <2>4
<1>6. needed' \in 1 .. Bits
  BY ONLY <1>1, <1>2, <1>3, k \in Nat, CrsAssumption DEF CrsAssumption
<1>7. TypeOK'
  <2>1. /\ at' \in Places /\ goal' \in {"none", "construct", "widen", "setup", "load"}
        /\ params' \in ParamRecords /\ product' \in {NoProduct} \cup 0 .. Word - 1
        /\ width' \in Nat /\ own' \in BOOLEAN
        /\ \A x \in {value', rest', current', sum'} : x \in 0 .. Word - 1
    BY ONLY <1>3, Inv DEF Inv, TypeOK, Places, made_vars, digit_vars
  <2>2. needed' \in 0 .. Bits
    BY ONLY <1>6, CrsAssumption DEF CrsAssumption
  <2>3. QED
    BY ONLY <1>5, <2>1, <2>2, Zenon DEF TypeOK
<1>8. Looping'
  <2>1. PowerOf(b, k + 1) = v * b
    BY ONLY <1>1, b \in Nat, k \in Nat, PowerOfStep
  <2>2. \A n \in 1 .. k - 1 : PowerOf(b, n) < t
    BY ONLY <1>0, <1>1, Inv DEF Inv, Looping
  <2>3. \A n \in 1 .. (k + 1) - 1 : n = k \/ n \in 1 .. k - 1
    BY ONLY k \in Nat
  <2>4. \A n \in 1 .. (k + 1) - 1 : PowerOf(b, n) < t
    BY ONLY <1>1, <2>2, <2>3
  <2>5. goal' # "widen" => Checked(params')
    BY ONLY <1>0, <1>3, Inv DEF Inv, Looping, made_vars
  <2>6. QED
    BY ONLY <1>1, <1>3, <1>4, <1>6, <2>1, <2>4, <2>5 DEF Looping
<1>9. Started' /\ Widening' /\ Accepting' /\ Owning' /\ Splitting'
  BY ONLY <1>0, <1>3, Inv DEF Inv, Started, Widening, Accepting, Owning, Splitting, made_vars
<1>10. QED
  BY ONLY <1>7, <1>8, <1>9 DEF Inv

\* for_scenario_with_crt, when it has its number of digits.
LEMMA WidenKeeps ==
  ASSUME CrsAssumption, PowersDouble, Inv, Widen
  PROVE  Inv'
<1>1. /\ at = "covering" /\ covered >= Target /\ goal = "widen" /\ made = "widened"
      /\ at' = "checks" /\ reason' = reason /\ goal' = "construct"
      /\ params' = Widened(override, needed)
      /\ UNCHANGED <<override, made, product, loop_vars, width, own, digit_vars>>
  BY DEF Widen, Goto, Inv, Widening
<1>2. PICK b \in Nat, k \in Nat, t \in Nat :
        /\ b = Base /\ k = needed /\ t = Target /\ covered = PowerOf(b, k)
        /\ b >= 2 /\ k \in 1 .. Bits
  BY ONLY <1>1, CrsAssumption, PowersDouble, Inv, LoopTyped
<1>3. override \in Seq(Nat) /\ Product(override) < Word
  BY ONLY <1>1, Inv DEF Inv, Started, Widening, Widens
<1>4. /\ params' \in ParamRecords /\ params'.q = Product(override)
      /\ params'.moduli = override /\ params'.base = Derived.base /\ params'.len >= k
  BY ONLY <1>1, <1>2, <1>3, k \in Nat, CrsAssumption, PowersDouble, MadeTyped
<1>5. Covered(params')
  <2>1. params'.base = b /\ params'.q = t
    BY ONLY <1>1, <1>2, <1>4 DEF Base, Target
  <2>2. t <= PowerOf(b, k)
    BY ONLY <1>1, <1>2
  <2>3. k <= params'.len
    <3>1. params'.len \in Nat
      BY ONLY <1>4 DEF ParamRecords
    <3>2. QED
      BY ONLY <1>4, <3>1, k \in Nat
  <2>4. QED
    BY ONLY <1>2, <2>1, <2>2, <2>3 DEF Covered
<1>6. TypeOK'
  BY ONLY <1>1, <1>4, Inv DEF Inv, TypeOK, Places, loop_vars, digit_vars
<1>7. Started' /\ Looping' /\ Widening' /\ Accepting' /\ Owning' /\ Splitting'
  BY ONLY <1>1, <1>3, <1>4, <1>5, Inv
     DEF Inv, Started, Looping, Widening, Accepting, Owning, Splitting
<1>8. QED
  BY ONLY <1>6, <1>7 DEF Inv

\* for_scenario_with_crt, up to the loop of its own.
LEMMA ForScenarioWithCrtKeeps ==
  ASSUME CrsAssumption, PowersDouble, Inv, ForScenarioWithCrt
  PROVE  Inv'
<1>0. Inputs
  BY InputsTyped
<1>1. /\ at = "idle" /\ made' = "widened" /\ goal' = "widen" /\ override' \in Seq(Nat)
      /\ reason = NoDefect /\ own = FALSE
      /\ UNCHANGED <<params, product, width, own, digit_vars>>
  BY ONLY <1>0, Inv, ForScenarioWithCrt DEF Inputs, Inv, Started, ForScenarioWithCrt
<1>2. \/ Widens(override') /\ covered' = Derived.base /\ needed' = 1
      \/ ~Widens(override') /\ UNCHANGED loop_vars
  BY ONLY ForScenarioWithCrt DEF ForScenarioWithCrt
<1>3. \/ at' = "panicked" /\ reason' = NoDefect
      \/ at' = "covering" /\ reason' = NoDefect /\ Widens(override')
      \/ at' = "refused" /\ reason' = "override"
  BY ONLY <1>1, ForScenarioWithCrt DEF ForScenarioWithCrt, Goto, Refuse
<1>4. PICK b \in Nat : b = Derived.base /\ b >= 2 /\ b < Word
  BY ONLY <1>0, CrsAssumption DEF Inputs, CrsAssumption
<1>5. covered' \in 0 .. Word * Word /\ needed' \in 0 .. Bits
  <2>1. CASE UNCHANGED loop_vars
    <3>1. covered \in 0 .. Word * Word /\ needed \in 0 .. Bits
      BY ONLY Inv, Zenon DEF Inv, TypeOK
    <3>2. covered' = covered /\ needed' = needed
      BY ONLY <2>1 DEF loop_vars
    <3>3. QED
      BY ONLY <3>1, <3>2, Zenon
  <2>2. CASE covered' = Derived.base /\ needed' = 1
    <3>1. b \in 0 .. Word /\ 1 \in 0 .. Bits
      <4>1. Bits \in Nat /\ Bits >= 1 /\ Word \in Nat
        BY ONLY <1>0 DEF Inputs
      <4>2. QED
        BY ONLY <4>1, <1>4, b \in Nat
    <3>2. \A c \in 0 .. Word : c \in 0 .. Word * Word
      BY ONLY <1>0, Zenon DEF Inputs
    <3>3. QED
      BY ONLY <1>4, <2>2, <3>1, <3>2, Zenon
  <2>3. QED
    BY ONLY <1>2, <2>1, <2>2
<1>6. TypeOK'
  <2>1. /\ at' \in Places /\ goal' \in {"none", "construct", "widen", "setup", "load"}
        /\ params' \in ParamRecords /\ product' \in {NoProduct} \cup 0 .. Word - 1
        /\ width' \in Nat /\ own' \in BOOLEAN
        /\ \A x \in {value', rest', current', sum'} : x \in 0 .. Word - 1
    BY ONLY <1>1, <1>3, Inv DEF Inv, TypeOK, Places, digit_vars
  <2>2. QED
    BY ONLY <1>5, <2>1, Zenon DEF TypeOK
<1>7. Looping'
  <2>1. ASSUME at' = "covering"
        PROVE  /\ needed' \in 1 .. Bits /\ covered' = PowerOf(Base', needed') /\ Base' >= 2
               /\ \A n \in 1 .. needed' - 1 : PowerOf(Base', n) < Target'
    <3>1. Base' = b /\ covered' = b /\ needed' = 1
      BY ONLY <1>1, <1>2, <1>3, <1>4, <2>1 DEF Base
    <3>2. PowerOf(b, 1) = b
      BY ONLY b \in Nat, PowerOfOne
    <3>3. 1 \in 1 .. Bits /\ \A n \in 1 .. 1 - 1 : FALSE
      <4>1. Bits \in Nat /\ Bits >= 1
        BY ONLY <1>0 DEF Inputs
      <4>2. QED
        BY ONLY <4>1
    <3>4. QED
      BY ONLY <1>4, <3>1, <3>2, <3>3
  <2>2. QED
    BY ONLY <1>1, <2>1 DEF Looping
<1>8. Started' /\ Widening' /\ Accepting' /\ Owning' /\ Splitting'
  BY ONLY <1>1, <1>3 DEF Started, Widening, Accepting, Owning, Splitting, NoDefect
<1>9. QED
  BY ONLY <1>6, <1>7, <1>8 DEF Inv

\* validate with its product: what it says of parameters that it has accepted before,
\* and of those that for_scenario_with_crt made.
LEMMA Verdicts ==
  ASSUME CrsAssumption, PowersDouble, NEW s \in ParamRecords, NEW pr \in Products(s.moduli), Covered(s)
  PROVE  /\ Checked(s) => \/ pr = NoProduct /\ Defect(s, s.q) = NoDefect
                          \/ pr = s.q /\ Defect(s, pr) = NoDefect
         /\ s.q = Product(s.moduli) /\ Product(s.moduli) < Word =>
              pr = s.q /\ Defect(s, pr) \notin {"gadget", "product", "base"}
<1>1. ASSUME Checked(s)
      PROVE  \/ pr = NoProduct /\ Defect(s, s.q) = NoDefect
             \/ pr = s.q /\ Defect(s, pr) = NoDefect
  <2>1. /\ \A p \in Products(s.moduli) : p # NoProduct => p = s.q
        /\ Defect(s, s.q) = NoDefect
    BY ONLY <1>1, CrsAssumption, PowersDouble, s \in ParamRecords, CheckedModulus
  <2>2. QED
    BY ONLY <2>1, pr \in Products(s.moduli)
<1>2. ASSUME s.q = Product(s.moduli), Product(s.moduli) < Word
      PROVE  pr = s.q /\ Defect(s, pr) \notin {"gadget", "product", "base"}
  <2>1. pr = s.q
    BY ONLY <1>2, pr \in Products(s.moduli) DEF Products
  <2>2. ~Fails(5, s, pr)
    BY ONLY <2>1 DEF Fails
  <2>3. CASE Defect(s, pr) = NoDefect
    BY ONLY <2>1, <2>3 DEF NoDefect
  <2>4. ASSUME NEW i \in 1 .. 9, Fails(i, s, pr), Defect(s, pr) = Checks[i]
        PROVE  Defect(s, pr) \notin {"gadget", "product", "base"}
    <3>1. i # 5
      BY ONLY <2>2, <2>4
    <3>2. i \in {1, 2, 3, 4, 6, 7, 8, 9}
      BY ONLY <3>1, i \in 1 .. 9
    <3>3. QED
      BY ONLY <2>4, <3>2 DEF Checks
  <2>5. QED
    BY ONLY <2>1, <2>3, <2>4, DefectReads
<1>3. QED
  BY ONLY <1>1, <1>2

\* validate, up to the loop: a refusal is deserved.
LEMMA CheckKeeps ==
  ASSUME CrsAssumption, PowersDouble, Inv, Check
  PROVE  Inv'
<1> DEFINE early == product' = NoProduct /\ Defect(params, params.q) \notin {"ring_dim", "many_moduli", "ntt"}
           why == IF Defect(params, product') # NoDefect THEN Defect(params, product')
                  ELSE IF params.base < 2 THEN "base" ELSE NoDefect
<1>0. Inputs /\ params \in ParamRecords
  BY InputsTyped DEF Inv, TypeOK
<1>1. /\ at = "checks" /\ product' \in Products(params.moduli) /\ goal # "widen" /\ reason = NoDefect
      /\ UNCHANGED <<goal, made_vars, width, own, digit_vars>>
  BY ONLY Inv, Check DEF Check, Inv, Widening, Started
<1>2. \/ early /\ at' = "panicked" /\ reason' = reason /\ UNCHANGED loop_vars
      \/ why # NoDefect /\ ~early /\ at' = "refused" /\ reason' = why /\ UNCHANGED loop_vars
      \/ /\ why = NoDefect /\ at' = "covering" /\ reason' = reason
         /\ covered' = params.base /\ needed' = 1
  BY ONLY Check DEF Check, Goto, Refuse
<1>3. params.base \in Nat /\ params.base < Word
  <2>1. params.base \in 0 .. Word - 1 /\ Word \in Nat
    BY ONLY <1>0 DEF ParamRecords, Inputs
  <2>2. QED
    BY ONLY <2>1
<1>4. why = NoDefect => Checked(params) /\ params.base >= 2
  <2>1. "base" # NoDefect
    BY DEF NoDefect
  <2>2. QED
    BY ONLY <1>1, <1>3, <2>1 DEF Checked
<1>5. why # NoDefect /\ ~early => own = FALSE
  <2>1. ASSUME own, ~early
        PROVE  why = NoDefect
    <3>1. Checked(params) /\ Covered(params) /\ params.base >= 2
      BY ONLY <2>1, Inv DEF Inv, Owning, Sound, Covered
    <3>2. \/ product' = NoProduct /\ Defect(params, params.q) = NoDefect
          \/ product' = params.q /\ Defect(params, product') = NoDefect
      BY ONLY <1>0, <1>1, <3>1, CrsAssumption, PowersDouble, Verdicts
    <3>3. NoDefect \notin {"ring_dim", "many_moduli", "ntt"}
      BY ONLY DEF NoDefect
    <3>4. QED
      BY ONLY <1>3, <2>1, <3>1, <3>2, <3>3
  <2>2. own \in BOOLEAN
    BY ONLY Inv DEF Inv, TypeOK
  <2>3. QED
    BY ONLY <2>1, <2>2
<1>6. made = "widened" => why \notin {"gadget", "product", "base"}
  <2>1. ASSUME made = "widened"
        PROVE  why \notin {"gadget", "product", "base"}
    <3>1. /\ params.q = Product(params.moduli) /\ Product(params.moduli) < Word /\ Covered(params)
      BY ONLY <1>1, <2>1, Inv DEF Inv, Widening
    <3>2. Defect(params, product') \notin {"gadget", "product", "base"}
      BY ONLY <1>0, <1>1, <3>1, CrsAssumption, PowersDouble, Verdicts
    <3>3. params.base >= 2
      BY ONLY <3>1 DEF Covered
    <3>4. QED
      BY ONLY <1>3, <3>2, <3>3 DEF NoDefect
  <2>2. QED
    BY ONLY <2>1
<1> HIDE DEF early, why
<1>7. covered' \in 0 .. Word * Word /\ needed' \in 0 .. Bits
  <2>1. CASE UNCHANGED loop_vars
    <3>1. covered \in 0 .. Word * Word /\ needed \in 0 .. Bits
      BY ONLY Inv, Zenon DEF Inv, TypeOK
    <3>2. covered' = covered /\ needed' = needed
      BY ONLY <2>1 DEF loop_vars
    <3>3. QED
      BY ONLY <3>1, <3>2, Zenon
  <2>2. CASE covered' = params.base /\ needed' = 1
    <3>1. params.base \in 0 .. Word /\ 1 \in 0 .. Bits
      <4>1. Bits \in Nat /\ Bits >= 1 /\ Word \in Nat
        BY ONLY <1>0 DEF Inputs
      <4>2. QED
        BY ONLY <4>1, <1>3
    <3>2. \A c \in 0 .. Word : c \in 0 .. Word * Word
      BY ONLY <1>0, Zenon DEF Inputs
    <3>3. QED
      BY ONLY <2>2, <3>1, <3>2, Zenon
  <2>3. QED
    BY ONLY <1>2, <2>1, <2>2
<1>8. product' \in {NoProduct} \cup 0 .. Word - 1
  <2>1. PICK x \in Nat, w \in Nat \ {0} : x = Product(params.moduli) /\ w = Word
    <3>1. params.moduli \in Seq(Nat)
      BY ONLY <1>0 DEF ParamRecords
    <3>2. Product(params.moduli) \in Nat
      BY ONLY <3>1, ProductType
    <3>3. Word \in Nat \ {0}
      BY ONLY <1>0 DEF Inputs
    <3>4. QED
      BY ONLY <3>2, <3>3
  <2>2. x % w \in 0 .. w - 1
    BY ONLY x \in Nat, w \in Nat \ {0}
  <2>3. x < w => x \in 0 .. w - 1
    BY ONLY x \in Nat, w \in Nat \ {0}
  <2>4. QED
    BY ONLY <1>1, <2>1, <2>2, <2>3 DEF Products
<1>9. TypeOK'
  <2>1. /\ at' \in Places /\ goal' \in {"none", "construct", "widen", "setup", "load"}
        /\ params' \in ParamRecords
        /\ width' \in Nat /\ own' \in BOOLEAN
        /\ \A x \in {value', rest', current', sum'} : x \in 0 .. Word - 1
    BY ONLY <1>1, <1>2, Inv DEF Inv, TypeOK, Places, made_vars, digit_vars
  <2>2. QED
    BY ONLY <1>7, <1>8, <2>1, Zenon DEF TypeOK
<1>10. Looping'
  <2>1. ASSUME at' = "covering"
        PROVE  /\ needed' \in 1 .. Bits /\ covered' = PowerOf(Base', needed') /\ Base' >= 2
               /\ \A n \in 1 .. needed' - 1 : PowerOf(Base', n) < Target'
               /\ Checked(params')
    <3>1. why = NoDefect /\ covered' = params.base /\ needed' = 1
      BY ONLY <1>2, <2>1
    <3>2. PICK b \in Nat : b = params.base /\ b >= 2 /\ Base' = b /\ Checked(params')
      BY ONLY <1>1, <1>3, <1>4, <3>1 DEF Base, made_vars
    <3>3. PowerOf(b, 1) = b
      BY ONLY b \in Nat, PowerOfOne
    <3>4. 1 \in 1 .. Bits /\ \A n \in 1 .. 1 - 1 : FALSE
      <4>1. Bits \in Nat /\ Bits >= 1
        BY ONLY <1>0 DEF Inputs
      <4>2. QED
        BY ONLY <4>1
    <3>5. QED
      BY ONLY <3>1, <3>2, <3>3, <3>4
  <2>2. QED
    BY ONLY <2>1 DEF Looping
<1>11. Started' /\ Accepting' /\ Splitting'
  BY ONLY <1>1, <1>2, Inv DEF Inv, Started, Accepting, Splitting, made_vars
<1>12. Widening'
  BY ONLY <1>1, <1>2, <1>6, Inv DEF Inv, Widening, made_vars
<1>13. Owning'
  <2>1. ASSUME own'
        PROVE  at' \in {"panicked", "covering"} /\ own
    BY ONLY <1>1, <1>2, <1>5, <2>1
  <2>2. QED
    BY ONLY <1>1, <2>1, Inv DEF Inv, Owning, made_vars
<1>14. QED
  BY ONLY <1>9, <1>10, <1>11, <1>12, <1>13 DEF Inv

\* validate's last check: what it accepts is covered, and what was covered it accepts.
LEMMA CompareLengthKeeps ==
  ASSUME CrsAssumption, PowersDouble, Inv, CompareLength
  PROVE  Inv'
<1>1. /\ at = "covering" /\ covered >= Target /\ goal # "widen" /\ reason = NoDefect
      /\ UNCHANGED <<goal, made_vars, product, loop_vars, width, own, digit_vars>>
  BY ONLY Inv, CompareLength DEF CompareLength, Inv, Started
<1>2. \/ /\ Covers(params, needed) /\ reason' = NoDefect
         /\ \/ goal = "construct" /\ at' = "held"
            \/ goal # "construct" /\ at' = "valid"
      \/ ~Covers(params, needed) /\ at' = "refused" /\ reason' = "gadget"
  BY ONLY <1>1, CompareLength DEF CompareLength, Goto, Refuse
<1>3. PICK b \in Nat, k \in Nat, q \in Nat, l \in Nat :
        /\ b = Base /\ k = needed /\ q = Target /\ covered = PowerOf(b, k)
        /\ b >= 2 /\ k \in 1 .. Bits /\ b = params.base /\ q = params.q /\ l = params.len
        /\ params \in ParamRecords
  <2>1. params \in ParamRecords
    BY ONLY Inv DEF Inv, TypeOK
  <2>2. params.len \in Nat
    BY ONLY <2>1 DEF ParamRecords
  <2>3. Base = params.base /\ Target = params.q
    BY ONLY <1>1 DEF Base, Target
  <2>4. QED
    BY ONLY <1>1, <2>1, <2>2, <2>3, CrsAssumption, PowersDouble, Inv, LoopTyped
<1>4. Covers(params, needed) => Sound(params)
  <2>1. ASSUME l >= k
        PROVE  Covered(params)
    <3>1. k <= l /\ q <= PowerOf(b, k)
      <4>1. PowerOf(b, k) \in Nat
        BY ONLY b \in Nat, k \in Nat, PowerOfStep
      <4>2. QED
        BY ONLY <1>1, <1>3, <2>1, <4>1, k \in Nat, l \in Nat, q \in Nat
    <3>2. QED
      BY ONLY <1>3, <3>1 DEF Covered
  <2>2. Checked(params)
    BY ONLY <1>1, Inv DEF Inv, Looping
  <2>3. QED
    BY ONLY <1>3, <2>1, <2>2 DEF Sound, Covers
<1>5. Covered(params) => Covers(params, needed)
  <2>1. \A n \in 1 .. k - 1 : PowerOf(params.base, n) < params.q
    BY ONLY <1>1, <1>3, Inv DEF Inv, Looping
  <2>2. Covered(params) => k <= l
    BY ONLY <1>3, <2>1, CrsAssumption, CoveredLength
  <2>3. QED
    BY ONLY <1>3, <2>2, k \in Nat, l \in Nat DEF Covers
<1>6. TypeOK'
  BY ONLY <1>1, <1>2, Inv DEF Inv, TypeOK, Places, made_vars, loop_vars, digit_vars
<1>7. Started' /\ Looping' /\ Splitting'
  BY ONLY <1>1, <1>2, Inv DEF Inv, Started, Looping, Splitting, made_vars
<1>8. Widening'
  BY ONLY <1>1, <1>2, <1>5, Inv DEF Inv, Widening, made_vars, NoDefect
<1>9. Accepting'
  <2>1. at' = "valid" => Sound(params')
    BY ONLY <1>1, <1>2, <1>4 DEF made_vars
  <2>2. QED
    BY ONLY <1>2, <2>1 DEF Accepting
<1>10. Owning'
  <2>1. ASSUME own'
        PROVE  own /\ at' = "valid" /\ goal' = "load"
    BY ONLY <1>1, <1>2, <1>5, <2>1, Inv DEF Inv, Owning, Sound
  <2>2. QED
    BY ONLY <1>1, <2>1, Inv DEF Inv, Owning, made_vars
<1>11. QED
  BY ONLY <1>6, <1>7, <1>8, <1>9, <1>10 DEF Inv

\* The rest of setup.
LEMMA MakeCrsKeeps ==
  ASSUME CrsAssumption, PowersDouble, Inv, MakeCrs
  PROVE  Inv'
<1> DEFINE columns == NumColumns(width)
<1>1. /\ at = "valid" /\ goal = "setup" /\ own = FALSE /\ reason = NoDefect /\ Sound(params)
      /\ UNCHANGED <<goal, made_vars, product, loop_vars, digit_vars>>
  BY ONLY Inv, MakeCrs DEF MakeCrs, Inv, Owning, TypeOK, Started, Accepting
<1>2. \/ /\ at' \in {"refused", "panicked"} /\ UNCHANGED <<width, own>>
         /\ reason' \in {NoDefect, "entry_size", "width"}
         /\ at' = "panicked" => reason' = NoDefect
      \/ /\ at' = "ready" /\ reason' = NoDefect /\ width' = columns /\ own' = TRUE
         /\ IsLegalWidth(params.ringDim, columns)
  BY ONLY <1>1, MakeCrs DEF MakeCrs, Goto, Refuse
<1>3. columns \in Nat /\ columns > 0
  <2>1. PICK c \in Nat : c = (width + 1) \div 2
    <3>1. width \in Nat
      BY ONLY Inv DEF Inv, TypeOK
    <3>2. QED
      BY ONLY <3>1
  <2>2. QED
    BY ONLY <2>1, c \in Nat DEF NumColumns
<1> HIDE DEF columns
<1>4. TypeOK'
  BY ONLY <1>1, <1>2, <1>3, Inv DEF Inv, TypeOK, Places, made_vars, loop_vars, digit_vars
<1>5. Started' /\ Looping' /\ Splitting' /\ Widening'
  BY ONLY <1>1, <1>2, Inv DEF Inv, Started, Looping, Splitting, Widening, made_vars, NoDefect
<1>6. Accepting' /\ Owning'
  BY ONLY <1>1, <1>2, <1>3, Inv DEF Inv, Accepting, Owning, made_vars
<1>7. QED
  BY ONLY <1>4, <1>5, <1>6 DEF Inv

\* PackParams::try_new: the inverse exists, so that only the transform can stop it.
LEMMA PackKeeps ==
  ASSUME CrsAssumption, PowersDouble, Inv, Pack
  PROVE  Inv'
<1>1. /\ at = "ready" /\ width > 0 /\ reason = NoDefect /\ Sound(params)
      /\ IsLegalWidth(params.ringDim, width) /\ width \in Nat /\ params \in ParamRecords
      /\ UNCHANGED <<goal, made_vars, product, loop_vars, width, own, digit_vars>>
  BY ONLY Inv, Pack DEF Pack, Inv, TypeOK, Started, Accepting
<1>2. Inverses(width, params.q) # {}
  <2>1. PICK n \in Nat, q \in Nat : n = params.ringDim /\ q = params.q /\ q % (2 * n) = 1
    <3>1. params.q % (2 * params.ringDim) = 1 /\ params.q \in 1 .. Word - 1
      BY ONLY <1>1, CrsAssumption, PowersDouble, CheckedModulus DEF Sound
    <3>2. params.ringDim \in Nat
      BY ONLY <1>1 DEF ParamRecords
    <3>3. params.q \in Nat
      BY ONLY <3>1
    <3>4. QED
      BY ONLY <3>1, <3>2, <3>3
  <2>2. PICK e \in Nat, c \in Nat : Exponents(n, width, e, c)
    BY ONLY <1>1, <2>1, n \in Nat, CrsAssumption, PowersDouble, LegalExponents
  <2>3. QED
    BY ONLY <1>1, <2>1, <2>2, n \in Nat, q \in Nat, WidthInverts
<1>3. at' \in {"panicked", "packed"} /\ reason' = reason
  BY ONLY <1>1, <1>2, Pack DEF Pack, Goto, Refuse
<1>4. TypeOK'
  BY ONLY <1>1, <1>3, Inv DEF Inv, TypeOK, Places, made_vars, loop_vars, digit_vars
<1>5. Started' /\ Looping' /\ Splitting' /\ Widening' /\ Accepting' /\ Owning'
  BY ONLY <1>1, <1>3, Inv
     DEF Inv, Started, Looping, Splitting, Widening, Accepting, Owning, made_vars
<1>6. QED
  BY ONLY <1>4, <1>5 DEF Inv

\* gadget_decompose: before the first digit, all of the coefficient is left.
LEMMA DecomposeKeeps ==
  ASSUME CrsAssumption, PowersDouble, Inv, Decompose
  PROVE  Inv'
<1>1. /\ at = "ready" /\ at' = "digits" /\ reason' = reason /\ Sound(params)
      /\ digit' = 0 /\ current' = 1 /\ sum' = 0 /\ params \in ParamRecords
      /\ UNCHANGED <<goal, made_vars, product, loop_vars, width, own>>
  BY ONLY Inv, Decompose DEF Decompose, Goto, Inv, TypeOK, Accepting
<1>2. Word \in Nat /\ Word >= 2
  BY InputsTyped DEF Inputs
<1>3. /\ params.q \in 0 .. Word - 1 /\ params.len \in Nat /\ params.base \in Nat
  <2>1. params.q \in 0 .. Word - 1 /\ params.len \in Nat /\ params.base \in 0 .. Word - 1
    BY ONLY <1>1 DEF ParamRecords
  <2>2. QED
    BY ONLY <2>1
<1>4. PICK v \in 0 .. params.q - 1 : value' = v /\ rest' = v
  BY ONLY Decompose DEF Decompose
<1>5. v \in 0 .. Word - 1 /\ 0 \in 0 .. Word - 1 /\ 1 \in 0 .. Word - 1 /\ v \in Nat /\ params.q \in Nat
  BY ONLY <1>2, <1>3, v \in 0 .. params.q - 1
<1>6. TypeOK'
  <2>1. \A x \in {value', rest', current', sum'} : x \in 0 .. Word - 1
    BY ONLY <1>1, <1>4, <1>5
  <2>2. QED
    BY ONLY <1>1, <2>1, Inv DEF Inv, TypeOK, Places, made_vars, loop_vars
<1>7. Splitting'
  <2>1. PowerOf(params.base, 0) = 1
    BY ONLY <1>3, PowerOfStep
  <2>2. v = v * 1 + 0 /\ 0 \in 0 .. params.len
    BY ONLY <1>3, <1>5
  <2>3. Same(1, 1, params.q)
    <3>1. 1 \in Int
      OBVIOUS
    <3>2. QED
      BY ONLY <1>5, <3>1, SameReflexive
  <2>4. /\ digit' \in 0 .. params'.len /\ value' \in 0 .. params'.q - 1
        /\ value' = rest' * PowerOf(params'.base, digit') + sum'
        /\ Same(current', PowerOf(params'.base, digit'), params'.q)
        /\ at' # "joined"
    BY ONLY <1>1, <1>4, <2>1, <2>2, <2>3, v \in 0 .. params.q - 1 DEF made_vars
  <2>5. QED
    BY ONLY <2>4 DEF Splitting
<1>8. Started' /\ Looping' /\ Widening' /\ Accepting' /\ Owning'
  BY ONLY <1>1, Inv DEF Inv, Started, Looping, Widening, Accepting, Owning, made_vars
<1>9. QED
  BY ONLY <1>6, <1>7, <1>8 DEF Inv

\* One digit more: what was left is base times what is left now, and the digit.
LEMMA NextDigitKeeps ==
  ASSUME CrsAssumption, PowersDouble, Inv, NextDigit
  PROVE  Inv'
<1>1. /\ at = "digits" /\ digit < params.len /\ at' = "digits" /\ reason' = reason
      /\ rest' = rest \div params.base /\ digit' = digit + 1
      /\ sum' = (sum + (rest % params.base) * current) % params.q
      /\ current' = (current * params.base) % params.q
      /\ Sound(params) /\ params \in ParamRecords
      /\ UNCHANGED <<goal, made_vars, product, loop_vars, width, own, value>>
  BY ONLY Inv, NextDigit DEF NextDigit, Goto, Inv, TypeOK, Accepting
<1>2. PICK b \in Nat \ {0}, q \in Nat \ {0}, l \in Nat, w \in Nat :
        b = params.base /\ q = params.q /\ l = params.len /\ w = Word /\ q <= w - 1 /\ b >= 2
  <2>1. params.base \in 0 .. Word - 1 /\ params.len \in Nat
    BY ONLY <1>1 DEF ParamRecords
  <2>2. params.q \in 1 .. Word - 1
    BY ONLY <1>1, CrsAssumption, PowersDouble, CheckedModulus DEF Sound
  <2>3. Word \in Nat
    BY InputsTyped DEF Inputs
  <2>4. params.base >= 2
    BY ONLY <1>1 DEF Sound, Covered
  <2>5. params.base \in Nat \ {0}
    BY ONLY <2>1, <2>4
  <2>6. params.q \in Nat \ {0} /\ params.q <= Word - 1
    BY ONLY <2>2, <2>3
  <2>7. QED
    BY ONLY <2>1, <2>3, <2>4, <2>5, <2>6
<1>3. PICK d \in Nat, v \in Nat, r \in Nat, s \in Nat, c \in Nat, p \in Nat :
        /\ d = digit /\ v = value /\ r = rest /\ s = sum /\ c = current /\ p = PowerOf(b, d)
        /\ v = r * p + s /\ v < q /\ Same(c, p, q) /\ d < l
        /\ PowerOf(b, d + 1) = p * b
  <2>1. /\ digit \in 0 .. l /\ value \in 0 .. q - 1 /\ value = rest * PowerOf(b, digit) + sum
        /\ Same(current, PowerOf(b, digit), q)
    BY ONLY <1>1, <1>2, Inv DEF Inv, Splitting
  <2>2. \A x \in {value, rest, current, sum} : x \in 0 .. w - 1
    BY ONLY <1>2, Inv DEF Inv, TypeOK
  <2>3. rest \in Nat /\ sum \in Nat /\ current \in Nat
    BY ONLY <2>2, w \in Nat
  <2>4. value \in Nat /\ value < q /\ digit \in Nat /\ digit < l
    BY ONLY <1>1, <1>2, <2>1, q \in Nat \ {0}, l \in Nat
  <2>5. PICK d \in Nat : d = digit
    BY ONLY <2>4
  <2>6. b \in Nat
    OBVIOUS
  <2>7. PowerOf(b, d) \in Nat /\ PowerOf(b, d + 1) = PowerOf(b, d) * b
    BY ONLY <2>6, d \in Nat, PowerOfStep
  <2>8. QED
    BY ONLY <2>1, <2>3, <2>4, <2>5, <2>7, d \in Nat
<1>4. PICK h \in Nat, e \in Nat : h = r \div b /\ e = r % b /\ r = b * h + e
  <2>1. r \in Int
    OBVIOUS
  <2>2. r = b * (r \div b) + (r % b)
    BY ONLY <2>1, b \in Nat \ {0}, DivMod
  <2>3. r \div b \in Nat /\ r % b \in Nat
    BY ONLY r \in Nat, b \in Nat \ {0}
  <2>4. QED
    BY ONLY <2>2, <2>3
<1>5. v = h * (p * b) + (s + e * p)
  <2>1. (b * h + e) * p = h * (p * b) + e * p
    BY ONLY b \in Nat \ {0}, h \in Nat, e \in Nat, p \in Nat
  <2>2. PICK i \in Nat, j \in Nat : i = h * (p * b) /\ j = e * p
    <3>1. e * p \in Nat /\ h * (p * b) \in Nat
      BY ONLY b \in Nat \ {0}, h \in Nat, e \in Nat, p \in Nat
    <3>2. QED
      BY ONLY <3>1
  <2>3. r * p = i + j
    BY ONLY <1>4, <2>1, <2>2
  <2>4. v = i + (s + j)
    BY ONLY <1>3, <2>3, i \in Nat, j \in Nat, s \in Nat, v \in Nat
  <2>5. QED
    BY ONLY <2>2, <2>4
<1>6. sum' = s + e * p
  <2>1. PICK y \in 0 .. q - 1 : y = s + e * p
    <3>1. e * p \in Nat /\ h * (p * b) \in Nat
      BY ONLY b \in Nat \ {0}, h \in Nat, e \in Nat, p \in Nat
    <3>2. s + e * p \in 0 .. q - 1
      BY ONLY <1>3, <1>5, <3>1, s \in Nat, v \in Nat, q \in Nat \ {0}
    <3>3. QED
      BY ONLY <3>2
  <2>2. PICK z \in Nat : z = s + e * c
    <3>1. s + e * c \in Nat
      BY ONLY s \in Nat, e \in Nat, c \in Nat
    <3>2. QED
      BY ONLY <3>1
  <2>3. Same(y, z, q)
    <3>1. PICK k \in Int : c = p + q * k
      BY ONLY <1>3 DEF Same
    <3>2. e * (p + q * k) = e * p + q * (e * k)
      BY ONLY e \in Nat, p \in Nat, q \in Nat \ {0}, k \in Int
    <3>3. PICK j \in Int : j = 0 - e * k /\ e * k = 0 - j
      <4>1. e * k \in Int
        BY ONLY e \in Nat, k \in Int
      <4>2. 0 - e * k \in Int /\ e * k = 0 - (0 - e * k)
        BY ONLY <4>1
      <4>3. QED
        BY ONLY <4>2
    <3>4. q * (0 - j) = 0 - q * j /\ q * j \in Int /\ e * p \in Nat
      BY ONLY q \in Nat \ {0}, j \in Int, e \in Nat, p \in Nat
    <3>5. y = z + q * j
      BY ONLY <2>1, <2>2, <3>1, <3>2, <3>3, <3>4, s \in Nat, z \in Nat
    <3>6. QED
      BY ONLY <3>5, j \in Int DEF Same
  <2>4. y = z % q
    <3>1. z \in Int
      OBVIOUS
    <3>2. QED
      BY ONLY <2>3, <3>1, y \in 0 .. q - 1, q \in Nat \ {0}, SameResidue
  <2>5. sum' = z % q
    BY ONLY <1>1, <1>2, <1>3, <1>4, <2>2
  <2>6. QED
    BY ONLY <2>1, <2>4, <2>5
<1>7. PICK x \in Nat : x = current' /\ x < q /\ Same(x, p * b, q)
  <2>1. PICK z \in Int : z = c * b
    <3>1. c * b \in Int
      BY ONLY c \in Nat, b \in Nat \ {0}
    <3>2. QED
      BY ONLY <3>1
  <2>2. PICK x \in Nat : x = z % q /\ x < q
    BY ONLY z \in Int, q \in Nat \ {0}
  <2>3. Same(x, z, q)
    BY ONLY <2>2, z \in Int, q \in Nat \ {0}, SameMod
  <2>4. PICK k \in Int : c = p + q * k
    BY ONLY <1>3 DEF Same
  <2>5. PICK j \in Int : x = z + q * j
    BY ONLY <2>3 DEF Same
  <2>6. (p + q * k) * b = p * b + q * (k * b)
    BY ONLY p \in Nat, q \in Nat \ {0}, k \in Int, b \in Nat \ {0}
  <2>7. PICK i \in Int, y \in Nat : i = k * b /\ y = p * b
    <3>1. k * b \in Int /\ p * b \in Nat
      BY ONLY k \in Int, p \in Nat, b \in Nat \ {0}
    <3>2. QED
      BY ONLY <3>1
  <2>8. x = y + q * (i + j) /\ i + j \in Int
    <3>1. x = (y + q * i) + q * j
      BY ONLY <2>1, <2>4, <2>5, <2>6, <2>7
    <3>2. QED
      BY ONLY <3>1, y \in Nat, q \in Nat \ {0}, i \in Int, j \in Int
  <2>9. Same(x, p * b, q)
    BY ONLY <2>7, <2>8 DEF Same
  <2>10. x = current'
    BY ONLY <1>1, <1>2, <1>3, <2>1, <2>2
  <2>11. QED
    BY ONLY <2>2, <2>9, <2>10, x \in Nat
<1>8. PICK y \in Nat : y = sum' /\ y <= v
  <2>1. e * p \in Nat /\ h * (p * b) \in Nat
    BY ONLY b \in Nat \ {0}, h \in Nat, e \in Nat, p \in Nat
  <2>2. s + e * p \in Nat /\ s + e * p <= v
    BY ONLY <1>5, <2>1, s \in Nat, v \in Nat
  <2>3. QED
    BY ONLY <1>6, <2>2
<1>9. h <= r
  <2>1. PICK g \in Nat : b = g + 1
    <3>1. b - 1 \in Nat /\ b = (b - 1) + 1
      BY ONLY b \in Nat \ {0}
    <3>2. QED
      BY ONLY <3>1
  <2>2. (g + 1) * h = g * h + h /\ g * h \in Nat
    BY ONLY g \in Nat, h \in Nat
  <2>3. QED
    BY ONLY <1>4, <2>1, <2>2, h \in Nat, e \in Nat, r \in Nat
<1>10. TypeOK'
  <2>1. r \in 0 .. w - 1
    BY ONLY <1>2, <1>3, Inv DEF Inv, TypeOK
  <2>2. \A u \in {v, h, x, y} : u \in 0 .. w - 1
    BY ONLY <1>2, <1>3, <1>7, <1>8, <1>9, <2>1, w \in Nat, q \in Nat \ {0}, v \in Nat,
       h \in Nat, x \in Nat, y \in Nat, r \in Nat
  <2>3. \A u \in {value', rest', current', sum'} : u \in 0 .. Word - 1
    BY ONLY <1>1, <1>2, <1>3, <1>4, <1>7, <1>8, <2>2
  <2>4. QED
    BY ONLY <1>1, <2>3, Inv DEF Inv, TypeOK, Places, made_vars, loop_vars
<1>11. Splitting'
  <2>1. d + 1 \in 0 .. l /\ v \in 0 .. q - 1
    BY ONLY <1>3, d \in Nat, l \in Nat, v \in Nat, q \in Nat \ {0}
  <2>2. /\ digit' \in 0 .. params'.len /\ value' \in 0 .. params'.q - 1
        /\ value' = rest' * PowerOf(params'.base, digit') + sum'
        /\ Same(current', PowerOf(params'.base, digit'), params'.q)
        /\ at' # "joined"
    BY ONLY <1>1, <1>2, <1>3, <1>4, <1>5, <1>6, <1>7, <2>1 DEF made_vars
  <2>3. QED
    BY ONLY <2>2 DEF Splitting
<1>12. Started' /\ Looping' /\ Widening' /\ Accepting' /\ Owning'
  BY ONLY <1>1, Inv DEF Inv, Started, Looping, Widening, Accepting, Owning, made_vars
<1>13. QED
  BY ONLY <1>10, <1>11, <1>12 DEF Inv
-----------------------------------------------------------------------------
(* The theorems                                                            *)

\* It holds at the start.
LEMMA InitInv ==
  ASSUME CrsAssumption, PowersDouble, Init
  PROVE  Inv
<1>0. Inputs
  BY InputsTyped
<1>1. 0 \in 0 .. Word * Word
  <2>1. 0 \in 0 .. Word
    BY ONLY <1>0 DEF Inputs
  <2>2. QED
    BY ONLY <1>0, <2>1 DEF Inputs
<1>2. TypeOK
  <2>1. 0 \in 0 .. Bits /\ 0 \in 0 .. Word - 1 /\ 0 \in Nat /\ FromDerivation \in ParamRecords
    BY ONLY <1>0 DEF Inputs
  <2>2. QED
    BY ONLY <1>1, <2>1, Init DEF Init, TypeOK, Places, NoParams
<1>3. override \in Seq(Nat)
  BY ONLY Init DEF Init
<1>4. Started /\ Looping /\ Widening /\ Accepting /\ Owning /\ Splitting
  BY ONLY <1>3, Init DEF Init, Started, Looping, Widening, Accepting, Owning, Splitting
<1>5. QED
  BY ONLY <1>2, <1>4 DEF Inv

\* Every step keeps it.
LEMMA StepInv ==
  ASSUME CrsAssumption, PowersDouble, Inv, [Next]_vars
  PROVE  Inv'
<1>0. Inputs
  BY InputsTyped
<1>1. \/ \/ Again \/ WriteParams \/ ForScenario \/ Setup \/ Serialize \/ Receive \/ Load
         \/ AcceptCrs \/ Join \/ UNCHANGED vars
      \/ ForScenarioWithCrt \/ Check \/ Cover \/ Widen \/ CompareLength \/ MakeCrs \/ Pack
      \/ Decompose \/ NextDigit
  BY DEF Next
<1>2. QED
  BY <1>0, <1>1, PlainSteps, ForScenarioWithCrtKeeps, CheckKeeps, CoverKeeps, WidenKeeps,
     CompareLengthKeeps, MakeCrsKeeps, PackKeeps, DecomposeKeeps, NextDigitKeeps

\* gadget_reconstruct after gadget_decompose: all digits are out, and the powers of the
\* base reach the modulus.
LEMMA DigitsCover ==
  ASSUME CrsAssumption, PowersDouble, Inv
  PROVE  GadgetCovers
<1>1. SUFFICES ASSUME at = "joined" PROVE rest = 0 /\ sum = value
  BY DEF GadgetCovers
<1>2. /\ value \in 0 .. params.q - 1 /\ value = rest * PowerOf(params.base, params.len) + sum
      /\ Covered(params) /\ params \in ParamRecords
      /\ \A x \in {value, rest, current, sum} : x \in 0 .. Word - 1
  BY ONLY <1>1, Inv DEF Inv, TypeOK, Splitting, Accepting, Sound
<1>3. params.q <= PowerOf(params.base, params.len)
  BY ONLY <1>2, CrsAssumption, CoveredReaches
<1>4. PICK p \in Nat, q \in Nat : p = PowerOf(params.base, params.len) /\ q = params.q
  <2>1. /\ params.base \in 0 .. Word - 1 /\ params.len \in Nat /\ params.q \in 0 .. Word - 1
    BY ONLY <1>2 DEF ParamRecords
  <2>2. PICK b \in Nat, l \in Nat : b = params.base /\ l = params.len
    BY ONLY <2>1
  <2>3. PowerOf(b, l) \in Nat
    BY ONLY b \in Nat, l \in Nat, PowerOfStep
  <2>4. QED
    BY ONLY <2>1, <2>2, <2>3
<1>5. PICK r \in Nat, s \in Nat, v \in Nat : r = rest /\ s = sum /\ v = value /\ v < q
  <2>1. Word \in Nat
    BY InputsTyped DEF Inputs
  <2>2. QED
    BY ONLY <1>2, <1>4, <2>1, q \in Nat
<1>6. v = r * p + s /\ q <= p
  BY ONLY <1>2, <1>3, <1>4, <1>5
<1>7. r = 0
  <2>1. ASSUME r # 0
        PROVE  FALSE
    <3>1. PICK k \in Nat : r = k + 1
      <4>1. r - 1 \in Nat /\ r = (r - 1) + 1
        BY ONLY <2>1, r \in Nat
      <4>2. QED
        BY ONLY <4>1
    <3>2. (k + 1) * p = k * p + p /\ k * p \in Nat
      BY ONLY k \in Nat, p \in Nat
    <3>3. QED
      BY ONLY <1>5, <1>6, <3>1, <3>2, p \in Nat, q \in Nat, s \in Nat, v \in Nat
  <2>2. QED
    BY <2>1
<1>8. 0 * p + s = s
  BY ONLY p \in Nat, s \in Nat
<1>9. QED
  BY ONLY <1>5, <1>6, <1>7, <1>8

\* PackParams: what is_legal_width and the modulus give a width.
LEMMA LegalWidthsPack ==
  ASSUME CrsAssumption, PowersDouble, Inv
  PROVE  WidthsPack
<1>1. SUFFICES ASSUME at = "ready", width > 0
      PROVE  LET n == params.ringDim
                 pows == GenPows(n, Generator(n, width))
                 full == GenPows(n, FullGenerator)
                 odd == {2 * i + 1 : i \in 0 .. n - 1}
             IN  /\ \A i, j \in 0 .. width - 1 : pows[i] = pows[j] => i = j
                 /\ (pows[width - 1] * Generator(n, width)) % (2 * n) = 1
                 /\ Inverses(width, params.q) # {}
                 /\ n >= 4 => {full[i] : i \in 0 .. n \div 2 - 1}
                                \cup {2 * n - full[i] : i \in 0 .. n \div 2 - 1} = odd
  BY Zenon DEF WidthsPack
<1>2. Checked(params) /\ IsLegalWidth(params.ringDim, width) /\ width \in Nat /\ params \in ParamRecords
  BY ONLY <1>1, Inv DEF Inv, TypeOK, Accepting, Sound
<1>3. PICK n \in Nat, q \in Nat, w \in Nat :
        /\ n = params.ringDim /\ q = params.q /\ w = width /\ q % (2 * n) = 1
        /\ IsPowerOfTwo(n) /\ IsLegalWidth(n, w)
  <2>1. /\ params.q % (2 * params.ringDim) = 1 /\ params.q \in 1 .. Word - 1
        /\ IsPowerOfTwo(params.ringDim)
    BY ONLY <1>2, CrsAssumption, PowersDouble, CheckedModulus
  <2>2. params.ringDim \in Nat
    BY ONLY <1>2 DEF ParamRecords
  <2>3. params.q \in Nat
    BY ONLY <2>1
  <2>4. QED
    BY ONLY <1>2, <2>1, <2>2, <2>3
<1>4. PICK e \in Nat, c \in Nat : Exponents(n, w, e, c)
  BY ONLY <1>3, n \in Nat, w \in Nat, CrsAssumption, PowersDouble, LegalExponents
<1>5. /\ \A i, j \in 0 .. w - 1 :
           GenPows(n, Generator(n, w))[i] = GenPows(n, Generator(n, w))[j] => i = j
      /\ (GenPows(n, Generator(n, w))[w - 1] * Generator(n, w)) % (2 * n) = 1
  BY ONLY <1>4, n \in Nat, w \in Nat, WidthIsOrder
<1>6. Inverses(w, q) # {}
  BY ONLY <1>3, <1>4, n \in Nat, w \in Nat, q \in Nat, WidthInverts
<1>7. n >= 4 =>
        {GenPows(n, FullGenerator)[i] : i \in 0 .. n \div 2 - 1}
          \cup {2 * n - GenPows(n, FullGenerator)[i] : i \in 0 .. n \div 2 - 1}
        = {2 * i + 1 : i \in 0 .. n - 1}
  BY ONLY <1>3, n \in Nat, CrsAssumption, PowersDouble, FiveGenerates
<1>8. QED
  BY ONLY <1>3, <1>5, <1>6, <1>7, Zenon

\* The invariant holds in every state, whatever parameters callers write, whatever blobs
\* arrive, and however wide words are.
THEOREM CrsInductive ==
  ASSUME CrsAssumption, PowersDouble
  PROVE  Spec => []Inv
<1>1. Init => Inv
  BY InitInv
<1>2. Inv /\ [Next]_vars => Inv'
  BY StepInv
<1>3. QED
  BY <1>1, <1>2, PTL DEF Spec

\* GadgetCovers: under parameters that validate accepted, gadget_decompose leaves nothing
\* behind and gadget_reconstruct gives the coefficient, for every modulus, base and length.
THEOREM GadgetAlwaysCovers ==
  ASSUME CrsAssumption, PowersDouble
  PROVE  Spec => []GadgetCovers
<1>1. Inv => GadgetCovers
  BY DigitsCover
<1>2. QED
  BY <1>1, CrsInductive, PTL

\* WidthsPack: a width that PackParams lets through has a generator of that order, an
\* inverse modulo q, and powers of 5 that reach every odd index, for every ring dimension.
THEOREM WidthsAlwaysPack ==
  ASSUME CrsAssumption, PowersDouble
  PROVE  Spec => []WidthsPack
<1>1. Inv => WidthsPack
  BY LegalWidthsPack
<1>2. QED
  BY <1>1, CrsInductive, PTL

\* OwnParametersPass: a CRS that setup made is refused by from_versioned_bytes only when
\* its body exceeds the limit or its moduli multiply past a word, and otherwise passes
\* every check again and packs; for_scenario_with_crt makes parameters whose gadget and
\* product pass. For every limit, modulus, base and length.
THEOREM OwnParametersAlwaysPass ==
  ASSUME CrsAssumption, PowersDouble
  PROVE  Spec => []OwnParametersPass
<1>1. Inv => OwnParametersPass
  BY DEF Inv, Owning, Widening, OwnParametersPass, OwnCrsAccepted, WideningSuffices
<1>2. QED
  BY <1>1, CrsInductive, PTL
-----------------------------------------------------------------------------
(* Switched answers                                                        *)

Used == Targets \cup {Q}

\* What the assumptions say of the constants.
LEMMA ConstantFacts ==
  ASSUME SwitchAssumption
  PROVE  /\ N \in Nat \ {0} /\ Q \in Nat /\ Q > 1
         /\ P \in Nat /\ P > 1 /\ P < Q
         /\ ByteBits \in Nat \ {0} /\ WordBits \in Nat \ {0}
         /\ Used \subseteq Nat \ {0}
         /\ \A q \in Used : q <= 2 ^ WordBits
BY DEF SwitchAssumption, RingAssumption, Used

\* The powers of two in use are those of TwoTo, of which the law of exponents is known.
LEMMA PowersAgree ==
  ASSUME SwitchAssumption, PowersOfTwoDouble
  PROVE  \A k \in 0 .. WordBits + ByteBits : 2 ^ k = TwoTo(k)
<1>1. PICK n \in Nat : n = WordBits + ByteBits
  BY ConstantFacts
<1>2. 2 ^ 0 = 1 /\ \A k \in 0 .. n : 2 ^ (k + 1) = 2 * 2 ^ k
  BY ONLY <1>1, PowersOfTwoDouble DEF PowersOfTwoDouble
<1> DEFINE T == {k \in 0 .. n : 2 ^ k = TwoTo(k)}
<1>3. 0 \in T
  BY ONLY <1>2, n \in Nat, TwoToStep
<1>4. \A k \in 0 .. n : k # n /\ k \in T => k + 1 \in T
  <2>1. SUFFICES ASSUME NEW k \in 0 .. n, k # n, k \in T
                 PROVE  k + 1 \in T
    OBVIOUS
  <2>2. PICK t \in Nat : t = TwoTo(k) /\ TwoTo(k + 1) = t * 2
    BY ONLY k \in 0 .. n, n \in Nat, TwoToStep
  <2>3. 2 ^ (k + 1) = 2 * t
    BY ONLY <1>2, <2>1, <2>2
  <2>4. k + 1 \in 0 .. n
    BY ONLY k \in 0 .. n, n \in Nat, k # n
  <2>5. QED
    BY ONLY <2>2, <2>3, <2>4, t \in Nat
<1> HIDE DEF T
<1>5. \A k \in 0 .. n : k \in T
  BY ONLY <1>3, <1>4, n \in Nat, Induction
<1>6. QED
  BY ONLY <1>1, <1>5 DEF T

\* Quotient and remainder, named.
LEMMA Division ==
  ASSUME NEW a \in Int, NEW q \in Nat \ {0}
  PROVE  \E k \in Int, r \in 0 .. q - 1 : a = q * k + r /\ r = a % q /\ k = a \div q
<1>1. a = q * (a \div q) + (a % q) /\ a % q \in 0 .. q - 1 /\ a \div q \in Int
  BY ONLY a \in Int, q \in Nat \ {0}, DivMod
<1>2. QED
  BY ONLY <1>1, Zenon

-----------------------------------------------------------------------------
(* The wire                                                                *)

\* encode_response_packed: the width is enough for every residue.
LEMMA WidthCovers ==
  ASSUME SwitchAssumption, PowersOfTwoDouble, NEW q \in Used
  PROVE  /\ Width(q) \in Nat \ {0}
         /\ ByteBits * Width(q) < WordBits + ByteBits
         /\ q <= TwoTo(ByteBits * Width(q))
<1>1. PICK b \in Nat \ {0}, n \in Nat \ {0} : b = ByteBits /\ n = WordBits
  BY ConstantFacts
<1>2. q \in Nat \ {0} /\ q <= 2 ^ n
  BY <1>1, ConstantFacts
<1>3. \A k \in 1 .. n : 2 ^ k = TwoTo(k) /\ TwoTo(k) \in Nat
  <2>1. \A k \in 1 .. n : k \in 0 .. n + b /\ k \in Nat
    BY ONLY b \in Nat, n \in Nat
  <2>2. \A k \in 0 .. n + b : 2 ^ k = TwoTo(k)
    BY <1>1, PowersAgree
  <2>3. QED
    BY ONLY <2>1, <2>2, TwoToStep
<1> DEFINE T == {k \in 1 .. n : q <= 2 ^ k}
           Fits(k) == q <= 2 ^ k /\ \A l \in 1 .. k - 1 : q > 2 ^ l
<1>4. n \in T /\ T \in SUBSET Nat
  BY ONLY <1>2, n \in Nat \ {0}
<1>5. PICK m \in T : \A k \in T : m <= k
  BY ONLY <1>4, LeastNat
<1>6. m \in 1 .. n /\ q <= 2 ^ m
  BY ONLY <1>5
<1>7. \A l \in 1 .. m - 1 : q > 2 ^ l
  <2>1. SUFFICES ASSUME NEW l \in 1 .. m - 1
                 PROVE  q > 2 ^ l
    OBVIOUS
  <2>2. l \in 1 .. n /\ l < m
    BY ONLY <1>6, l \in 1 .. m - 1, n \in Nat
  <2>3. l \notin T
    BY ONLY <1>5, <1>6, <2>2
  <2>4. 2 ^ l \in Nat
    BY ONLY <1>3, <2>2
  <2>5. QED
    BY ONLY <1>2, <2>2, <2>3, <2>4
<1>8. Fits(m)
  BY ONLY <1>6, <1>7
<1>9. PICK bits \in 1 .. n : bits = (CHOOSE k \in 1 .. WordBits : q <= 2 ^ k /\ \A l \in 1 .. k - 1 : q > 2 ^ l)
                             /\ q <= 2 ^ bits
  <2>1. m \in 1 .. WordBits
    BY ONLY <1>1, <1>6
  <2>2. \E k \in 1 .. WordBits : q <= 2 ^ k /\ \A l \in 1 .. k - 1 : q > 2 ^ l
    BY ONLY <1>8, <2>1
  <2>3. QED
    BY ONLY <1>1, <2>2, Zenon
<1>10. PICK w \in Int : w = Width(q) /\ w = (bits + b - 1) \div b
  <2>1. Width(q) = (bits + ByteBits - 1) \div ByteBits
    BY ONLY <1>9, Zenon DEF Width
  <2>2. PICK a \in Int : a = bits + b - 1
    BY ONLY bits \in 1 .. n, b \in Nat \ {0}, n \in Nat
  <2>3. PICK k \in Int, r \in 0 .. b - 1 : a = b * k + r /\ r = a % b /\ k = a \div b
    BY ONLY a \in Int, b \in Nat \ {0}, Division
  <2>4. k = Width(q)
    BY ONLY <1>1, <2>1, <2>2, <2>3
  <2>5. QED
    BY ONLY <2>2, <2>3, <2>4
<1>11. w \in Nat \ {0} /\ b * w \in Nat /\ b * w >= bits /\ b * w < n + b
  <2>1. PICK r \in 0 .. b - 1 : bits + b - 1 = b * w + r
    <3>1. PICK a \in Int : a = bits + b - 1
      BY ONLY bits \in 1 .. n, b \in Nat \ {0}, n \in Nat
    <3>2. PICK k \in Int, r \in 0 .. b - 1 : a = b * k + r /\ r = a % b /\ k = a \div b
      BY ONLY a \in Int, b \in Nat \ {0}, Division
    <3>3. k = w
      BY ONLY <1>10, <3>1, <3>2
    <3>4. QED
      BY ONLY <3>1, <3>2, <3>3
  <2>2. PICK z \in Int : z = b * w
    BY ONLY w \in Int, b \in Nat
  <2>3. z >= bits /\ z < n + b
    BY ONLY <2>1, <2>2, bits \in 1 .. n, b \in Nat \ {0}, n \in Nat, z \in Int, r \in 0 .. b - 1
  <2>4. w > 0
    <3>1. ASSUME w <= 0 PROVE b * w <= 0
      <4>1. PICK e \in Nat : e = -w
        BY ONLY <3>1, w \in Int
      <4>2. b * e \in Nat /\ b * w = -(b * e)
        BY ONLY <4>1, e \in Nat, b \in Nat, w \in Int
      <4>3. QED
        BY ONLY <4>2
    <3>2. QED
      BY ONLY <2>2, <2>3, <3>1, w \in Int, bits \in 1 .. n, n \in Nat, z \in Int
  <2>5. QED
    BY ONLY <2>2, <2>3, <2>4, w \in Int, bits \in 1 .. n, n \in Nat, z \in Int
<1>12. TwoTo(bits) <= TwoTo(b * w)
  BY ONLY <1>11, bits \in 1 .. n, n \in Nat, TwoToGrows
<1>13. q <= TwoTo(b * w)
  <2>1. PICK y \in Nat : y = TwoTo(bits) /\ q <= y
    BY ONLY <1>3, <1>9, bits \in 1 .. n
  <2>2. TwoTo(b * w) \in Nat
    BY ONLY <1>11, TwoToStep
  <2>3. QED
    BY ONLY <1>2, <1>12, <2>1, <2>2, y \in Nat
<1>14. QED
  BY ONLY <1>1, <1>10, <1>11, <1>13

\* One more digit of base c on top of the remainder modulo m.
LEMMA DigitOnTop ==
  ASSUME NEW v \in Nat, NEW m \in Nat \ {0}, NEW c \in Nat \ {0}
  PROVE  v % (m * c) = (v % m) + ((v \div m) % c) * m
<1>1. PICK u \in Int, r \in 0 .. m - 1 : v = m * u + r /\ r = v % m /\ u = v \div m
  <2>1. v \in Int
    BY ONLY v \in Nat
  <2>2. \E u \in Int, r \in 0 .. m - 1 : v = m * u + r /\ r = v % m /\ u = v \div m
    BY ONLY <2>1, m \in Nat \ {0}, Division, Zenon
  <2>3. QED
    BY ONLY <2>2
<1>2. PICK t \in Int, d \in 0 .. c - 1 : u = c * t + d /\ d = u % c
  BY ONLY u \in Int, c \in Nat \ {0}, Division, Zenon
<1>3. PICK z \in Nat \ {0} : z = m * c
  BY ONLY m \in Nat \ {0}, c \in Nat \ {0}
<1>4. v = z * t + (d * m + r)
  <2>1. m * u = m * (c * t) + m * d
    <3>1. PICK x \in Int : x = c * t
      BY ONLY c \in Nat, t \in Int
    <3>2. m * (x + d) = m * x + m * d
      BY ONLY x \in Int, m \in Nat, d \in 0 .. c - 1, c \in Nat
    <3>3. QED
      BY ONLY <1>2, <3>1, <3>2
  <2>2. m * (c * t) = z * t
    BY ONLY <1>3, m \in Nat, c \in Nat, t \in Int
  <2>3. m * d = d * m
    BY ONLY m \in Nat, c \in Nat, d \in 0 .. c - 1
  <2>4. z * t \in Int /\ d * m \in Int /\ m * u \in Int
    BY ONLY z \in Nat, t \in Int, m \in Nat, c \in Nat, d \in 0 .. c - 1, u \in Int
  <2>5. QED
    BY ONLY <1>1, <2>1, <2>2, <2>3, <2>4, r \in 0 .. m - 1, m \in Nat
<1>5. d * m + r \in 0 .. z - 1
  <2>1. PICK y \in Nat : y = d * m
    BY ONLY m \in Nat, c \in Nat, d \in 0 .. c - 1
  <2>2. PICK e \in Nat : e = c - 1 - d
    BY ONLY c \in Nat \ {0}, d \in 0 .. c - 1
  <2>3. z = y + m + e * m
    BY ONLY <1>3, <2>1, <2>2, m \in Nat, c \in Nat, e \in Nat, d \in 0 .. c - 1
  <2>4. e * m \in Nat
    BY ONLY e \in Nat, m \in Nat
  <2>5. QED
    BY ONLY <2>1, <2>3, <2>4, y \in Nat, m \in Nat, r \in 0 .. m - 1, z \in Nat
<1>6. v % z = d * m + r
  <2>1. PICK x \in 0 .. z - 1 : x = d * m + r
    BY ONLY <1>5
  <2>2. v \in Int /\ v = z * t + x
    BY ONLY <1>4, <2>1, v \in Nat
  <2>3. v % z = x
    BY ONLY <2>2, z \in Nat \ {0}, t \in Int, x \in 0 .. z - 1, DivModUnique
  <2>4. QED
    BY ONLY <2>1, <2>3
<1>7. d * m \in Int /\ d * m + r = r + d * m
  BY ONLY d \in 0 .. c - 1, r \in 0 .. m - 1, m \in Nat, c \in Nat
<1>8. QED
  BY ONLY <1>1, <1>2, <1>3, <1>6, <1>7

\* write_poly_packed: a byte on top of those below it.
LEMMA ByteOnTop ==
  ASSUME SwitchAssumption, PowersOfTwoDouble, NEW v \in Nat, NEW nbyte \in Nat,
         ByteBits * nbyte <= WordBits + ByteBits, NEW k \in 1 .. nbyte
  PROVE  (v % TwoTo(ByteBits * (k - 1))) + Byte(v, k - 1) * 2 ^ (ByteBits * (k - 1))
           = v % TwoTo(ByteBits * k)
<1>1. PICK b \in Nat \ {0}, n \in Nat \ {0} : b = ByteBits /\ n = WordBits
  BY ConstantFacts
<1>2. PICK l \in Nat : l = k - 1
  BY ONLY k \in 1 .. nbyte, nbyte \in Nat
<1>3. PICK x \in Nat : x = b * l
  BY ONLY b \in Nat, l \in Nat
<1>4. b * k = x + b
  BY ONLY <1>2, <1>3, b \in Nat, l \in Nat, k \in 1 .. nbyte, nbyte \in Nat
<1>5. x + b <= n + b
  <2>1. PICK e \in Nat : nbyte = k + e
    <3>1. nbyte - k \in Nat /\ nbyte = k + (nbyte - k)
      BY ONLY k \in 1 .. nbyte, nbyte \in Nat
    <3>2. QED
      BY ONLY <3>1
  <2>2. b * nbyte = b * k + b * e /\ b * e \in Nat
    BY ONLY <2>1, b \in Nat, e \in Nat, k \in 1 .. nbyte, nbyte \in Nat
  <2>3. PICK f \in Nat : b * nbyte = (x + b) + f
    BY ONLY <1>4, <2>2
  <2>4. (x + b) + f <= n + b
    BY ONLY <1>1, <2>3, ByteBits * nbyte <= WordBits + ByteBits
  <2>5. QED
    BY ONLY <2>4, x \in Nat, b \in Nat, f \in Nat, n \in Nat
<1>6. 2 ^ x = TwoTo(x) /\ 2 ^ b = TwoTo(b)
  <2>1. x \in 0 .. n + b /\ b \in 0 .. n + b
    BY ONLY <1>5, x \in Nat, b \in Nat, n \in Nat
  <2>2. QED
    BY <1>1, <2>1, PowersAgree
<1>7. PICK m \in Nat \ {0}, c \in Nat \ {0} : m = TwoTo(x) /\ c = TwoTo(b) /\ TwoTo(x + b) = m * c
  <2>1. TwoTo(x) \in Nat /\ TwoTo(x) >= 1 /\ TwoTo(b) \in Nat /\ TwoTo(b) >= 1
    BY ONLY x \in Nat, b \in Nat, TwoToStep
  <2>2. TwoTo(x + b) = TwoTo(x) * TwoTo(b)
    BY ONLY x \in Nat, b \in Nat, TwoToSum
  <2>3. QED
    BY ONLY <2>1, <2>2
<1>8. Byte(v, k - 1) = (v \div m) % c
  BY ONLY <1>1, <1>2, <1>3, <1>6, <1>7 DEF Byte
<1>9. v % (m * c) = (v % m) + ((v \div m) % c) * m
  BY ONLY v \in Nat, m \in Nat \ {0}, c \in Nat \ {0}, DigitOnTop
<1>10. TwoTo(ByteBits * (k - 1)) = m /\ 2 ^ (ByteBits * (k - 1)) = m /\ TwoTo(ByteBits * k) = m * c
  BY ONLY <1>1, <1>2, <1>3, <1>4, <1>6, <1>7
<1>11. QED
  BY ONLY <1>8, <1>9, <1>10

\* read_poly, for one coefficient.
ReadValue(bytes, ix, nbyte) ==
  LET total[k \in 0 .. nbyte] ==
        IF k = 0 THEN 0
        ELSE total[k - 1] + bytes[ix + k] * 2 ^ (ByteBits * (k - 1))
  IN  total[nbyte]

\* The bytes of a number, read one by one, make the number.
LEMMA BytesMakeValue ==
  ASSUME SwitchAssumption, PowersOfTwoDouble, NEW v \in Nat, NEW nbyte \in Nat,
         ByteBits * nbyte <= WordBits + ByteBits, v < TwoTo(ByteBits * nbyte),
         NEW bytes, NEW ix, \A k \in 1 .. nbyte : bytes[ix + k] = Byte(v, k - 1)
  PROVE  ReadValue(bytes, ix, nbyte) = v
<1> DEFINE F(g) == [k \in 0 .. nbyte |->
                      IF k = 0 THEN 0
                      ELSE g[k - 1] + bytes[ix + k] * 2 ^ (ByteBits * (k - 1))]
           f == [k \in 0 .. nbyte |-> v % TwoTo(ByteBits * k)]
<1>1. ByteBits \in Nat
  BY ConstantFacts
<1>2. v % TwoTo(ByteBits * 0) = 0
  <2>1. ByteBits * 0 = 0
    BY ONLY <1>1
  <2>2. TwoTo(ByteBits * 0) = 1
    BY ONLY <2>1, TwoToStep
  <2>3. v % 1 = 0
    BY ONLY v \in Nat
  <2>4. QED
    BY ONLY <2>2, <2>3
<1>3. ASSUME NEW k \in 1 .. nbyte
      PROVE  (v % TwoTo(ByteBits * (k - 1))) + bytes[ix + k] * 2 ^ (ByteBits * (k - 1))
               = v % TwoTo(ByteBits * k)
  <2>1. bytes[ix + k] = Byte(v, k - 1)
    OBVIOUS
  <2>2. QED
    BY <2>1, ByteOnTop
<1>4. f = F(f)
  <2>1. ASSUME NEW k \in 0 .. nbyte
        PROVE  f[k] = IF k = 0 THEN 0
                      ELSE f[k - 1] + bytes[ix + k] * 2 ^ (ByteBits * (k - 1))
    <3>1. CASE k = 0
      BY ONLY <1>2, <3>1, k \in 0 .. nbyte
    <3>2. CASE k # 0
      <4>1. k \in 1 .. nbyte /\ k - 1 \in 0 .. nbyte
        BY ONLY <3>2, k \in 0 .. nbyte, nbyte \in Nat
      <4>2. f[k] = v % TwoTo(ByteBits * k) /\ f[k - 1] = v % TwoTo(ByteBits * (k - 1))
        BY ONLY <4>1, k \in 0 .. nbyte
      <4>3. QED
        BY ONLY <1>3, <3>2, <4>1, <4>2
    <3>3. QED
      BY ONLY <3>1, <3>2
  <2>2. QED
    BY ONLY <2>1, Zenon
<1>5. PICK y : y = F(y) /\ ReadValue(bytes, ix, nbyte) = y[nbyte]
  <2>1. ReadValue(bytes, ix, nbyte) = (CHOOSE y : y = F(y))[nbyte]
    BY ONLY Zenon DEF ReadValue
  <2> HIDE DEF F, f
  <2>2. QED
    BY ONLY <1>4, <2>1, Zenon
<1>6. \A k \in 0 .. nbyte : y[k] = IF k = 0 THEN 0
                                   ELSE y[k - 1] + bytes[ix + k] * 2 ^ (ByteBits * (k - 1))
  BY ONLY <1>5, Zenon
<1> DEFINE T == {k \in 0 .. nbyte : y[k] = v % TwoTo(ByteBits * k)}
<1>7. 0 \in T
  <2>1. 0 \in 0 .. nbyte
    BY ONLY nbyte \in Nat
  <2>2. QED
    BY ONLY <1>2, <1>6, <2>1
<1>8. ASSUME NEW k \in 0 .. nbyte, k # nbyte, k \in T
      PROVE  k + 1 \in T
  <2>1. PICK l \in 1 .. nbyte : l = k + 1 /\ l - 1 = k /\ l # 0 /\ l \in 0 .. nbyte
    BY ONLY <1>8, nbyte \in Nat
  <2>2. y[l - 1] = v % TwoTo(ByteBits * (l - 1))
    BY ONLY <1>8, <2>1
  <2>3. y[l] = y[l - 1] + bytes[ix + l] * 2 ^ (ByteBits * (l - 1))
    BY ONLY <1>6, <2>1
  <2>4. y[l] = v % TwoTo(ByteBits * l)
    BY ONLY <1>3, <2>2, <2>3, l \in 1 .. nbyte
  <2>5. QED
    BY ONLY <2>1, <2>4
<1> HIDE DEF T
<1>9. nbyte \in T
  BY ONLY <1>7, <1>8, nbyte \in Nat, Induction
<1>10. y[nbyte] = v % TwoTo(ByteBits * nbyte)
  BY ONLY <1>9 DEF T
<1>11. PICK z \in Nat \ {0} : z = TwoTo(ByteBits * nbyte)
  <2>1. ByteBits * nbyte \in Nat
    BY ONLY <1>1, nbyte \in Nat
  <2>2. TwoTo(ByteBits * nbyte) \in Nat /\ TwoTo(ByteBits * nbyte) >= 1
    BY ONLY <2>1, TwoToStep
  <2>3. QED
    BY ONLY <2>2
<1>12. v % z = v
  <2>1. v \in 0 .. z - 1
    BY ONLY <1>11, v < TwoTo(ByteBits * nbyte), v \in Nat, z \in Nat
  <2>2. QED
    BY ONLY <2>1, z \in Nat \ {0}, ModSmall
<1>13. QED
  BY ONLY <1>5, <1>10, <1>11, <1>12

\* Where a byte is on the wire: of count polynomials j, of n coefficients i, the k-th.
Located(n, nbyte, count, j, i, k, len, pos) ==
  /\ pos \in 1 .. count * len
  /\ (pos - 1) \div len = j
  /\ \E ix \in 1 .. len : /\ ix = ((pos - 1) % len) + 1
                         /\ (ix - 1) \div nbyte = i /\ (ix - 1) % nbyte = k - 1

\* What is put at that place is found there.
LEMMA PositionSplit ==
  ASSUME NEW n \in Nat \ {0}, NEW nbyte \in Nat \ {0}, NEW count \in Nat,
         NEW j \in 0 .. count - 1, NEW i \in 0 .. n - 1, NEW k \in 1 .. nbyte,
         NEW len, len = n * nbyte, NEW pos, pos = j * n * nbyte + i * nbyte + k
  PROVE  Located(n, nbyte, count, j, i, k, len, pos)
<1>1. PICK x \in Nat, d \in 0 .. nbyte - 1 :
        /\ len \in Nat \ {0} /\ len = n * nbyte
        /\ x = i * nbyte + d /\ d = k - 1 /\ x = nbyte * i + d
  <2>1. len \in Nat \ {0} /\ len = n * nbyte
    BY ONLY len = n * nbyte, n \in Nat \ {0}, nbyte \in Nat \ {0}
  <2>2. PICK d \in 0 .. nbyte - 1 : d = k - 1
    BY ONLY k \in 1 .. nbyte, nbyte \in Nat
  <2>3. i * nbyte + d \in Nat /\ i * nbyte = nbyte * i
    BY ONLY i \in 0 .. n - 1, n \in Nat, nbyte \in Nat \ {0}, d \in 0 .. nbyte - 1
  <2>4. QED
    BY ONLY <2>1, <2>2, <2>3
<1>2. x < len
  <2>1. PICK e \in Nat : e = n - 1 - i
    BY ONLY i \in 0 .. n - 1, n \in Nat
  <2>2. n = i + 1 + e
    BY ONLY <2>1, i \in 0 .. n - 1, n \in Nat
  <2>3. (i + 1 + e) * nbyte = i * nbyte + nbyte + e * nbyte
    BY ONLY i \in 0 .. n - 1, n \in Nat, e \in Nat, nbyte \in Nat
  <2>4. PICK y \in Nat, z \in Nat : y = i * nbyte /\ z = e * nbyte
    BY ONLY i \in 0 .. n - 1, n \in Nat, e \in Nat, nbyte \in Nat
  <2>5. len = y + nbyte + z
    BY ONLY <1>1, <2>2, <2>3, <2>4
  <2>6. x = y + d
    BY ONLY <1>1, <2>4
  <2>7. QED
    BY ONLY <2>5, <2>6, d \in 0 .. nbyte - 1, y \in Nat, z \in Nat, nbyte \in Nat
<1>3. pos - 1 = len * j + x /\ pos \in Int
  <2>1. j * n * nbyte = len * j
    BY ONLY <1>1, j \in 0 .. count - 1, count \in Nat, n \in Nat, nbyte \in Nat
  <2>2. PICK y \in Int, z \in Int : y = len * j /\ z = i * nbyte
    BY ONLY <1>1, j \in 0 .. count - 1, count \in Nat, i \in 0 .. n - 1, n \in Nat, nbyte \in Nat
  <2>3. pos = y + z + k /\ x = z + d /\ d = k - 1
    BY ONLY <1>1, <2>1, <2>2, pos = j * n * nbyte + i * nbyte + k
  <2>4. QED
    BY ONLY <2>2, <2>3, y \in Int, z \in Int, k \in 1 .. nbyte, nbyte \in Nat
<1>4. (pos - 1) % len = x /\ (pos - 1) \div len = j
  <2>1. pos - 1 \in Int /\ x \in 0 .. len - 1 /\ j \in Int
    BY ONLY <1>2, <1>3, x \in Nat, <1>1, j \in 0 .. count - 1, count \in Nat
  <2>2. PICK a \in Int : a = pos - 1
    BY ONLY <2>1
  <2>3. a = len * j + x
    BY ONLY <1>3, <2>2
  <2>4. a % len = x /\ a \div len = j
    BY ONLY <2>1, <2>3, a \in Int, <1>1, DivModUnique
  <2>5. QED
    BY ONLY <2>2, <2>4
<1>5. x % nbyte = d /\ x \div nbyte = i
  <2>1. x \in Int /\ i \in Int
    BY ONLY x \in Nat, i \in 0 .. n - 1, n \in Nat
  <2>2. QED
    BY ONLY <1>1, <2>1, nbyte \in Nat \ {0}, d \in 0 .. nbyte - 1, DivModUnique
<1>6. PICK ix \in 1 .. len : ix = x + 1 /\ ix - 1 = x
  BY ONLY <1>1, <1>2, x \in Nat
<1>7. pos \in 1 .. count * len
  <2>1. PICK e \in Nat : e = count - 1 - j
    BY ONLY j \in 0 .. count - 1, count \in Nat
  <2>2. count = j + 1 + e
    BY ONLY <2>1, j \in 0 .. count - 1, count \in Nat
  <2>3. PICK y \in Nat, z \in Nat : y = len * j /\ z = e * len
    BY ONLY j \in 0 .. count - 1, count \in Nat, e \in Nat, <1>1
  <2>4. (j + 1 + e) * len = len * j + len + e * len
    BY ONLY j \in 0 .. count - 1, count \in Nat, e \in Nat, <1>1
  <2>5. count * len = y + len + z
    BY ONLY <2>2, <2>3, <2>4
  <2>6. pos - 1 = y + x
    BY ONLY <1>3, <2>3
  <2>7. QED
    BY ONLY <1>2, <1>3, <2>5, <2>6, x \in Nat, y \in Nat, z \in Nat, <1>1
<1>8. QED
  BY ONLY <1>1, <1>4, <1>5, <1>6, <1>7 DEF Located

\* Residues modulo q, in polynomials and ciphertexts.
PolysOf(q) == [Idx -> 0 .. q - 1]
CtsOf(q) == [a : PolysOf(q), b : PolysOf(q)]

\* A response whose polynomials are those of its modulus.
AnswerTyped(r) ==
  /\ r = [modulus |-> r.modulus, limbs |-> r.limbs, mode |-> r.mode, cts |-> r.cts]
  /\ r.modulus \in Used
  /\ Len(r.cts) \in Nat \ {0}
  /\ r.cts \in [1 .. Len(r.cts) -> CtsOf(r.modulus)]

\* What of the payload is polynomial number j, from 0.
OnWire(r, j) == IF (j + 1) % 2 = 1 THEN r.cts[(j + 2) \div 2].a ELSE r.cts[(j + 1) \div 2].b

\* encode_response_packed: every polynomial is where its number says, byte by byte.
LEMMA WireHolds ==
  ASSUME SwitchAssumption, PowersOfTwoDouble, NEW r, AnswerTyped(r),
         NEW j \in 0 .. 2 * Len(r.cts) - 1, NEW i \in Idx, NEW k \in 1 .. Width(r.modulus)
  PROVE  Encoded(r).payload[j * N * Width(r.modulus) + i * Width(r.modulus) + k]
           = Byte(OnWire(r, j)[i], k - 1)
<1>1. PICK nbyte \in Nat \ {0}, count \in Nat, n \in Nat \ {0} :
        nbyte = Width(r.modulus) /\ count = 2 * Len(r.cts) /\ n = N
  <2>1. Width(r.modulus) \in Nat \ {0}
    BY WidthCovers DEF AnswerTyped
  <2>2. 2 * Len(r.cts) \in Nat
    <3>1. Len(r.cts) \in Nat
      BY DEF AnswerTyped
    <3>2. QED
      BY ONLY <3>1
  <2>3. N \in Nat \ {0}
    BY ConstantFacts
  <2>4. QED
    BY ONLY <2>1, <2>2, <2>3
<1>2. PICK pos : pos = j * n * nbyte + i * nbyte + k
  OBVIOUS
<1>3. j \in 0 .. count - 1 /\ i \in 0 .. n - 1 /\ k \in 1 .. nbyte
  BY ONLY <1>1, j \in 0 .. 2 * Len(r.cts) - 1, i \in Idx, k \in 1 .. Width(r.modulus) DEF Idx
<1>11. PICK len : len = n * nbyte
  OBVIOUS
<1>4. /\ pos \in 1 .. count * len
      /\ (pos - 1) \div len = j
      /\ \E ix \in 1 .. len : /\ ix = ((pos - 1) % len) + 1
                             /\ (ix - 1) \div nbyte = i /\ (ix - 1) % nbyte = k - 1
  <2>1. Located(n, nbyte, count, j, i, k, len, pos)
    BY ONLY <1>2, <1>3, <1>11, n \in Nat \ {0}, nbyte \in Nat \ {0}, count \in Nat, PositionSplit
  <2>2. QED
    BY ONLY <2>1 DEF Located
<1> DEFINE polys == [l \in 1 .. count |-> IF l % 2 = 1 THEN r.cts[(l + 1) \div 2].a
                                          ELSE r.cts[l \div 2].b]
<1>5. polys[j + 1] = OnWire(r, j)
  <2>1. j + 1 \in 1 .. count /\ j + 1 + 1 = j + 2
    BY ONLY <1>3, count \in Nat
  <2>2. QED
    BY ONLY <2>1 DEF OnWire
<1>6. Encoded(r).payload = [l \in 1 .. count * len |->
                              Packed(polys[(l - 1) \div len + 1], nbyte)
                                [((l - 1) % len) + 1]]
  BY ONLY <1>1, <1>11 DEF Encoded
<1> HIDE DEF polys
<1>7. Encoded(r).payload[pos] = Packed(polys[j + 1], nbyte)[((pos - 1) % len) + 1]
  BY ONLY <1>4, <1>6
<1>8. PICK ix \in 1 .. len : /\ ix = ((pos - 1) % len) + 1
                             /\ (ix - 1) \div nbyte = i /\ (ix - 1) % nbyte = k - 1
  BY ONLY <1>4
<1>9. Packed(polys[j + 1], nbyte)[ix] = Byte(polys[j + 1][i], k - 1)
  <2>1. Packed(polys[j + 1], nbyte)
          = [l \in 1 .. len |-> Byte(polys[j + 1][(l - 1) \div nbyte], (l - 1) % nbyte)]
    BY ONLY <1>1, <1>11, Zenon DEF Packed
  <2>2. QED
    BY ONLY <1>8, <2>1, Zenon
<1>10. QED
  BY ONLY <1>1, <1>2, <1>5, <1>7, <1>8, <1>9

\* decode_response_packed undoes encode_response_packed.
LEMMA RoundTrip ==
  ASSUME SwitchAssumption, PowersOfTwoDouble, NEW r, AnswerTyped(r), r.limbs = 1
  PROVE  Decoded(Encoded(r)) = r
<1>1. PICK q \in Used, length \in Nat \ {0}, nbyte \in Nat \ {0}, n \in Nat \ {0} :
        q = r.modulus /\ length = Len(r.cts) /\ nbyte = Width(q) /\ n = N
  <2>1. Width(r.modulus) \in Nat \ {0}
    BY WidthCovers DEF AnswerTyped
  <2>2. N \in Nat \ {0}
    BY ConstantFacts
  <2>3. r.modulus \in Used /\ Len(r.cts) \in Nat \ {0}
    BY DEF AnswerTyped
  <2>4. QED
    BY ONLY <2>1, <2>2, <2>3
<1>2. ByteBits * nbyte < WordBits + ByteBits /\ q <= TwoTo(ByteBits * nbyte) /\ q \in Nat \ {0}
  BY <1>1, WidthCovers, ConstantFacts
<1>3. PICK fits \in Nat : fits = TwoTo(ByteBits * nbyte)
  <2>1. ByteBits * nbyte \in Nat
    <3>1. ByteBits \in Nat
      BY ConstantFacts
    <3>2. QED
      BY ONLY <3>1, nbyte \in Nat
  <2>2. QED
    BY ONLY <2>1, TwoToStep
<1> DEFINE w == Encoded(r)
<1>4. w.modulus = q /\ w.width = nbyte /\ w.mode = r.mode /\ w.columns + 1 = length
  <2>1. w.modulus = q /\ w.width = nbyte /\ w.mode = r.mode /\ w.columns = length - 1
    BY ONLY <1>1 DEF Encoded
  <2>2. QED
    BY ONLY <2>1, length \in Nat
<1>5. \A j \in 0 .. 2 * length - 1, i \in Idx, k \in 1 .. nbyte :
        w.payload[j * N * nbyte + i * nbyte + k] = Byte(OnWire(r, j)[i], k - 1)
  <2>1. ASSUME NEW j \in 0 .. 2 * length - 1, NEW i \in Idx, NEW k \in 1 .. nbyte
        PROVE  w.payload[j * N * nbyte + i * nbyte + k] = Byte(OnWire(r, j)[i], k - 1)
    BY ONLY <1>1, SwitchAssumption, PowersOfTwoDouble, AnswerTyped(r), r.limbs = 1,
            j \in 0 .. 2 * length - 1, i \in Idx, k \in 1 .. nbyte, WireHolds
  <2>2. QED
    BY ONLY <2>1
<1> HIDE DEF w
<1>6. \A l \in 1 .. length : r.cts[l].a \in PolysOf(q) /\ r.cts[l].b \in PolysOf(q)
  <2>1. \A l \in 1 .. length : r.cts[l] \in CtsOf(q)
    BY ONLY <1>1, AnswerTyped(r) DEF AnswerTyped
  <2>2. QED
    BY ONLY <2>1 DEF CtsOf
<1>7. ASSUME NEW j \in 0 .. 2 * length - 1
      PROVE  OnWire(r, j) \in PolysOf(q)
  <2>1. CASE (j + 1) % 2 = 1
    <3>1. (j + 2) \div 2 \in 1 .. length
      BY ONLY j \in 0 .. 2 * length - 1, length \in Nat \ {0}
    <3>2. QED
      BY ONLY <1>6, <2>1, <3>1 DEF OnWire
  <2>2. CASE (j + 1) % 2 # 1
    <3>1. (j + 1) \div 2 \in 1 .. length
      BY ONLY <2>2, j \in 0 .. 2 * length - 1, length \in Nat \ {0}
    <3>2. QED
      BY ONLY <1>6, <2>2, <3>1 DEF OnWire
  <2>3. QED
    BY ONLY <2>1, <2>2
<1>8. ASSUME NEW j \in 0 .. 2 * length - 1
      PROVE  Unpacked(w.payload, j * N * nbyte, nbyte, q) = OnWire(r, j)
  <2>1. ASSUME NEW i \in Idx
        PROVE  ReadValue(w.payload, j * N * nbyte + i * nbyte, nbyte) % q = OnWire(r, j)[i]
    <3>1. PICK v \in 0 .. q - 1 : v = OnWire(r, j)[i]
      BY ONLY <1>7, i \in Idx, j \in 0 .. 2 * length - 1 DEF PolysOf
    <3>2. v \in Nat /\ v < TwoTo(ByteBits * nbyte)
      BY ONLY <1>2, <1>3, v \in 0 .. q - 1, fits \in Nat
    <3>3. PICK ix : ix = j * N * nbyte + i * nbyte
      OBVIOUS
    <3>4. \A k \in 1 .. nbyte : w.payload[ix + k] = Byte(v, k - 1)
      BY ONLY <1>5, <3>1, <3>3, i \in Idx, j \in 0 .. 2 * length - 1
    <3>5. ByteBits * nbyte <= WordBits + ByteBits
      <4>1. PICK x \in Nat, y \in Nat : x = ByteBits * nbyte /\ y = WordBits + ByteBits
        <5>1. ByteBits \in Nat /\ WordBits \in Nat
          BY ConstantFacts
        <5>2. QED
          BY ONLY <5>1, nbyte \in Nat
      <4>2. QED
        BY ONLY <1>2, <4>1
    <3>6. nbyte \in Nat
      OBVIOUS
    <3>7. ReadValue(w.payload, ix, nbyte) = v
      BY ONLY <3>2, <3>4, <3>5, <3>6, SwitchAssumption, PowersOfTwoDouble, BytesMakeValue
    <3>8. v % q = v
      BY ONLY <1>2, v \in 0 .. q - 1, ModSmall
    <3>9. QED
      BY ONLY <3>1, <3>3, <3>7, <3>8
  <2>2. Unpacked(w.payload, j * N * nbyte, nbyte, q)
          = [i \in Idx |-> ReadValue(w.payload, j * N * nbyte + i * nbyte, nbyte) % q]
    BY ONLY Zenon DEF Unpacked, ReadValue
  <2>3. OnWire(r, j) = [i \in Idx |-> OnWire(r, j)[i]]
    BY ONLY <1>7, j \in 0 .. 2 * length - 1 DEF PolysOf
  <2>4. QED
    BY ONLY <2>1, <2>2, <2>3
<1> DEFINE poly(j) == Unpacked(w.payload, j * N * nbyte, nbyte, q)
<1>9. ASSUME NEW l \in 1 .. length
      PROVE  Ct(poly(2 * l - 2), poly(2 * l - 1)) = r.cts[l]
  <2>1. 2 * l - 2 \in 0 .. 2 * length - 1 /\ 2 * l - 1 \in 0 .. 2 * length - 1
    BY ONLY l \in 1 .. length, length \in Nat
  <2>2. OnWire(r, 2 * l - 2) = r.cts[l].a
    <3>1. ((2 * l - 2) + 1) % 2 = 1 /\ ((2 * l - 2) + 2) \div 2 = l
      BY ONLY l \in 1 .. length, length \in Nat
    <3>2. QED
      BY ONLY <3>1 DEF OnWire
  <2>3. OnWire(r, 2 * l - 1) = r.cts[l].b
    <3>1. ((2 * l - 1) + 1) % 2 = 0 /\ ((2 * l - 1) + 1) \div 2 = l
      BY ONLY l \in 1 .. length, length \in Nat
    <3>2. QED
      BY ONLY <3>1 DEF OnWire
  <2>4. poly(2 * l - 2) = r.cts[l].a /\ poly(2 * l - 1) = r.cts[l].b
    BY ONLY <1>8, <2>1, <2>2, <2>3
  <2>5. r.cts[l] \in CtsOf(q)
    BY ONLY <1>1, AnswerTyped(r), l \in 1 .. length DEF AnswerTyped
  <2>6. r.cts[l] = [a |-> r.cts[l].a, b |-> r.cts[l].b]
    BY ONLY <2>5 DEF CtsOf
  <2> HIDE DEF poly
  <2>7. QED
    BY ONLY <2>4, <2>6 DEF Ct
<1>10. Decoded(w) = [modulus |-> q, limbs |-> 1, mode |-> r.mode,
                     cts |-> [l \in 1 .. length |-> Ct(poly(2 * l - 2), poly(2 * l - 1))]]
  BY ONLY <1>4 DEF Decoded
<1> HIDE DEF poly
<1>11. r.cts = [l \in 1 .. length |-> r.cts[l]]
  BY ONLY <1>1, AnswerTyped(r) DEF AnswerTyped
<1>12. [l \in 1 .. length |-> Ct(poly(2 * l - 2), poly(2 * l - 1))] = r.cts
  BY ONLY <1>9, <1>11
<1>13. r = [modulus |-> q, limbs |-> 1, mode |-> r.mode, cts |-> r.cts]
  BY ONLY <1>1, AnswerTyped(r), r.limbs = 1 DEF AnswerTyped
<1>14. QED
  BY ONLY <1>10, <1>12, <1>13 DEF w
-----------------------------------------------------------------------------
(* The error                                                               *)

\* Numbers along an interval have a largest.
LEMMA LargestExists ==
  ASSUME NEW n \in Nat, NEW f \in [0 .. n -> Nat]
  PROVE  \E m \in 0 .. n : \A k \in 0 .. n : f[k] <= f[m]
<1> DEFINE T == {l \in 0 .. n : \E m \in 0 .. l : \A k \in 0 .. l : f[k] <= f[m]}
<1>1. 0 \in T
  <2>1. 0 \in 0 .. n /\ \A k \in 0 .. 0 : k = 0
    BY ONLY n \in Nat
  <2>2. f[0] \in Nat
    BY ONLY <2>1, f \in [0 .. n -> Nat]
  <2>3. f[0] <= f[0]
    BY ONLY <2>2
  <2>4. QED
    BY ONLY <2>1, <2>3
<1>2. ASSUME NEW l \in 0 .. n, l # n, l \in T
      PROVE  l + 1 \in T
  <2>1. PICK m \in 0 .. l : \A k \in 0 .. l : f[k] <= f[m]
    BY ONLY <1>2
  <2>2. l + 1 \in 0 .. n /\ m \in 0 .. n /\ m \in 0 .. l + 1 /\ l + 1 \in 0 .. l + 1
    BY ONLY <1>2, n \in Nat, m \in 0 .. l
  <2>3. PICK x \in Nat, y \in Nat : x = f[m] /\ y = f[l + 1]
    BY ONLY <2>2, f \in [0 .. n -> Nat]
  <2>4. \A k \in 0 .. l + 1 : k = l + 1 \/ (k \in 0 .. l /\ k \in 0 .. n)
    BY ONLY l \in 0 .. n, n \in Nat
  <2>5. \A k \in 0 .. l : f[k] \in Nat
    BY ONLY <2>4, l \in 0 .. n, n \in Nat, f \in [0 .. n -> Nat]
  <2>6. CASE y <= x
    <3>1. \A k \in 0 .. l + 1 : f[k] <= f[m]
      BY ONLY <2>1, <2>3, <2>4, <2>6
    <3>2. QED
      BY ONLY <2>2, <3>1
  <2>7. CASE ~(y <= x)
    <3>1. \A k \in 0 .. l : f[k] <= y
      BY ONLY <2>1, <2>3, <2>5, <2>7, x \in Nat, y \in Nat
    <3>2. y <= y
      BY ONLY y \in Nat
    <3>3. \A k \in 0 .. l + 1 : f[k] <= f[l + 1]
      BY ONLY <2>3, <2>4, <3>1, <3>2
    <3>4. QED
      BY ONLY <2>2, <3>3
  <2>8. QED
    BY ONLY <2>6, <2>7
<1> HIDE DEF T
<1>3. \A l \in 0 .. n : l \in T
  BY ONLY <1>1, <1>2, n \in Nat, Induction
<1>4. n \in T
  BY ONLY <1>3, n \in Nat
<1>5. QED
  BY ONLY <1>4 DEF T

\* LargestSize bounds every coefficient of a key.
LEMMA SizesBounded ==
  ASSUME SwitchAssumption, NEW s \in Elements
  PROVE  /\ LargestSize(s) \in Nat
         /\ \A i \in Idx : /\ Centered(s[i]) \in Int
                           /\ -LargestSize(s) <= Centered(s[i]) /\ Centered(s[i]) <= LargestSize(s)
<1>1. PICK n \in Nat, q \in Nat, h \in Nat :
        0 .. n = Idx /\ q = Q /\ h = Q \div 2 /\ h <= q /\ q > 1
  <2>1. N \in Nat \ {0} /\ Q \in Nat /\ Q > 1
    BY ConstantFacts
  <2>2. N - 1 \in Nat /\ 0 .. N - 1 = Idx
    BY ONLY <2>1 DEF Idx
  <2>3. Q \div 2 \in Nat /\ Q \div 2 <= Q
    BY ONLY <2>1
  <2>4. QED
    BY ONLY <2>1, <2>2, <2>3
<1> DEFINE f == [i \in 0 .. n |-> Size(s[i])]
<1>2. ASSUME NEW i \in 0 .. n
      PROVE  /\ Size(s[i]) \in Nat
             /\ Centered(s[i]) \in Int
             /\ Centered(s[i]) = Size(s[i]) \/ Centered(s[i]) = -Size(s[i])
  <2>1. PICK x \in 0 .. q - 1 : x = s[i]
    BY ONLY <1>1, s \in Elements, i \in 0 .. n DEF Elements, Residue
  <2>2. Size(x) = (IF x <= h THEN x ELSE q - x) /\ Centered(x) = (IF x <= h THEN x ELSE x - q)
    BY ONLY <1>1 DEF Size, Centered
  <2>3. QED
    BY ONLY <2>1, <2>2, x \in 0 .. q - 1, q \in Nat, h \in Nat
<1>3. f \in [0 .. n -> Nat]
  BY ONLY <1>2
<1>4. PICK m \in 0 .. n : \A k \in 0 .. n : f[k] <= f[m]
  <2> HIDE DEF f
  <2>1. QED
    BY ONLY <1>3, n \in Nat, LargestExists
<1>5. Size(s[m]) \in {Size(s[i]) : i \in Idx} /\ \A i \in Idx : Size(s[i]) <= Size(s[m])
  BY ONLY <1>1, <1>4
<1>6. LargestSize(s) \in {Size(s[i]) : i \in Idx} /\ \A i \in Idx : Size(s[i]) <= LargestSize(s)
  BY ONLY <1>5, Zenon DEF LargestSize
<1>7. PICK k \in 0 .. n : LargestSize(s) = Size(s[k])
  BY ONLY <1>1, <1>6
<1>8. LargestSize(s) \in Nat
  BY ONLY <1>2, <1>7
<1>9. ASSUME NEW i \in 0 .. n
      PROVE  -LargestSize(s) <= Centered(s[i]) /\ Centered(s[i]) <= LargestSize(s)
  <2>1. PICK x \in Nat, c \in Int, l \in Nat :
          x = Size(s[i]) /\ c = Centered(s[i]) /\ l = LargestSize(s) /\ (c = x \/ c = -x)
    BY ONLY <1>2, <1>8, i \in 0 .. n
  <2>2. x <= l
    BY ONLY <1>1, <1>6, <2>1
  <2>3. -l <= c /\ c <= l
    BY ONLY <2>1, <2>2, x \in Nat, c \in Int, l \in Nat
  <2>4. QED
    BY ONLY <2>1, <2>3
<1>10. QED
  BY ONLY <1>1, <1>2, <1>8, <1>9

\* The distance of x from the multiples of m.
Distance(x, m) == LET r == x % m IN IF 2 * r <= m THEN r ELSE m - r

\* It is that from one of them, and not more than that from any.
LEMMA DistanceLeast ==
  ASSUME NEW x \in Int, NEW m \in Nat \ {0}
  PROVE  /\ Distance(x, m) \in Nat
         /\ \E k \in Int : x = m * k + Distance(x, m) \/ x = m * k - Distance(x, m)
         /\ \A k \in Int, e \in Int, z \in Int :
              x = m * k + e /\ -z <= e /\ e <= z => Distance(x, m) <= z
<1>1. PICK u \in Int, r \in 0 .. m - 1 : x = m * u + r /\ r = x % m /\ u = x \div m
  BY ONLY x \in Int, m \in Nat \ {0}, Division, Zenon
<1>2. PICK d \in Nat : d = Distance(x, m) /\ d <= r /\ d <= m - r /\ (d = r \/ d = m - r)
  <2>1. Distance(x, m) = IF 2 * r <= m THEN r ELSE m - r
    BY ONLY <1>1 DEF Distance
  <2>2. QED
    BY ONLY <2>1, r \in 0 .. m - 1, m \in Nat
<1>3. \E k \in Int : x = m * k + d \/ x = m * k - d
  <2>1. PICK v \in Int : v = u + 1
    OBVIOUS
  <2>2. PICK y \in Int : y = m * u /\ m * v = y + m
    BY ONLY <2>1, m \in Nat, u \in Int
  <2>3. d = m - r => x = m * v - d
    <3>1. PICK w \in Int : w = m * v /\ w = y + m
      BY ONLY <2>2, y \in Int, m \in Nat
    <3>2. x = y + r
      BY ONLY <1>1, <2>2
    <3>3. d = m - r => x = w - d
      BY ONLY <3>1, <3>2, y \in Int, w \in Int, m \in Nat, r \in 0 .. m - 1
    <3>4. QED
      BY ONLY <3>1, <3>3
  <2>4. QED
    BY ONLY <1>1, <1>2, <2>3, u \in Int, v \in Int
<1>4. ASSUME NEW k \in Int, NEW e \in Int, NEW z \in Int, x = m * k + e, -z <= e, e <= z
      PROVE  d <= z
  <2>1. PICK j \in Int : j = u - k
    OBVIOUS
  <2>2. e = m * j + r
    <3>1. m * j = m * u - m * k
      BY ONLY <2>1, m \in Nat, u \in Int, k \in Int
    <3>2. PICK a \in Int, b \in Int : a = m * u /\ b = m * k
      BY ONLY m \in Nat, u \in Int, k \in Int
    <3>3. QED
      BY ONLY <1>1, <1>4, <3>1, <3>2, a \in Int, b \in Int, r \in 0 .. m - 1, e \in Int
  <2>3. CASE j = 0
    <3>1. m * j = 0
      BY ONLY <2>3, m \in Nat
    <3>2. QED
      BY ONLY <1>2, <1>4, <2>2, <3>1, e \in Int, z \in Int, d \in Nat, r \in 0 .. m - 1, m \in Nat
  <2>4. CASE j > 0
    <3>1. PICK l \in Nat : j = l + 1
      <4>1. j - 1 \in Nat /\ j = (j - 1) + 1
        BY ONLY <2>4, j \in Int
      <4>2. QED
        BY ONLY <4>1
    <3>2. m * j = m * l + m /\ m * l \in Nat
      BY ONLY <3>1, l \in Nat, m \in Nat
    <3>3. PICK a \in Nat : a = m * l /\ m * j = a + m
      BY ONLY <3>2
    <3>4. QED
      BY ONLY <1>2, <1>4, <2>2, <3>3, a \in Nat, e \in Int, z \in Int, d \in Nat, r \in 0 .. m - 1,
              m \in Nat
  <2>5. CASE j < 0
    <3>1. PICK l \in Nat : j = -(l + 1)
      <4>1. -j - 1 \in Nat /\ j = -((-j - 1) + 1)
        BY ONLY <2>5, j \in Int
      <4>2. QED
        BY ONLY <4>1
    <3>2. m * j = -(m * l) - m /\ m * l \in Nat
      BY ONLY <3>1, l \in Nat, m \in Nat
    <3>3. PICK a \in Nat : a = m * l /\ m * j = -a - m
      BY ONLY <3>2
    <3>4. QED
      BY ONLY <1>2, <1>4, <2>2, <3>3, a \in Nat, e \in Int, z \in Int, d \in Nat, r \in 0 .. m - 1,
              m \in Nat
  <2>6. QED
    BY ONLY <2>3, <2>4, <2>5, j \in Int
<1>5. QED
  BY ONLY <1>2, <1>3, <1>4

\* x2 is x scaled from one modulus to another, up to a multiple of the new one and to an
\* error that in units of 1 / from is at most half of b.
Scales(x2, x, b, from, to) ==
  \E e \in Int, k \in Int : /\ from * x2 = to * x + e + from * (to * k)
                            /\ -b <= 2 * e /\ 2 * e <= b

\* mod_switch_poly: a coefficient is rounded to the nearest, half a unit off at most.
LEMMA RescaledScales ==
  ASSUME NEW from \in Nat \ {0}, NEW to \in Nat \ {0}, NEW y \in 0 .. from - 1
  PROVE  Rescaled(y, from, to) \in 0 .. to - 1 /\ Scales(Rescaled(y, from, to), y, from, from, to)
<1>1. PICK h \in Nat : h = from \div 2 /\ 2 * h <= from /\ from - 1 <= 2 * h
  <2>1. from \div 2 \in Nat /\ 2 * (from \div 2) <= from /\ from - 1 <= 2 * (from \div 2)
    BY ONLY from \in Nat \ {0}
  <2>2. QED
    BY ONLY <2>1
<1>2. PICK w \in Int : w = y * to /\ w = to * y
  BY ONLY from \in Nat, to \in Nat, y \in 0 .. from - 1
<1>3. PICK v \in Int : v = w + h
  BY ONLY w \in Int, h \in Nat
<1>4. PICK u \in Int, r \in 0 .. from - 1 : v = from * u + r /\ r = v % from /\ u = v \div from
  BY ONLY v \in Int, from \in Nat \ {0}, Division, Zenon
<1>5. PICK l \in Int, z \in 0 .. to - 1 : u = to * l + z /\ z = u % to
  BY ONLY u \in Int, to \in Nat \ {0}, Division, Zenon
<1>6. Rescaled(y, from, to) = z
  BY ONLY <1>1, <1>2, <1>3, <1>4, <1>5 DEF Rescaled
<1>7. PICK e \in Int, k \in Int : e = h - r /\ k = -l
  BY ONLY h \in Nat, from \in Nat, r \in 0 .. from - 1, l \in Int
<1>8. from * z = to * y + e + from * (to * k)
  <2>1. from * u = from * (to * l) + from * z
    <3>1. PICK a \in Int : a = to * l
      BY ONLY to \in Nat, l \in Int
    <3>2. from * (a + z) = from * a + from * z
      BY ONLY a \in Int, from \in Nat, to \in Nat, z \in 0 .. to - 1
    <3>3. QED
      BY ONLY <1>5, <3>1, <3>2
  <2>2. from * (to * k) = -(from * (to * l))
    BY ONLY <1>7, from \in Nat, to \in Nat, l \in Int, k \in Int
  <2>3. PICK a \in Int, b \in Int, c \in Int :
          a = from * u /\ b = from * (to * l) /\ c = from * z
    BY ONLY from \in Nat, to \in Nat, l \in Int, u \in Int, z \in 0 .. to - 1
  <2>4. c = w + e - b
    <3>1. w + h = a + r /\ a = b + c
      BY ONLY <1>3, <1>4, <2>1, <2>3
    <3>2. QED
      BY ONLY <1>7, <3>1, a \in Int, b \in Int, c \in Int, w \in Int, h \in Nat,
              r \in 0 .. from - 1, from \in Nat, e \in Int
  <2>5. QED
    BY ONLY <1>2, <2>2, <2>3, <2>4, w \in Int, b \in Int, c \in Int, e \in Int
<1>9. -from <= 2 * e /\ 2 * e <= from
  BY ONLY <1>1, <1>7, h \in Nat, from \in Nat, r \in 0 .. from - 1, e \in Int
<1>10. QED
  BY ONLY <1>6, <1>8, <1>9, e \in Int, k \in Int, z \in 0 .. to - 1 DEF Scales

\* A product of bounded numbers is bounded.
LEMMA ProductBounded ==
  ASSUME NEW a \in Int, NEW b \in Int, NEW m \in Nat, NEW n \in Nat,
         -m <= a, a <= m, -n <= b, b <= n
  PROVE  -(m * n) <= a * b /\ a * b <= m * n
<1>1. PICK u \in Nat, v \in Nat, w \in Nat, x \in Nat : u = m - a /\ v = m + a /\ w = n - b /\ x = n + b
  <2>1. m - a \in Nat /\ m + a \in Nat /\ n - b \in Nat /\ n + b \in Nat
    OBVIOUS
  <2>2. QED
    BY ONLY <2>1
<1>2. u * x + v * w \in Nat /\ u * w + v * x \in Nat
  BY ONLY u \in Nat, v \in Nat, w \in Nat, x \in Nat
<1>3. u * x + v * w = 2 * (m * n) - 2 * (a * b)
  BY ONLY <1>1, a \in Int, b \in Int, m \in Nat, n \in Nat
<1>4. u * w + v * x = 2 * (m * n) + 2 * (a * b)
  BY ONLY <1>1, a \in Int, b \in Int, m \in Nat, n \in Nat
<1>5. PICK s \in Int, t \in Int : s = m * n /\ t = a * b
  BY ONLY a \in Int, b \in Int, m \in Nat, n \in Nat
<1>6. 2 * s - 2 * t >= 0 /\ 2 * s + 2 * t >= 0
  BY ONLY <1>2, <1>3, <1>4, <1>5
<1>7. -s <= t /\ t <= s
  BY ONLY <1>6, s \in Int, t \in Int
<1>8. QED
  BY ONLY <1>5, <1>7

\* A multiple of a scaled number, added to a scaled number, is one; its error grows by as
\* many halves as the factor has units.
LEMMA ScalesStep ==
  ASSUME NEW from \in Nat, NEW to \in Nat, NEW b \in Nat, NEW m \in Nat,
         NEW x \in Int, NEW x2 \in Int, NEW y \in Int, NEW y2 \in Int, NEW c \in Int,
         Scales(x2, x, b, from, to), Scales(y2, y, from, from, to), -m <= c, c <= m,
         NEW l \in Int, NEW l2 \in Int, NEW z, NEW z2,
         z = x + y * c + from * l, z2 = x2 + y2 * c + to * l2
  PROVE  Scales(z2, z, b + from * m, from, to)
<1>1. PICK e \in Int, k \in Int : /\ from * x2 = to * x + e + from * (to * k)
                                  /\ -b <= 2 * e /\ 2 * e <= b
  BY DEF Scales
<1>2. PICK d \in Int, j \in Int : /\ from * y2 = to * y + d + from * (to * j)
                                  /\ -from <= 2 * d /\ 2 * d <= from
  BY DEF Scales
<1>3. PICK e2 \in Int, k2 \in Int : e2 = e + d * c /\ k2 = k + j * c + l2 - l
  BY ONLY e \in Int, d \in Int, c \in Int, k \in Int, j \in Int, l2 \in Int, l \in Int
<1>4. from * z2 = to * z + e2 + from * (to * k2)
  <2>1. from * z2 = from * x2 + (from * y2) * c + from * (to * l2)
    BY ONLY z2 = x2 + y2 * c + to * l2, from \in Nat, to \in Nat, x2 \in Int, y2 \in Int, c \in Int,
            l2 \in Int
  <2>2. (to * y + d + from * (to * j)) * c = (to * y) * c + d * c + from * (to * (j * c))
    BY ONLY from \in Nat, to \in Nat, y \in Int, d \in Int, j \in Int, c \in Int
  <2>3. to * z = to * x + (to * y) * c + from * (to * l)
    BY ONLY z = x + y * c + from * l, from \in Nat, to \in Nat, x \in Int, y \in Int, c \in Int,
            l \in Int
  <2>4. from * (to * k2) = from * (to * k) + from * (to * (j * c)) + from * (to * l2) - from * (to * l)
    BY ONLY <1>3, from \in Nat, to \in Nat, k \in Int, j \in Int, c \in Int, l \in Int, l2 \in Int
  <2>5. PICK p1 \in Int, p2 \in Int, p3 \in Int, p4 \in Int, p5 \in Int, p6 \in Int, p7 \in Int :
          /\ p1 = to * x /\ p2 = (to * y) * c /\ p3 = d * c
          /\ p4 = from * (to * k) /\ p5 = from * (to * (j * c)) /\ p6 = from * (to * l2)
          /\ p7 = from * (to * l)
    BY ONLY from \in Nat, to \in Nat, x \in Int, y \in Int, c \in Int, k \in Int, d \in Int, j \in Int,
            l \in Int, l2 \in Int
  <2>6. from * z2 = (p1 + e + p4) + (p2 + p3 + p5) + p6
    BY ONLY <1>1, <1>2, <2>1, <2>2, <2>5
  <2>7. to * z + e2 + from * (to * k2) = (p1 + p2 + p7) + (e + p3) + (p4 + p5 + p6 - p7)
    BY ONLY <1>3, <2>3, <2>4, <2>5
  <2>8. (p1 + e + p4) + (p2 + p3 + p5) + p6 = (p1 + p2 + p7) + (e + p3) + (p4 + p5 + p6 - p7)
    BY ONLY e \in Int, p1 \in Int, p2 \in Int, p3 \in Int, p4 \in Int, p5 \in Int, p6 \in Int,
            p7 \in Int
  <2>9. QED
    BY ONLY <2>6, <2>7, <2>8
<1>5. -(b + from * m) <= 2 * e2 /\ 2 * e2 <= b + from * m
  <2>1. PICK w \in Int : w = 2 * d /\ -from <= w /\ w <= from
    BY ONLY <1>2, d \in Int
  <2>2. -(from * m) <= w * c /\ w * c <= from * m
    BY ONLY <2>1, w \in Int, c \in Int, from \in Nat, m \in Nat, -m <= c, c <= m, ProductBounded
  <2>3. w * c = 2 * (d * c)
    BY ONLY <2>1, d \in Int, c \in Int
  <2>4. PICK p \in Int, t \in Int : p = d * c /\ t = from * m
    BY ONLY d \in Int, c \in Int, from \in Nat, m \in Nat
  <2>5. -t <= 2 * p /\ 2 * p <= t /\ e2 = e + p
    BY ONLY <1>3, <2>2, <2>3, <2>4
  <2>6. -(b + t) <= 2 * e2 /\ 2 * e2 <= b + t
    BY ONLY <1>1, <2>5, b \in Nat, e \in Int, e2 \in Int, p \in Int, t \in Int
  <2>7. QED
    BY ONLY <2>4, <2>6
<1>6. QED
  BY ONLY <1>4, <1>5, e2 \in Int, k2 \in Int DEF Scales

\* What Times adds up for coefficient i: the product of coefficient j of a and of that of
\* b which X^N = -1 brings to i.
Term(a, b, i, j) == IF j <= i THEN a[j] * b[i - j] ELSE -(a[j] * b[N + i - j])

\* p has the partial sums of coefficient i of the product of a and b modulo q.
Sums(p, q, a, b, i) ==
  /\ p \in [0 .. N -> 0 .. q - 1]
  /\ p[0] = 0 /\ Over(q)!Times(a, b)[i] = p[N]
  /\ \A k \in 0 .. N : k # 0 => p[k] = (p[k - 1] + Term(a, b, i, k - 1)) % q

\* Times, from its partial sums.
LEMMA PartialSums ==
  ASSUME N \in Nat \ {0}, NEW q \in Nat \ {0}, NEW a \in [Idx -> Int], NEW b \in [Idx -> Int],
         NEW i \in Idx
  PROVE  \E p : Sums(p, q, a, b, i)
<1> DEFINE S == 0 .. q - 1
           F(g) == [k \in 0 .. N |-> IF k = 0 THEN 0 ELSE (g[k - 1] + Term(a, b, i, k - 1)) % q]
           G == [k \in 0 .. N |-> [x \in S |-> IF k = 0 THEN x ELSE (x + Term(a, b, i, k - 1)) % q]]
<1>1. \A k \in 0 .. N : k # 0 => Term(a, b, i, k - 1) \in Int
  <2>1. SUFFICES ASSUME NEW k \in 0 .. N, k # 0
                 PROVE  Term(a, b, i, k - 1) \in Int
    OBVIOUS
  <2>2. PICK j \in Idx : j = k - 1
    BY ONLY <2>1, N \in Nat \ {0} DEF Idx
  <2>3. CASE j <= i
    <3>1. i - j \in Idx
      BY ONLY <2>3, i \in Idx, j \in Idx, N \in Nat \ {0} DEF Idx
    <3>2. PICK x \in Int, y \in Int : x = a[j] /\ y = b[i - j]
      BY ONLY <3>1, j \in Idx, a \in [Idx -> Int], b \in [Idx -> Int]
    <3>3. Term(a, b, i, j) = x * y
      BY ONLY <2>3, <3>2 DEF Term
    <3>4. QED
      BY ONLY <2>2, <3>3, x \in Int, y \in Int
  <2>4. CASE ~(j <= i)
    <3>1. N + i - j \in Idx
      BY ONLY <2>4, i \in Idx, j \in Idx, N \in Nat \ {0} DEF Idx
    <3>2. PICK x \in Int, y \in Int : x = a[j] /\ y = b[N + i - j]
      BY ONLY <3>1, j \in Idx, a \in [Idx -> Int], b \in [Idx -> Int]
    <3>3. Term(a, b, i, j) = -(x * y)
      BY ONLY <2>4, <3>2 DEF Term
    <3>4. QED
      BY ONLY <2>2, <3>3, x \in Int, y \in Int
  <2>5. QED
    BY ONLY <2>3, <2>4
<1>2. Recurs(S, N, 0, G)
  <2>1. ASSUME NEW k \in 0 .. N
        PROVE  G[k] \in [S -> S]
    <3>1. ASSUME NEW x \in S
          PROVE  (IF k = 0 THEN x ELSE (x + Term(a, b, i, k - 1)) % q) \in S
      <4>1. CASE k = 0
        BY ONLY <4>1, x \in S
      <4>2. CASE k # 0
        <5>1. PICK y \in Int : y = x + Term(a, b, i, k - 1)
          BY ONLY <1>1, <4>2, k \in 0 .. N, x \in S, q \in Nat
        <5>2. y % q \in S
          BY ONLY y \in Int, q \in Nat \ {0}
        <5>3. QED
          BY ONLY <4>2, <5>1, <5>2
      <4>3. QED
        BY ONLY <4>1, <4>2
    <3>2. G[k] = [x \in S |-> IF k = 0 THEN x ELSE (x + Term(a, b, i, k - 1)) % q]
      BY ONLY k \in 0 .. N
    <3> HIDE DEF G
    <3>3. QED
      BY ONLY <3>1, <3>2
  <2>2. 0 \in S /\ N \in Nat
    BY ONLY q \in Nat \ {0}, N \in Nat \ {0}
  <2>3. G \in [0 .. N -> [S -> S]]
    <3>1. G = [k \in 0 .. N |-> G[k]]
      BY ONLY Zenon
    <3> HIDE DEF G
    <3>2. QED
      BY ONLY <2>1, <3>1
  <2> HIDE DEF G
  <2>4. QED
    BY ONLY <2>2, <2>3 DEF Recurs
<1>3. PICK f : Solves(f, S, N, 0, G)
  <2> HIDE DEF G, S
  <2>1. QED
    BY ONLY <1>2, RecursionExists, Zenon
<1>4. f \in [0 .. N -> S]
  BY ONLY <1>3 DEF Solves
<1>5. f = F(f)
  <2>1. ASSUME NEW k \in 0 .. N
        PROVE  f[k] = IF k = 0 THEN 0 ELSE (f[k - 1] + Term(a, b, i, k - 1)) % q
    <3>1. f[k] = IF k = 0 THEN 0 ELSE G[k][f[k - 1]]
      <4> HIDE DEF G
      <4>1. QED
        BY ONLY <1>3, k \in 0 .. N, Zenon DEF Solves
    <3>2. k # 0 => f[k - 1] \in S
      <4>1. k # 0 => k - 1 \in 0 .. N
        BY ONLY k \in 0 .. N, N \in Nat \ {0}
      <4> HIDE DEF S
      <4>2. QED
        BY ONLY <1>4, <4>1
    <3>3. ASSUME k # 0
          PROVE  G[k][f[k - 1]] = (f[k - 1] + Term(a, b, i, k - 1)) % q
      <4> HIDE DEF S
      <4>1. QED
        BY ONLY <3>2, <3>3, k \in 0 .. N, Zenon
    <3> HIDE DEF G
    <3>4. QED
      BY ONLY <3>1, <3>3
  <2>2. f = [k \in 0 .. N |-> f[k]]
    <3> HIDE DEF S
    <3>1. QED
      BY ONLY <1>4
  <2>3. QED
    BY ONLY <2>1, <2>2, Zenon
<1>6. PICK y : y = F(y) /\ Over(q)!Times(a, b)[i] = y[N]
  <2>1. Over(q)!Times(a, b)[i] = (CHOOSE y : y = F(y))[N]
    BY ONLY i \in Idx, Zenon DEF Over!Times, Over!Idx, Over!SumBelow, Idx, Term
  <2> HIDE DEF F
  <2>2. QED
    BY ONLY <1>5, <2>1, Zenon
<1>7. \A k \in 0 .. N : y[k] = IF k = 0 THEN 0 ELSE (y[k - 1] + Term(a, b, i, k - 1)) % q
  BY ONLY <1>6, Zenon
<1> DEFINE T == {k \in 0 .. N : y[k] \in S}
<1>8. 0 \in T
  BY ONLY <1>7, N \in Nat \ {0}, q \in Nat \ {0}
<1>9. ASSUME NEW k \in 0 .. N, k # N, k \in T
      PROVE  k + 1 \in T
  <2>1. PICK l \in 0 .. N : l = k + 1 /\ l - 1 = k /\ l # 0
    BY ONLY <1>9, N \in Nat \ {0}
  <2>2. y[k] \in S /\ Term(a, b, i, k) \in Int
    <3>1. Term(a, b, i, l - 1) \in Int
      BY ONLY <1>1, <2>1
    <3>2. QED
      BY ONLY <1>9, <2>1, <3>1
  <2>3. y[l] = (y[k] + Term(a, b, i, k)) % q
    BY ONLY <1>7, <2>1
  <2>4. PICK x \in Int : x = y[k] + Term(a, b, i, k)
    BY ONLY <2>2, q \in Nat
  <2>5. x % q \in S
    BY ONLY x \in Int, q \in Nat \ {0}
  <2>6. QED
    BY ONLY <2>1, <2>3, <2>4, <2>5
<1> HIDE DEF T
<1>10. \A k \in 0 .. N : k \in T
  BY ONLY <1>8, <1>9, N \in Nat \ {0}, Induction
<1>11. \A k \in 0 .. N : y[k] \in S
  BY ONLY <1>10 DEF T
<1>12. y \in [0 .. N -> S]
  <2>1. y = [k \in 0 .. N |-> IF k = 0 THEN 0 ELSE (y[k - 1] + Term(a, b, i, k - 1)) % q]
    BY ONLY <1>6, Zenon
  <2> HIDE DEF S
  <2>2. QED
    BY ONLY <1>11, <2>1
<1>13. y[0] = 0
  BY ONLY <1>7, N \in Nat \ {0}
<1>14. QED
  BY ONLY <1>6, <1>7, <1>12, <1>13 DEF Sums

\* The coefficient of the key that meets coefficient j of a, with its sign.
KeyPart(s, i, j) == IF j <= i THEN Centered(s[i - j]) ELSE -Centered(s[N + i - j])

\* mod_switch_secret_key: under every modulus a term is the same multiple of what a has.
LEMMA TermOfKey ==
  ASSUME SwitchAssumption, NEW q \in Nat \ {0}, NEW a \in [Idx -> Int], NEW s \in Elements,
         NEW i \in Idx, NEW j \in Idx
  PROVE  /\ KeyPart(s, i, j) \in Int
         /\ -LargestSize(s) <= KeyPart(s, i, j) /\ KeyPart(s, i, j) <= LargestSize(s)
         /\ \E l \in Int : Term(a, SwitchSecret(s, q), i, j) = a[j] * KeyPart(s, i, j) + q * l
<1>1. PICK x \in Idx : x = IF j <= i THEN i - j ELSE N + i - j
  <2>1. N \in Nat \ {0}
    BY ConstantFacts
  <2>2. (IF j <= i THEN i - j ELSE N + i - j) \in Idx
    BY ONLY <2>1, i \in Idx, j \in Idx DEF Idx
  <2>3. QED
    BY ONLY <2>2
<1>2. PICK c \in Int, m \in Nat : c = Centered(s[x]) /\ m = LargestSize(s) /\ -m <= c /\ c <= m
  <2>1. LargestSize(s) \in Nat /\ Centered(s[x]) \in Int
        /\ -LargestSize(s) <= Centered(s[x]) /\ Centered(s[x]) <= LargestSize(s)
    BY SizesBounded
  <2>2. QED
    BY ONLY <2>1
<1>3. PICK l \in Int, r \in 0 .. q - 1 : c = q * l + r /\ r = c % q /\ l = c \div q
  BY ONLY c \in Int, q \in Nat \ {0}, Division, Zenon
<1>4. SwitchSecret(s, q)[x] = r
  BY ONLY <1>2, <1>3, x \in Idx DEF SwitchSecret
<1>5. PICK y \in Int : y = a[j]
  BY ONLY a \in [Idx -> Int], j \in Idx
<1>6. y * r = y * c + q * (-(y * l)) /\ -(y * r) = y * (-c) + q * (y * l)
  <2>1. PICK u \in Int : u = q * l /\ r = c - u
    <3>1. q * l \in Int
      BY ONLY q \in Nat, l \in Int
    <3>2. PICK u \in Int : u = q * l
      BY ONLY <3>1
    <3>3. c = u + r
      BY ONLY <1>3, <3>2
    <3>4. r = c - u
      BY ONLY <3>3, c \in Int, u \in Int, r \in 0 .. q - 1, q \in Nat
    <3>5. QED
      BY ONLY <3>2, <3>4
  <2>2. y * (c - u) = y * c - y * u
    BY ONLY y \in Int, c \in Int, u \in Int
  <2>3. y * u = q * (y * l)
    BY ONLY <2>1, y \in Int, q \in Nat, l \in Int
  <2>4. q * (-(y * l)) = -(q * (y * l)) /\ y * (-c) = -(y * c)
    BY ONLY y \in Int, q \in Nat, l \in Int, c \in Int
  <2>5. PICK z \in Int, w \in Int : z = y * c /\ w = q * (y * l)
    BY ONLY y \in Int, q \in Nat, l \in Int, c \in Int
  <2>6. y * r = z - w
    BY ONLY <2>1, <2>2, <2>3, <2>5
  <2>7. y * c + q * (-(y * l)) = z - w /\ y * (-c) + q * (y * l) = -(z - w)
    BY ONLY <2>4, <2>5, z \in Int, w \in Int
  <2>8. QED
    BY ONLY <2>6, <2>7
<1>7. CASE j <= i
  <2>1. x = i - j
    BY ONLY <1>1, <1>7
  <2>2. KeyPart(s, i, j) = c /\ Term(a, SwitchSecret(s, q), i, j) = y * r
    BY ONLY <1>2, <1>4, <1>5, <1>7, <2>1 DEF KeyPart, Term
  <2>3. -(y * l) \in Int
    BY ONLY y \in Int, l \in Int
  <2>4. QED
    BY ONLY <1>2, <1>5, <1>6, <2>2, <2>3
<1>8. CASE ~(j <= i)
  <2>1. x = N + i - j
    BY ONLY <1>1, <1>8
  <2>2. KeyPart(s, i, j) = -c /\ Term(a, SwitchSecret(s, q), i, j) = -(y * r)
    BY ONLY <1>2, <1>4, <1>5, <1>8, <2>1 DEF KeyPart, Term
  <2>3. y * l \in Int /\ -c \in Int /\ -m <= -c /\ -c <= m
    BY ONLY <1>2, y \in Int, l \in Int, c \in Int, m \in Nat
  <2>4. QED
    BY ONLY <1>2, <1>5, <1>6, <2>2, <2>3
<1>9. QED
  BY ONLY <1>7, <1>8

\* The coefficients of a switched key are residues.
LEMMA SwitchedKeyTyped ==
  ASSUME SwitchAssumption, NEW q \in Nat \ {0}, NEW s \in Elements
  PROVE  SwitchSecret(s, q) \in [Idx -> Int]
<1>1. ASSUME NEW i \in Idx
      PROVE  Centered(s[i]) % q \in Int
  <2>1. PICK c \in Int : c = Centered(s[i])
    BY SizesBounded
  <2>2. c % q \in Int
    BY ONLY c \in Int, q \in Nat \ {0}
  <2>3. QED
    BY ONLY <2>1, <2>2
<1>2. QED
  BY ONLY <1>1 DEF SwitchSecret

\* A polynomial of residues, switched, is one of residues.
LEMMA SwitchedPoly ==
  ASSUME NEW from \in Nat \ {0}, NEW to \in Nat \ {0}, NEW p \in PolysOf(from)
  PROVE  /\ SwitchPoly(p, from, to) \in PolysOf(to)
         /\ \A i \in Idx : Scales(SwitchPoly(p, from, to)[i], p[i], from, from, to)
<1>1. \A i \in Idx : p[i] \in 0 .. from - 1
  BY ONLY p \in PolysOf(from) DEF PolysOf
<1>2. \A i \in Idx : /\ Rescaled(p[i], from, to) \in 0 .. to - 1
                     /\ Scales(Rescaled(p[i], from, to), p[i], from, from, to)
  BY ONLY <1>1, from \in Nat \ {0}, to \in Nat \ {0}, RescaledScales
<1>3. QED
  BY ONLY <1>2 DEF SwitchPoly, PolysOf

\* The remainder of x + t is x + y c, up to a multiple of q.
Reduces(q, x, t, y, c) == \E k \in Int : (x + t) % q = x + y * c + q * k

\* A remainder of a sum is the sum up to a multiple of the modulus.
LEMMA ReducedSum ==
  ASSUME NEW q \in Nat \ {0}, NEW x \in Int, NEW y \in Int, NEW c \in Int, NEW l \in Int, NEW t,
         t = y * c + q * l
  PROVE  Reduces(q, x, t, y, c)
<1>1. PICK w \in Int, v \in Int : w = y * c /\ v = x + t
  BY ONLY q \in Nat, x \in Int, y \in Int, c \in Int, l \in Int, t = y * c + q * l
<1>2. PICK u \in Int, r \in 0 .. q - 1 : v = q * u + r /\ r = v % q /\ u = v \div q
  BY ONLY v \in Int, q \in Nat \ {0}, Division, Zenon
<1>3. PICK k \in Int : k = l - u
  BY ONLY l \in Int, u \in Int
<1>4. q * k = q * l - q * u
  BY ONLY <1>3, q \in Nat, l \in Int, u \in Int
<1>5. PICK a \in Int, b \in Int : a = q * l /\ b = q * u
  BY ONLY q \in Nat, l \in Int, u \in Int
<1>6. v = x + (w + a) /\ v = b + r
  BY ONLY <1>1, <1>2, <1>5, t = y * c + q * l
<1>7. r = x + w + (a - b)
  BY ONLY <1>6, x \in Int, w \in Int, a \in Int, b \in Int, v \in Int, r \in 0 .. q - 1, q \in Nat
<1>8. q * k = a - b
  BY ONLY <1>4, <1>5
<1>9. QED
  BY ONLY <1>1, <1>2, <1>7, <1>8, k \in Int DEF Reduces

\* The phase is a polynomial of residues: partial sums, and b on top of them.
LEMMA PhaseSums ==
  ASSUME SwitchAssumption, secret \in Elements, NEW q \in Nat \ {0}, NEW a \in PolysOf(q),
         NEW b \in PolysOf(q), NEW i \in Idx
  PROVE  /\ Phase(Ct(a, b), q)[i] \in 0 .. q - 1
         /\ \E p \in [0 .. N -> Int] :
              /\ p[0] = 0
              /\ \A k \in 0 .. N : k # 0 =>
                   \E l \in Int : p[k] = p[k - 1] + a[k - 1] * KeyPart(secret, i, k - 1) + q * l
              /\ \E l \in Int : Phase(Ct(a, b), q)[i] = p[N] + b[i] * 1 + q * l
<1>1. N \in Nat \ {0}
  BY ConstantFacts
<1>2. a \in [Idx -> Int] /\ \A j \in Idx : a[j] \in Int /\ b[j] \in Int
  BY ONLY a \in PolysOf(q), b \in PolysOf(q), q \in Nat DEF PolysOf
<1> DEFINE key == SwitchSecret(secret, q)
<1>3. key \in [Idx -> Int]
  BY SwitchedKeyTyped
<1>4. PICK p \in [0 .. N -> 0 .. q - 1] :
        /\ p[0] = 0 /\ Over(q)!Times(a, key)[i] = p[N]
        /\ \A k \in 0 .. N : k # 0 => p[k] = (p[k - 1] + Term(a, key, i, k - 1)) % q
  <2> HIDE DEF key
  <2>1. PICK p : Sums(p, q, a, key, i)
    BY ONLY <1>1, <1>2, <1>3, q \in Nat \ {0}, i \in Idx, PartialSums
  <2>2. QED
    BY ONLY <2>1 DEF Sums
<1>5. p \in [0 .. N -> Int] /\ \A k \in 0 .. N : p[k] \in Int
  BY ONLY p \in [0 .. N -> 0 .. q - 1], q \in Nat
<1>6. ASSUME NEW k \in 0 .. N, k # 0
      PROVE  \E l \in Int : p[k] = p[k - 1] + a[k - 1] * KeyPart(secret, i, k - 1) + q * l
  <2>1. PICK j \in Idx : j = k - 1 /\ j \in 0 .. N
    BY ONLY <1>1, <1>6, k \in 0 .. N DEF Idx
  <2>2. PICK c \in Int, l \in Int : c = KeyPart(secret, i, j) /\ Term(a, key, i, j) = a[j] * c + q * l
    <3>1. KeyPart(secret, i, j) \in Int
          /\ \E l \in Int : Term(a, key, i, j) = a[j] * KeyPart(secret, i, j) + q * l
      BY <1>2, TermOfKey
    <3> HIDE DEF key
    <3>2. QED
      BY ONLY <3>1
  <2> HIDE DEF key
  <2>3. PICK x \in Int, y \in Int : x = p[j] /\ y = a[j]
    BY ONLY <1>2, <1>5, <2>1, j \in Idx
  <2>7. PICK t : t = Term(a, key, i, j) /\ t = y * c + q * l
    BY ONLY <2>2, <2>3
  <2>4. \E z \in Int : (x + t) % q = x + y * c + q * z
    <3>1. Reduces(q, x, t, y, c)
      BY ONLY <2>7, q \in Nat \ {0}, x \in Int, y \in Int, c \in Int, l \in Int, ReducedSum
    <3>2. QED
      BY ONLY <3>1 DEF Reduces
  <2>5. p[k] = (x + t) % q
    BY ONLY <1>4, <1>6, <2>1, <2>3, <2>7
  <2>6. QED
    BY ONLY <2>1, <2>2, <2>3, <2>4, <2>5
<1>7. Phase(Ct(a, b), q)[i] = (p[N] + b[i]) % q
  <2>1. Phase(Ct(a, b), q)[i] = (Over(q)!Times(a, key)[i] + b[i]) % q
    BY ONLY i \in Idx, Zenon DEF Phase, Ct, Over!Plus, Over!Idx, Idx
  <2>2. QED
    BY ONLY <1>4, <2>1
<1>8. PICK x \in Int, y \in Int : x = p[N] /\ y = b[i]
  <2>1. N \in 0 .. N
    BY ONLY <1>1
  <2>2. QED
    BY ONLY <1>2, <1>5, <2>1, i \in Idx
<1>9. \E l \in Int : Phase(Ct(a, b), q)[i] = x + y * 1 + q * l
  <2>1. PICK one \in Int, nought \in Int : one = 1 /\ nought = 0 /\ y = y * one + q * nought
    <3>1. y = y * 1 + q * 0
      BY ONLY y \in Int, q \in Nat
    <3>2. QED
      BY ONLY <3>1
  <2>2. PICK t : t = y
    OBVIOUS
  <2>3. \E l \in Int : (x + t) % q = x + y * one + q * l
    <3>1. Reduces(q, x, t, y, one)
      BY ONLY <2>1, <2>2, q \in Nat \ {0}, x \in Int, y \in Int, one \in Int, nought \in Int,
              ReducedSum
    <3>2. QED
      BY ONLY <3>1 DEF Reduces
  <2>4. QED
    BY ONLY <1>7, <1>8, <2>1, <2>2, <2>3
<1>10. Phase(Ct(a, b), q)[i] \in 0 .. q - 1
  <2>1. PICK z \in Int : z = x + y
    BY ONLY x \in Int, y \in Int
  <2>2. z % q \in 0 .. q - 1
    BY ONLY z \in Int, q \in Nat \ {0}
  <2>3. QED
    BY ONLY <1>7, <1>8, <2>1, <2>2
<1>11. QED
  BY ONLY <1>4, <1>5, <1>6, <1>8, <1>9, <1>10

\* A switch of a ciphertext scales its phase: half a unit of error for b and for every
\* coefficient of the key.
LEMMA PhaseScales ==
  ASSUME SwitchAssumption, secret \in Elements, NEW from \in Nat \ {0}, NEW to \in Nat \ {0},
         NEW a \in PolysOf(from), NEW b \in PolysOf(from), NEW i \in Idx
  PROVE  Scales(Phase(SwitchCt(Ct(a, b), from, to), to)[i], Phase(Ct(a, b), from)[i],
                from * (1 + N * LargestSize(secret)), from, to)
<1>1. PICK n \in Nat \ {0}, m \in Nat : n = N /\ m = LargestSize(secret)
  <2>1. N \in Nat \ {0}
    BY ConstantFacts
  <2>2. LargestSize(secret) \in Nat
    BY SizesBounded
  <2>3. QED
    BY ONLY <2>1, <2>2
<1>2. PICK a2 \in PolysOf(to), b2 \in PolysOf(to) :
        /\ a2 = SwitchPoly(a, from, to) /\ b2 = SwitchPoly(b, from, to)
        /\ \A j \in Idx : Scales(a2[j], a[j], from, from, to) /\ Scales(b2[j], b[j], from, from, to)
  BY ONLY from \in Nat \ {0}, to \in Nat \ {0}, a \in PolysOf(from), b \in PolysOf(from), SwitchedPoly
<1>3. SwitchCt(Ct(a, b), from, to) = Ct(a2, b2)
  BY ONLY <1>2 DEF SwitchCt, Ct
<1>4. \A j \in Idx : a[j] \in Int /\ b[j] \in Int /\ a2[j] \in Int /\ b2[j] \in Int
  BY ONLY a \in PolysOf(from), b \in PolysOf(from), a2 \in PolysOf(to), b2 \in PolysOf(to),
          from \in Nat, to \in Nat DEF PolysOf
<1>5. PICK p \in [0 .. n -> Int] :
        /\ p[0] = 0
        /\ \A k \in 0 .. n : k # 0 =>
             \E l \in Int : p[k] = p[k - 1] + a[k - 1] * KeyPart(secret, i, k - 1) + from * l
        /\ \E l \in Int : Phase(Ct(a, b), from)[i] = p[n] + b[i] * 1 + from * l
  <2>1. \E p \in [0 .. N -> Int] :
          /\ p[0] = 0
          /\ \A k \in 0 .. N : k # 0 =>
               \E l \in Int : p[k] = p[k - 1] + a[k - 1] * KeyPart(secret, i, k - 1) + from * l
          /\ \E l \in Int : Phase(Ct(a, b), from)[i] = p[N] + b[i] * 1 + from * l
    BY ONLY from \in Nat \ {0}, SwitchAssumption, secret \in Elements, a \in PolysOf(from),
            b \in PolysOf(from), i \in Idx, PhaseSums, Zenon
  <2>2. QED
    BY ONLY <1>1, <2>1
<1>6. PICK p2 \in [0 .. n -> Int] :
        /\ p2[0] = 0
        /\ \A k \in 0 .. n : k # 0 =>
             \E l \in Int : p2[k] = p2[k - 1] + a2[k - 1] * KeyPart(secret, i, k - 1) + to * l
        /\ \E l \in Int : Phase(Ct(a2, b2), to)[i] = p2[n] + b2[i] * 1 + to * l
  <2>1. \E p2 \in [0 .. N -> Int] :
          /\ p2[0] = 0
          /\ \A k \in 0 .. N : k # 0 =>
               \E l \in Int : p2[k] = p2[k - 1] + a2[k - 1] * KeyPart(secret, i, k - 1) + to * l
          /\ \E l \in Int : Phase(Ct(a2, b2), to)[i] = p2[N] + b2[i] * 1 + to * l
    BY ONLY to \in Nat \ {0}, SwitchAssumption, secret \in Elements, a2 \in PolysOf(to),
            b2 \in PolysOf(to), i \in Idx, PhaseSums, Zenon
  <2>2. QED
    BY ONLY <1>1, <2>1
<1> DEFINE T == {k \in 0 .. n : Scales(p2[k], p[k], k * (from * m), from, to)}
<1>7. 0 \in T
  <2>1. from * 0 = to * 0 + 0 + from * (to * 0) /\ 0 * (from * m) = 0 /\ -0 <= 2 * 0 /\ 2 * 0 <= 0
    BY ONLY from \in Nat, to \in Nat, m \in Nat
  <2>2. 0 \in Int /\ 0 \in 0 .. n
    BY ONLY n \in Nat
  <2>3. Scales(0, 0, 0, from, to)
    BY ONLY <2>1, <2>2 DEF Scales
  <2>4. QED
    BY ONLY <1>5, <1>6, <2>1, <2>2, <2>3
<1>8. ASSUME NEW k \in 0 .. n, k # n, k \in T
      PROVE  k + 1 \in T
  <2>1. PICK l \in 0 .. n : l = k + 1 /\ l - 1 = k /\ l # 0 /\ k \in Idx
    BY ONLY <1>1, <1>8, n \in Nat DEF Idx
  <2>2. PICK c \in Int : c = KeyPart(secret, i, k) /\ -m <= c /\ c <= m
    <3>1. from \in Nat \ {0} /\ a \in [Idx -> Int]
      BY ONLY a \in PolysOf(from), from \in Nat \ {0} DEF PolysOf
    <3>2. /\ KeyPart(secret, i, k) \in Int
          /\ -LargestSize(secret) <= KeyPart(secret, i, k) /\ KeyPart(secret, i, k) <= LargestSize(secret)
      BY ONLY <2>1, <3>1, SwitchAssumption, secret \in Elements, i \in Idx, TermOfKey
    <3>3. QED
      BY ONLY <1>1, <3>2
  <2>3. PICK x \in Int, x2 \in Int, y \in Int, y2 \in Int, w \in Nat :
          x = p[k] /\ x2 = p2[k] /\ y = a[k] /\ y2 = a2[k] /\ w = k * (from * m)
    <3>1. k * (from * m) \in Nat
      BY ONLY k \in 0 .. n, n \in Nat, from \in Nat, m \in Nat
    <3>2. p[k] \in Int /\ p2[k] \in Int
      BY ONLY k \in 0 .. n, p \in [0 .. n -> Int], p2 \in [0 .. n -> Int]
    <3>3. QED
      BY ONLY <1>4, <2>1, <3>1, <3>2
  <2>4. PICK u \in Int, v \in Int : p[l] = x + y * c + from * u /\ p2[l] = x2 + y2 * c + to * v
    <3>1. PICK u \in Int : p[l] = p[l - 1] + a[l - 1] * KeyPart(secret, i, l - 1) + from * u
      BY ONLY <1>5, <2>1
    <3>2. PICK v \in Int : p2[l] = p2[l - 1] + a2[l - 1] * KeyPart(secret, i, l - 1) + to * v
      BY ONLY <1>6, <2>1
    <3>3. QED
      BY ONLY <2>1, <2>2, <2>3, <3>1, <3>2
  <2>5. Scales(x2, x, w, from, to) /\ Scales(y2, y, from, from, to)
    BY ONLY <1>2, <1>8, <2>1, <2>3
  <2>6. PICK z, z2 : z = x + y * c + from * u /\ z2 = x2 + y2 * c + to * v
    OBVIOUS
  <2>7. Scales(z2, z, w + from * m, from, to)
    BY ONLY <2>2, <2>5, <2>6, from \in Nat, to \in Nat, m \in Nat, w \in Nat, x \in Int, x2 \in Int,
            y \in Int, y2 \in Int, c \in Int, u \in Int, v \in Int, ScalesStep
  <2>8. w + from * m = l * (from * m)
    <3>1. PICK t \in Nat : t = from * m
      BY ONLY from \in Nat, m \in Nat
    <3>2. (k + 1) * t = k * t + t
      BY ONLY k \in 0 .. n, n \in Nat, t \in Nat
    <3>3. QED
      BY ONLY <2>1, <2>3, <3>1, <3>2
  <2>9. QED
    BY ONLY <2>1, <2>4, <2>6, <2>7, <2>8
<1> HIDE DEF T
<1>9. \A k \in 0 .. n : k \in T
  BY ONLY <1>7, <1>8, n \in Nat, Induction
<1>10. Scales(p2[n], p[n], n * (from * m), from, to)
  <2>1. n \in T
    BY ONLY <1>9, n \in Nat
  <2>2. QED
    BY ONLY <2>1 DEF T
<1>11. PICK x \in Int, x2 \in Int, y \in Int, y2 \in Int, w \in Nat :
         x = p[n] /\ x2 = p2[n] /\ y = b[i] /\ y2 = b2[i] /\ w = n * (from * m)
  <2>1. n * (from * m) \in Nat /\ n \in 0 .. n
    BY ONLY n \in Nat, from \in Nat, m \in Nat
  <2>2. p[n] \in Int /\ p2[n] \in Int
    BY ONLY <2>1, p \in [0 .. n -> Int], p2 \in [0 .. n -> Int]
  <2>3. QED
    BY ONLY <1>4, <2>1, <2>2, i \in Idx
<1>12. PICK u \in Int, v \in Int : /\ Phase(Ct(a, b), from)[i] = x + y * 1 + from * u
                                   /\ Phase(Ct(a2, b2), to)[i] = x2 + y2 * 1 + to * v
  BY ONLY <1>5, <1>6, <1>11
<1>13. PICK one \in Int, unit \in Nat : one = 1 /\ unit = 1 /\ -unit <= one /\ one <= unit
  OBVIOUS
<1>14. PICK z, z2 : z = x + y * one + from * u /\ z2 = x2 + y2 * one + to * v
  OBVIOUS
<1>15. Scales(z2, z, w + from * unit, from, to)
  <2>1. Scales(x2, x, w, from, to) /\ Scales(y2, y, from, from, to)
    BY ONLY <1>2, <1>10, <1>11, i \in Idx
  <2>2. QED
    BY ONLY <1>13, <1>14, <2>1, from \in Nat, to \in Nat, w \in Nat, x \in Int, x2 \in Int, y \in Int,
            y2 \in Int, one \in Int, unit \in Nat, u \in Int, v \in Int, ScalesStep
<1>16. w + from * unit = from * (1 + N * LargestSize(secret))
  <2>1. from * (1 + n * m) = from * 1 + n * (from * m)
    BY ONLY from \in Nat, n \in Nat, m \in Nat
  <2>2. PICK t \in Nat : t = from * 1
    BY ONLY from \in Nat
  <2>3. w + t = t + w
    BY ONLY w \in Nat, t \in Nat
  <2>4. QED
    BY ONLY <1>1, <1>11, <1>13, <2>1, <2>2, <2>3
<1>17. QED
  BY ONLY <1>3, <1>12, <1>13, <1>14, <1>15, <1>16

\* What the error is after a switch: the error before it, scaled, and the rounding.
LEMMA ErrorScales ==
  ASSUME NEW p \in Nat \ {0}, NEW from \in Nat \ {0}, NEW to \in Nat \ {0}, NEW r \in Nat,
         NEW m \in Int, NEW x \in Int, NEW x2 \in Int, Scales(x2, x, from * r, from, to),
         NEW b \in Nat, Distance(p * x - m * from, p * from) <= b,
         NEW b2, b2 = (2 * to * b + from * (p * r) + 2 * from - 1) \div (2 * from)
  PROVE  b2 \in Nat /\ Distance(p * x2 - m * to, p * to) <= b2
<1>1. PICK e \in Int, k \in Int : /\ from * x2 = to * x + e + from * (to * k)
                                  /\ -(from * r) <= 2 * e /\ 2 * e <= from * r
  BY DEF Scales
<1>2. PICK o \in Int, o2 \in Int, pf \in Nat \ {0}, pt \in Nat \ {0} :
        o = p * x - m * from /\ o2 = p * x2 - m * to /\ pf = p * from /\ pt = p * to
  <2>1. p * x - m * from \in Int /\ p * x2 - m * to \in Int
    BY ONLY p \in Nat, m \in Int, x \in Int, x2 \in Int, from \in Nat, to \in Nat
  <2>2. p * from \in Nat \ {0} /\ p * to \in Nat \ {0}
    BY ONLY p \in Nat \ {0}, from \in Nat \ {0}, to \in Nat \ {0}
  <2>3. QED
    BY ONLY <2>1, <2>2
<1>3. PICK d \in Int, j \in Int : o = pf * j + d /\ -b <= d /\ d <= b
  <2>1. PICK z \in Nat : z = Distance(o, pf) /\ z <= b
    <3>1. Distance(o, pf) \in Nat
      BY ONLY o \in Int, pf \in Nat \ {0}, DistanceLeast
    <3>2. QED
      BY ONLY <1>2, <3>1, Distance(p * x - m * from, p * from) <= b
  <2>2. PICK j \in Int : o = pf * j + z \/ o = pf * j - z
    BY ONLY <2>1, o \in Int, pf \in Nat \ {0}, DistanceLeast
  <2>3. PICK w \in Int : w = pf * j
    BY ONLY pf \in Nat, j \in Int
  <2>4. CASE o = pf * j + z
    <3>1. z \in Int /\ -b <= z /\ z <= b
      BY ONLY <2>1, z \in Nat, b \in Nat
    <3>2. QED
      BY ONLY <2>4, <3>1, j \in Int, Zenon
  <2>5. CASE o = pf * j - z
    <3>1. -z \in Int /\ o = w + (-z) /\ -b <= -z /\ -z <= b
      BY ONLY <2>1, <2>3, <2>5, z \in Nat, b \in Nat, w \in Int
    <3>2. QED
      BY ONLY <2>3, <3>1, j \in Int
  <2>6. QED
    BY ONLY <2>2, <2>4, <2>5
<1>4. PICK l \in Int, y \in Int : l = j + k /\ y = o2 - pt * l
  <2>1. PICK l \in Int : l = j + k
    BY ONLY j \in Int, k \in Int
  <2>2. o2 - pt * l \in Int
    BY ONLY o2 \in Int, pt \in Nat, l \in Int
  <2>3. QED
    BY ONLY <2>1, <2>2
<1>5. from * y = to * d + p * e
  <2>1. from * o2 = p * (from * x2) - from * (m * to)
    BY ONLY <1>2, p \in Nat, m \in Int, x2 \in Int, from \in Nat, to \in Nat
  <2>2. p * (to * x + e + from * (to * k)) = to * (p * x) + p * e + p * (from * (to * k))
    BY ONLY p \in Nat, to \in Nat, from \in Nat, x \in Int, e \in Int, k \in Int
  <2>3. to * o = to * (p * x) - from * (m * to)
    BY ONLY <1>2, p \in Nat, m \in Int, x \in Int, from \in Nat, to \in Nat
  <2>4. to * o = p * (from * (to * j)) + to * d
    BY ONLY <1>2, <1>3, p \in Nat, from \in Nat, to \in Nat, j \in Int, d \in Int
  <2>5. from * (pt * l) = p * (from * (to * j)) + p * (from * (to * k))
    <3>1. from * ((p * to) * (j + k)) = p * (from * (to * j)) + p * (from * (to * k))
      BY ONLY p \in Nat, from \in Nat, to \in Nat, j \in Int, k \in Int
    <3>2. pt = p * to /\ l = j + k
      BY ONLY <1>2, <1>4
    <3>3. QED
      BY ONLY <3>1, <3>2
  <2>6. from * y = from * o2 - from * (pt * l)
    BY ONLY <1>4, from \in Nat, o2 \in Int, pt \in Nat, l \in Int
  <2>7. PICK t1 \in Int, t2 \in Int, t3 \in Int, t4 \in Int, t5 \in Int, t6 \in Int :
          /\ t1 = to * (p * x) /\ t2 = p * e /\ t3 = p * (from * (to * k))
          /\ t4 = from * (m * to) /\ t5 = p * (from * (to * j)) /\ t6 = to * d
    BY ONLY p \in Nat, to \in Nat, from \in Nat, x \in Int, e \in Int, k \in Int, j \in Int,
            m \in Int, d \in Int
  <2>8. from * o2 = (t1 + t2 + t3) - t4
    BY ONLY <1>1, <2>1, <2>2, <2>7
  <2>9. t1 - t4 = t5 + t6
    BY ONLY <2>3, <2>4, <2>7
  <2>10. from * (pt * l) = t5 + t3
    BY ONLY <2>5, <2>7
  <2>11. from * y = ((t1 + t2 + t3) - t4) - (t5 + t3)
    BY ONLY <2>6, <2>8, <2>10
  <2>12. ((t1 + t2 + t3) - t4) - (t5 + t3) = t6 + t2
    BY ONLY <2>9, t1 \in Int, t2 \in Int, t3 \in Int, t4 \in Int, t5 \in Int, t6 \in Int
  <2>13. QED
    BY ONLY <2>7, <2>11, <2>12
<1>6. PICK v \in Nat : /\ v = 2 * to * b + from * (p * r)
                       /\ -v <= 2 * (from * y) /\ 2 * (from * y) <= v
  <2>1. PICK tb \in Nat, td \in Int : tb = to * b /\ td = to * d
    BY ONLY to \in Nat, b \in Nat, d \in Int
  <2>2. -tb <= td /\ td <= tb
    <3>1. PICK u \in Nat, w \in Nat : u = b - d /\ w = b + d
      <4>1. b - d \in Nat /\ b + d \in Nat
        BY ONLY <1>3, b \in Nat, d \in Int
      <4>2. QED
        BY ONLY <4>1
    <3>2. to * u \in Nat /\ to * w \in Nat
      BY ONLY to \in Nat, u \in Nat, w \in Nat
    <3>3. to * u = to * b - to * d /\ to * w = to * b + to * d
      BY ONLY <3>1, to \in Nat, b \in Nat, d \in Int, u \in Nat, w \in Nat
    <3>4. tb - td \in Nat /\ tb + td \in Nat
      BY ONLY <2>1, <3>2, <3>3
    <3>5. QED
      BY ONLY <3>4, tb \in Nat, td \in Int
  <2>3. PICK pr \in Nat, pe \in Int : pr = from * (p * r) /\ pe = p * e
    BY ONLY from \in Nat, p \in Nat, r \in Nat, e \in Int
  <2>4. -pr <= 2 * pe /\ 2 * pe <= pr
    <3>1. PICK fr \in Nat : fr = from * r
      BY ONLY from \in Nat, r \in Nat
    <3>2. PICK u \in Nat, w \in Nat : u = fr - 2 * e /\ w = fr + 2 * e
      <4>1. fr - 2 * e \in Nat /\ fr + 2 * e \in Nat
        BY ONLY <1>1, <3>1, fr \in Nat, e \in Int
      <4>2. QED
        BY ONLY <4>1
    <3>3. p * u \in Nat /\ p * w \in Nat
      BY ONLY p \in Nat, u \in Nat, w \in Nat
    <3>4. p * u = p * fr - 2 * (p * e) /\ p * w = p * fr + 2 * (p * e)
      BY ONLY <3>2, p \in Nat, fr \in Nat, e \in Int, u \in Nat, w \in Nat
    <3>5. p * fr = pr
      BY ONLY <2>3, <3>1, p \in Nat, from \in Nat, r \in Nat
    <3>6. pr - 2 * pe \in Nat /\ pr + 2 * pe \in Nat
      BY ONLY <2>3, <3>3, <3>4, <3>5
    <3>7. QED
      BY ONLY <3>6, pr \in Nat, pe \in Int
  <2>5. 2 * to * b = 2 * tb
    BY ONLY <2>1, to \in Nat, b \in Nat
  <2>6. PICK v \in Nat : v = 2 * tb + pr
    BY ONLY tb \in Nat, pr \in Nat
  <2>7. PICK fy \in Int : fy = from * y /\ fy = td + pe
    <3>1. from * y = td + pe
      BY ONLY <1>5, <2>1, <2>3
    <3>2. td + pe \in Int
      BY ONLY td \in Int, pe \in Int
    <3>3. QED
      BY ONLY <3>1, <3>2
  <2>8. -v <= 2 * fy /\ 2 * fy <= v
    BY ONLY <2>2, <2>4, <2>6, <2>7, tb \in Nat, td \in Int, pr \in Nat, pe \in Int, v \in Nat,
            fy \in Int
  <2>9. v = 2 * to * b + from * (p * r)
    BY ONLY <2>3, <2>5, <2>6
  <2>10. QED
    BY ONLY <2>7, <2>8, <2>9
<1>7. PICK c \in Nat \ {0}, w \in Nat : c = 2 * from /\ w = v + c - 1 /\ b2 = w \div c
  <2>1. PICK c \in Nat \ {0} : c = 2 * from
    BY ONLY from \in Nat \ {0}
  <2>2. v + c - 1 \in Nat
    BY ONLY v \in Nat, c \in Nat \ {0}
  <2>3. b2 = (v + c - 1) \div c
    BY ONLY <1>6, <2>1, b2 = (2 * to * b + from * (p * r) + 2 * from - 1) \div (2 * from)
  <2>4. QED
    BY ONLY <2>1, <2>2, <2>3
<1>8. PICK u \in Int, s \in 0 .. c - 1 : w = c * u + s /\ u = b2
  <2>1. w \in Int
    BY ONLY w \in Nat
  <2>2. PICK u \in Int, s \in 0 .. c - 1 : w = c * u + s /\ s = w % c /\ u = w \div c
    BY ONLY <2>1, c \in Nat \ {0}, Division, Zenon
  <2>3. QED
    BY ONLY <1>7, <2>2
<1>9. u \in Nat
  <2>1. ASSUME u < 0 PROVE FALSE
    <3>1. PICK h \in Nat : u = -(h + 1)
      <4>1. -u - 1 \in Nat /\ u = -((-u - 1) + 1)
        BY ONLY <2>1, u \in Int
      <4>2. QED
        BY ONLY <4>1
    <3>2. PICK ch \in Nat : ch = c * h /\ c * u = -ch - c
      <4>1. c * h \in Nat /\ c * u = -(c * h) - c
        BY ONLY <3>1, c \in Nat, h \in Nat, u \in Int
      <4>2. QED
        BY ONLY <4>1
    <3>3. QED
      BY ONLY <1>8, <3>2, ch \in Nat, c \in Nat, w \in Nat, s \in 0 .. c - 1
  <2>2. QED
    BY ONLY <2>1, u \in Int
<1>10. -u <= y /\ y <= u
  <2>1. PICK cu \in Nat : cu = c * u
    BY ONLY <1>9, c \in Nat
  <2>2. v <= cu
    <3>1. v + c - 1 = cu + s
      BY ONLY <1>7, <1>8, <2>1
    <3>2. QED
      BY ONLY <3>1, v \in Nat, c \in Nat, cu \in Nat, s \in 0 .. c - 1
  <2>3. PICK cy \in Int : cy = c * y /\ cy = 2 * (from * y)
    BY ONLY <1>7, c \in Nat, from \in Nat, y \in Int
  <2>4. -cu <= cy /\ cy <= cu
    BY ONLY <1>6, <2>2, <2>3, v \in Nat, cu \in Nat, cy \in Int
  <2>5. ASSUME y > u PROVE FALSE
    <3>1. PICK h \in Nat : y = u + h + 1
      <4>1. y - u - 1 \in Nat /\ y = u + (y - u - 1) + 1
        BY ONLY <2>5, u \in Int, y \in Int
      <4>2. QED
        BY ONLY <4>1
    <3>2. c * (u + h + 1) = c * u + c * h + c /\ c * h \in Nat
      BY ONLY c \in Nat, u \in Int, h \in Nat
    <3>3. PICK ch \in Nat : ch = c * h /\ cy = cu + ch + c
      BY ONLY <2>1, <2>3, <3>1, <3>2
    <3>4. QED
      BY ONLY <2>4, <3>3, ch \in Nat, cu \in Nat, cy \in Int, c \in Nat \ {0}
  <2>6. ASSUME y < -u PROVE FALSE
    <3>1. PICK h \in Nat : y = -(u + h + 1)
      <4>1. -y - u - 1 \in Nat /\ y = -(u + (-y - u - 1) + 1)
        BY ONLY <2>6, u \in Int, y \in Int
      <4>2. QED
        BY ONLY <4>1
    <3>2. c * (-(u + h + 1)) = -(c * u + c * h + c) /\ c * h \in Nat
      BY ONLY c \in Nat, u \in Int, h \in Nat
    <3>3. PICK ch \in Nat : ch = c * h /\ cy = -(cu + ch + c)
      BY ONLY <2>1, <2>3, <3>1, <3>2
    <3>4. QED
      BY ONLY <2>4, <3>3, ch \in Nat, cu \in Nat, cy \in Int, c \in Nat \ {0}
  <2>7. QED
    BY ONLY <2>5, <2>6, u \in Int, y \in Int
<1>11. o2 = pt * l + y
  <2>1. PICK z \in Int : z = pt * l
    BY ONLY pt \in Nat, l \in Int
  <2>2. y = o2 - z
    BY ONLY <1>4, <2>1
  <2>3. o2 = z + y
    BY ONLY <2>2, z \in Int, o2 \in Int, y \in Int
  <2>4. QED
    BY ONLY <2>1, <2>3
<1>12. Distance(o2, pt) <= u
  BY ONLY <1>10, <1>11, o2 \in Int, pt \in Nat \ {0}, l \in Int, y \in Int, u \in Int, DistanceLeast
<1>13. QED
  BY ONLY <1>2, <1>8, <1>9, <1>12
-----------------------------------------------------------------------------
(* Reading                                                                 *)

\* A factor cancels from a strict inequality.
LEMMA FactorCancels ==
  ASSUME NEW p \in Nat, NEW x \in Int, NEW y \in Int, p * x < p * y
  PROVE  x < y
<1>1. ASSUME ~(x < y) PROVE FALSE
  <2>1. PICK d \in Nat : x = y + d
    <3>1. x - y \in Nat /\ x = y + (x - y)
      BY ONLY <1>1, x \in Int, y \in Int
    <3>2. QED
      BY ONLY <3>1
  <2>2. p * x = p * y + p * d /\ p * d \in Nat /\ p * y \in Int
    BY ONLY <2>1, p \in Nat, y \in Int, d \in Nat, x \in Int
  <2>3. QED
    BY ONLY <2>2, p * x < p * y
<1>2. QED
  BY ONLY <1>1

\* decrypt: while error and remainder leave room below half of floor(q / p), rounding v by
\* that floor gives the message.
LEMMA RoundingReads ==
  ASSUME NEW p \in Nat \ {0}, NEW q \in Nat \ {0}, NEW dl \in Nat \ {0}, dl = q \div p,
         NEW m \in 0 .. p - 1, NEW v \in 0 .. q - 1, NEW b \in Nat,
         Distance(p * v - m * q, p * q) <= b,
         2 * (b + (p - 1) * (q % p)) < p * (q \div p)
  PROVE  ((v + dl \div 2) \div dl) % p = m
<1>1. PICK r \in 0 .. p - 1 : q = p * dl + r /\ r = q % p
  <2>1. q \in Int
    BY ONLY q \in Nat
  <2>2. PICK k \in Int, r \in 0 .. p - 1 : q = p * k + r /\ r = q % p /\ k = q \div p
    BY ONLY <2>1, p \in Nat \ {0}, Division, Zenon
  <2>3. QED
    BY ONLY <2>2, dl = q \div p
<1>2. PICK h \in Nat : h = dl \div 2 /\ 2 * h <= dl /\ dl <= 2 * h + 1
  <2>1. dl \div 2 \in Nat /\ 2 * (dl \div 2) <= dl /\ dl <= 2 * (dl \div 2) + 1
    BY ONLY dl \in Nat
  <2>2. QED
    BY ONLY <2>1
<1>3. PICK pd \in Nat, tail \in Nat : pd = p * dl /\ tail = (p - 1) * r /\ 2 * (b + tail) < pd
  <2>1. p * dl \in Nat /\ (p - 1) * r \in Nat
    <3>1. PICK a \in Nat : a = p - 1
      BY ONLY p \in Nat \ {0}
    <3>2. p * dl \in Nat /\ a * r \in Nat
      BY ONLY p \in Nat, dl \in Nat, a \in Nat, r \in 0 .. p - 1
    <3>3. QED
      BY ONLY <3>1, <3>2
  <2>2. 2 * (b + (p - 1) * r) < p * dl
    BY ONLY <1>1, dl = q \div p, 2 * (b + (p - 1) * (q % p)) < p * (q \div p)
  <2>3. QED
    BY ONLY <2>1, <2>2
<1>4. PICK e \in Int, k \in Int : p * v - m * q = (p * q) * k + e /\ -b <= e /\ e <= b
  <2>1. PICK o \in Int, pq \in Nat \ {0} : o = p * v - m * q /\ pq = p * q
    <3>1. p * v - m * q \in Int /\ p * q \in Nat \ {0}
      BY ONLY p \in Nat \ {0}, q \in Nat \ {0}, v \in 0 .. q - 1, m \in 0 .. p - 1
    <3>2. QED
      BY ONLY <3>1
  <2>2. PICK z \in Nat : z = Distance(o, pq) /\ z <= b
    <3>1. Distance(o, pq) \in Nat
      BY ONLY o \in Int, pq \in Nat \ {0}, DistanceLeast
    <3>2. QED
      BY ONLY <2>1, <3>1, Distance(p * v - m * q, p * q) <= b
  <2>3. PICK j \in Int : o = pq * j + z \/ o = pq * j - z
    BY ONLY <2>2, o \in Int, pq \in Nat \ {0}, DistanceLeast
  <2>4. PICK w \in Int : w = pq * j
    BY ONLY pq \in Nat, j \in Int
  <2>5. z \in Int /\ -z \in Int /\ -b <= z /\ -b <= -z /\ -z <= b
    BY ONLY <2>2, z \in Nat, b \in Nat
  <2>6. o = w + z \/ o = w + (-z)
    BY ONLY <2>3, <2>4, w \in Int, z \in Nat
  <2>7. QED
    BY ONLY <2>1, <2>2, <2>4, <2>5, <2>6, j \in Int
<1>5. PICK y \in Int, md \in Nat, qk \in Int :
        md = m * dl /\ qk = q * k /\ v = qk + md + y
  <2>1. PICK md \in Nat, qk \in Int : md = m * dl /\ qk = q * k
    BY ONLY m \in 0 .. p - 1, p \in Nat, dl \in Nat, q \in Nat, k \in Int
  <2>2. v - qk - md \in Int /\ v = qk + md + (v - qk - md)
    BY ONLY v \in 0 .. q - 1, q \in Nat, md \in Nat, qk \in Int
  <2>3. QED
    BY ONLY <2>1, <2>2
<1>6. PICK mr \in Nat : mr = m * r /\ mr <= tail /\ p * y = mr + e
  <2>1. PICK mr \in Nat : mr = m * r
    BY ONLY m \in 0 .. p - 1, p \in Nat, r \in 0 .. p - 1
  <2>2. mr <= tail
    <3>1. PICK c \in Nat : p - 1 = m + c
      <4>1. p - 1 - m \in Nat /\ p - 1 = m + (p - 1 - m)
        BY ONLY m \in 0 .. p - 1, p \in Nat
      <4>2. QED
        BY ONLY <4>1
    <3>2. (m + c) * r = m * r + c * r /\ c * r \in Nat
      BY ONLY m \in 0 .. p - 1, p \in Nat, c \in Nat, r \in 0 .. p - 1
    <3>3. PICK cr \in Nat : tail = mr + cr
      BY ONLY <1>3, <2>1, <3>1, <3>2
    <3>4. QED
      BY ONLY <3>3, mr \in Nat, cr \in Nat
  <2>3. p * v = p * qk + p * md + p * y
    BY ONLY <1>5, p \in Nat, qk \in Int, md \in Nat, y \in Int, v \in 0 .. q - 1, q \in Nat
  <2>4. p * qk = (p * q) * k /\ p * md = m * pd
    BY ONLY <1>3, <1>5, p \in Nat, q \in Nat, k \in Int, m \in 0 .. p - 1, dl \in Nat, pd \in Nat,
            qk \in Int, md \in Nat
  <2>5. m * q = m * pd + m * r
    <3>1. m * (pd + r) = m * pd + m * r
      BY ONLY m \in 0 .. p - 1, p \in Nat, pd \in Nat, r \in 0 .. p - 1
    <3>2. QED
      BY ONLY <1>1, <1>3, <3>1
  <2>6. PICK t1 \in Int, t2 \in Int, t3 \in Int : t1 = (p * q) * k /\ t2 = m * pd /\ t3 = p * y
    BY ONLY p \in Nat, q \in Nat, k \in Int, m \in 0 .. p - 1, pd \in Nat, y \in Int
  <2>7. (t1 + t2 + t3) - (t2 + mr) = t1 + e
    BY ONLY <1>4, <2>1, <2>3, <2>4, <2>5, <2>6
  <2>8. t3 = mr + e
    BY ONLY <2>7, t1 \in Int, t2 \in Int, t3 \in Int, mr \in Nat, e \in Int
  <2>9. QED
    BY ONLY <2>1, <2>2, <2>6, <2>8
<1>7. -dl < 2 * y /\ 2 * y < dl
  <2>1. PICK z \in Int, u \in Int, n \in Int : z = 2 * y /\ u = -dl /\ n = dl
    BY ONLY y \in Int, dl \in Nat
  <2>2. p * z = 2 * (p * y) /\ p * u = -(p * dl) /\ p * n = p * dl
    BY ONLY <2>1, p \in Nat, y \in Int, dl \in Nat
  <2>3. PICK py \in Int : py = p * y
    BY ONLY p \in Nat, y \in Int
  <2>4. -pd < 2 * py /\ 2 * py < pd
    BY ONLY <1>3, <1>4, <1>6, <2>3, py \in Int, mr \in Nat, e \in Int, b \in Nat, tail \in Nat, pd \in Nat
  <2>5. p * u < p * z /\ p * z < p * n
    BY ONLY <1>3, <2>2, <2>3, <2>4
  <2>6. u < z /\ z < n
    BY ONLY <2>5, p \in Nat, u \in Int, z \in Int, n \in Int, FactorCancels
  <2>7. QED
    BY ONLY <2>1, <2>6
<1>8. PICK g \in 0 .. dl - 1 : g = y + h
  <2>1. y + h \in 0 .. dl - 1
    BY ONLY <1>2, <1>7, y \in Int, h \in Nat, dl \in Nat
  <2>2. QED
    BY ONLY <2>1
<1>9. md <= pd - dl /\ (m # 0 => md >= dl) /\ (m = 0 => md = 0) /\ dl <= pd /\ pd <= q
  <2>1. PICK c \in Nat : p = m + 1 + c
    <3>1. p - 1 - m \in Nat /\ p = m + 1 + (p - 1 - m)
      BY ONLY m \in 0 .. p - 1, p \in Nat
    <3>2. QED
      BY ONLY <3>1
  <2>2. (m + 1 + c) * dl = m * dl + dl + c * dl /\ c * dl \in Nat
    BY ONLY m \in 0 .. p - 1, p \in Nat, c \in Nat, dl \in Nat
  <2>3. PICK cd \in Nat : pd = md + dl + cd
    BY ONLY <1>3, <1>5, <2>1, <2>2
  <2>4. ASSUME m # 0 PROVE md >= dl
    <3>1. PICK a \in Nat : m = a + 1
      <4>1. m - 1 \in Nat /\ m = (m - 1) + 1
        BY ONLY <2>4, m \in 0 .. p - 1, p \in Nat
      <4>2. QED
        BY ONLY <4>1
    <3>2. (a + 1) * dl = a * dl + dl /\ a * dl \in Nat
      BY ONLY a \in Nat, dl \in Nat
    <3>3. PICK ad \in Nat : md = ad + dl
      BY ONLY <1>5, <3>1, <3>2
    <3>4. QED
      BY ONLY <3>3, ad \in Nat, dl \in Nat
  <2>5. m = 0 => md = 0
    BY ONLY <1>5, dl \in Nat
  <2>6. q = pd + r
    BY ONLY <1>1, <1>3
  <2>7. QED
    BY ONLY <2>3, <2>4, <2>5, <2>6, pd \in Nat, md \in Nat, dl \in Nat, cd \in Nat, q \in Nat,
            r \in 0 .. p - 1, p \in Nat
<1>10. k = 0 \/ k = 1
  <2>1. -q < qk /\ qk < 2 * q
    BY ONLY <1>5, <1>7, <1>9, v \in 0 .. q - 1, q \in Nat, qk \in Int, md \in Nat, y \in Int,
            dl \in Nat, pd \in Nat
  <2>2. q * (-1) = -q /\ q * 2 = 2 * q
    BY ONLY q \in Nat
  <2>3. q * (-1) < q * k /\ q * k < q * 2
    BY ONLY <1>5, <2>1, <2>2
  <2>4. PICK lo \in Int, hi \in Int : lo = -1 /\ hi = 2
    OBVIOUS
  <2>5. lo < k /\ k < hi
    <3>1. q * lo < q * k /\ q * k < q * hi
      BY ONLY <2>3, <2>4
    <3>2. QED
      BY ONLY <3>1, q \in Nat, k \in Int, lo \in Int, hi \in Int, FactorCancels
  <2>6. QED
    BY ONLY <2>4, <2>5, k \in Int
<1>11. PICK w \in Int : w = v + h
  BY ONLY v \in 0 .. q - 1, q \in Nat, h \in Nat
<1>12. CASE k = 0
  <2>1. qk = 0
    BY ONLY <1>5, <1>12, q \in Nat
  <2>2. w = md + g
    BY ONLY <1>5, <1>8, <1>11, <2>1, md \in Nat, y \in Int, h \in Nat, g \in 0 .. dl - 1, dl \in Nat,
            w \in Int, v \in 0 .. q - 1, q \in Nat
  <2>3. md = dl * m /\ m \in Int
    BY ONLY <1>5, m \in 0 .. p - 1, p \in Nat, dl \in Nat
  <2>4. w = dl * m + g
    BY ONLY <2>2, <2>3
  <2>5. w \div dl = m
    BY ONLY <2>3, <2>4, w \in Int, dl \in Nat \ {0}, g \in 0 .. dl - 1, DivModUnique
  <2>6. m % p = m
    BY ONLY p \in Nat \ {0}, m \in 0 .. p - 1, ModSmall
  <2>7. QED
    BY ONLY <1>2, <1>11, <2>5, <2>6
<1>13. CASE k = 1
  <2>1. qk = q
    BY ONLY <1>5, <1>13, q \in Nat
  <2>2. md + y < 0
    BY ONLY <1>5, <2>1, v \in 0 .. q - 1, q \in Nat, md \in Nat, y \in Int
  <2>3. m = 0 /\ md = 0
    BY ONLY <1>7, <1>9, <2>2, md \in Nat, y \in Int, dl \in Nat
  <2>4. y <= -1
    BY ONLY <2>2, <2>3, y \in Int
  <2>5. p <= b
    <3>1. mr = 0
      BY ONLY <1>6, <2>3, r \in 0 .. p - 1, p \in Nat
    <3>2. PICK a \in Nat : y = -(a + 1)
      <4>1. -y - 1 \in Nat /\ y = -((-y - 1) + 1)
        BY ONLY <2>4, y \in Int
      <4>2. QED
        BY ONLY <4>1
    <3>3. p * (-(a + 1)) = -(p * a) - p /\ p * a \in Nat
      BY ONLY p \in Nat, a \in Nat
    <3>4. PICK pa \in Nat : e = -pa - p
      <4>1. e = p * y
        BY ONLY <1>6, <3>1, e \in Int
      <4>2. QED
        BY ONLY <3>2, <3>3, <4>1
    <3>5. QED
      BY ONLY <1>4, <3>4, pa \in Nat, p \in Nat, b \in Nat, e \in Int
  <2>6. 2 * r < dl
    <3>1. PICK pr \in Nat : pr = p * r /\ tail = pr - r
      <4>1. (p - 1) * r = p * r - r /\ p * r \in Nat
        BY ONLY p \in Nat, r \in 0 .. p - 1
      <4>2. QED
        BY ONLY <1>3, <4>1
    <3>2. 2 * pr < pd
      BY ONLY <1>3, <2>5, <3>1, pr \in Nat, pd \in Nat, tail \in Nat, b \in Nat, p \in Nat, r \in 0 .. p - 1
    <3>3. PICK rr \in Int, n \in Int : rr = 2 * r /\ n = dl
      BY ONLY r \in 0 .. p - 1, p \in Nat, dl \in Nat
    <3>4. p * rr = 2 * (p * r)
      BY ONLY <3>3, p \in Nat, r \in 0 .. p - 1
    <3>5. p * rr < p * n
      BY ONLY <1>3, <3>1, <3>2, <3>3, <3>4
    <3>6. rr < n
      BY ONLY <3>5, p \in Nat, rr \in Int, n \in Int, FactorCancels
    <3>7. QED
      BY ONLY <3>3, <3>6
  <2>7. PICK t \in 0 .. dl - 1 : t = r + g
    <3>1. r + g \in 0 .. dl - 1
      BY ONLY <1>2, <1>8, <2>4, <2>6, r \in 0 .. p - 1, p \in Nat, g \in 0 .. dl - 1, dl \in Nat,
              h \in Nat, y \in Int
    <3>2. QED
      BY ONLY <3>1
  <2>8. w = pd + t
    <3>1. q = pd + r
      BY ONLY <1>1, <1>3
    <3>2. v = q + y
      BY ONLY <1>5, <2>1, <2>3, q \in Nat, y \in Int
    <3>3. QED
      BY ONLY <1>8, <1>11, <2>7, <3>1, <3>2, pd \in Nat, r \in 0 .. p - 1, p \in Nat, q \in Nat,
              y \in Int, h \in Nat, g \in 0 .. dl - 1, dl \in Nat, w \in Int, v \in 0 .. q - 1
  <2>9. pd = dl * p /\ p \in Int
    BY ONLY <1>3, p \in Nat, dl \in Nat
  <2>10. w = dl * p + t
    BY ONLY <2>8, <2>9
  <2>11. w \div dl = p
    BY ONLY <2>9, <2>10, w \in Int, dl \in Nat \ {0}, t \in 0 .. dl - 1, DivModUnique
  <2>12. p % p = 0
    <3>1. p \in Int /\ p = p * 1 + 0 /\ 0 \in 0 .. p - 1 /\ 1 \in Int
      BY ONLY p \in Nat \ {0}
    <3>2. QED
      BY ONLY <3>1, p \in Nat \ {0}, DivModUnique
  <2>13. QED
    BY ONLY <1>2, <1>11, <2>3, <2>11, <2>12
<1>14. QED
  BY ONLY <1>10, <1>12, <1>13
-----------------------------------------------------------------------------
(* The invariant                                                           *)

\* How far the phase of ct is, at coefficient i, from what m stands for.
OffAt(ct, q, m, i) == Distance(P * Phase(ct, q)[i] - m[i] * q, P * q)

\* Off has them for every coefficient, and Largest is the largest.
LEMMA LargestOff ==
  ASSUME SwitchAssumption, secret \in Elements, NEW q \in Nat \ {0}, NEW ct \in CtsOf(q),
         NEW m \in [Idx -> 0 .. P - 1]
  PROVE  /\ Largest(Off(ct, q, m)) \in Nat
         /\ \A i \in Idx : /\ Phase(ct, q)[i] \in 0 .. q - 1
                           /\ OffAt(ct, q, m, i) \in Nat
                           /\ OffAt(ct, q, m, i) <= Largest(Off(ct, q, m))
         /\ \E i \in Idx : Largest(Off(ct, q, m)) = OffAt(ct, q, m, i)
<1>1. PICK n \in Nat : 0 .. n = Idx
  <2>1. N \in Nat \ {0}
    BY ConstantFacts
  <2>2. N - 1 \in Nat /\ 0 .. N - 1 = Idx
    BY ONLY <2>1 DEF Idx
  <2>3. QED
    BY ONLY <2>2
<1>2. P \in Nat \ {0}
  BY ConstantFacts
<1>3. PICK a \in PolysOf(q), b \in PolysOf(q) : ct = Ct(a, b)
  <2>1. ct = [a |-> ct.a, b |-> ct.b] /\ ct.a \in PolysOf(q) /\ ct.b \in PolysOf(q)
    BY ONLY ct \in CtsOf(q) DEF CtsOf
  <2>2. QED
    BY ONLY <2>1 DEF Ct
<1>4. ASSUME NEW i \in Idx
      PROVE  Phase(ct, q)[i] \in 0 .. q - 1 /\ OffAt(ct, q, m, i) \in Nat
  <2>1. Phase(ct, q)[i] \in 0 .. q - 1
    BY <1>3, PhaseSums
  <2>2. PICK x \in Int, y \in Int : x = Phase(ct, q)[i] /\ y = m[i]
    BY ONLY <2>1, q \in Nat, m \in [Idx -> 0 .. P - 1], <1>2, i \in Idx
  <2>3. P * x - y * q \in Int /\ P * q \in Nat \ {0}
    BY ONLY <1>2, q \in Nat \ {0}, x \in Int, y \in Int
  <2>4. PICK z \in Int, w \in Nat \ {0} : z = P * x - y * q /\ w = P * q
    BY ONLY <2>3
  <2>5. Distance(z, w) \in Nat
    BY ONLY z \in Int, w \in Nat \ {0}, DistanceLeast
  <2>6. QED
    BY ONLY <2>1, <2>2, <2>4, <2>5 DEF OffAt
<1>5. Off(ct, q, m) = {OffAt(ct, q, m, i) : i \in Idx}
  BY ONLY Zenon DEF Off, OffAt, Distance
<1> DEFINE f == [i \in 0 .. n |-> OffAt(ct, q, m, i)]
<1>6. f \in [0 .. n -> Nat]
  BY ONLY <1>1, <1>4
<1>7. PICK l \in 0 .. n : \A k \in 0 .. n : f[k] <= f[l]
  <2> HIDE DEF f
  <2>1. QED
    BY ONLY <1>6, n \in Nat, LargestExists
<1>8. PICK x : x = OffAt(ct, q, m, l)
  OBVIOUS
<1>9. x \in Off(ct, q, m) /\ \A y \in Off(ct, q, m) : y <= x
  BY ONLY <1>1, <1>5, <1>7, <1>8
<1>10. Largest(Off(ct, q, m)) \in Off(ct, q, m) /\ \A y \in Off(ct, q, m) : y <= Largest(Off(ct, q, m))
  BY ONLY <1>9, Zenon DEF Largest
<1>11. QED
  BY ONLY <1>4, <1>5, <1>10

\* What is sent, what is received, and how far the answer is off.
WireInv ==
  /\ wire # None => answer.limbs = 1 /\ wire = Encoded(answer)
  /\ received # None => wire # None /\ received = answer
OffInv ==
  /\ bound \in Nat
  /\ \A i \in Idx : OffAt(answer.cts[1], answer.modulus, message, i) <= bound

\* The inductive invariant.
SwitchInv ==
  /\ secret \in Elements /\ message \in [Idx -> 0 .. P - 1]
  /\ AnswerTyped(answer)
  /\ WireInv
  /\ OffInv

\* The product of RingOps is that under the modulus Q.
LEMMA ProductTyped ==
  ASSUME SwitchAssumption, NEW a \in Elements, NEW b \in Elements, NEW i \in Idx
  PROVE  Times(a, b)[i] \in Int
<1>1. N \in Nat \ {0} /\ Q \in Nat \ {0}
  BY ConstantFacts
<1>2. a \in [Idx -> Int] /\ b \in [Idx -> Int]
  BY ONLY <1>1, a \in Elements, b \in Elements DEF Elements, Residue
<1>3. PICK p : Sums(p, Q, a, b, i)
  BY ONLY <1>1, <1>2, i \in Idx, PartialSums
<1>4. Over(Q)!Times(a, b)[i] = p[N] /\ p \in [0 .. N -> 0 .. Q - 1]
  BY ONLY <1>3 DEF Sums
<1>5. Over(Q)!Times(a, b) = Times(a, b)
  BY ONLY Zenon DEF Over!Times, Over!Idx, Over!SumBelow, Times, Idx, SumBelow
<1>6. p[N] \in Int
  <2>1. N \in 0 .. N
    BY ONLY <1>1
  <2>2. p[N] \in 0 .. Q - 1
    BY ONLY <1>4, <2>1
  <2>3. QED
    BY ONLY <1>1, <2>2
<1>7. QED
  BY ONLY <1>4, <1>5, <1>6

\* A fresh ciphertext has residues.
LEMMA FreshTyped ==
  ASSUME SwitchAssumption, secret \in Elements, NEW m \in [Idx -> Nat], NEW a \in Elements,
         NEW e \in Elements, NEW k \in Nat
  PROVE  Fresh(m, Scaled(a, k), e) \in CtsOf(Q)
<1>1. Q \in Nat \ {0} /\ P \in Nat \ {0}
  BY ConstantFacts
<1>2. PICK c \in Elements : c = Scaled(a, k)
  <2>1. PICK x \in Nat : x = k % Q
    <3>1. k % Q \in Nat
      BY ONLY <1>1, k \in Nat
    <3>2. QED
      BY ONLY <3>1
  <2>2. ASSUME NEW i \in Idx
        PROVE  (a[i] * x) % Q \in Residue
    <3>1. PICK y \in Nat : y = a[i]
      BY ONLY <1>1, a \in Elements, i \in Idx DEF Elements, Residue
    <3>2. PICK z \in Nat : z = y * x
      BY ONLY x \in Nat, y \in Nat
    <3>3. z % Q \in 0 .. Q - 1
      BY ONLY <1>1, z \in Nat
    <3>4. QED
      BY ONLY <3>1, <3>2, <3>3 DEF Residue
  <2>3. Scaled(a, k) = [i \in Idx |-> (a[i] * x) % Q]
    BY ONLY <2>1 DEF Scaled
  <2>4. QED
    BY ONLY <2>2, <2>3 DEF Elements
<1> DEFINE b == Plus(Minus(e, Times(c, secret)), Scaled(m, Q \div P))
<1>3. b \in Elements
  <2>1. ASSUME NEW i \in Idx
        PROVE  b[i] \in Residue
    <3>1. PICK x \in Int, y \in Int : x = e[i] /\ y = Times(c, secret)[i]
      <4>1. Times(c, secret)[i] \in Int
        BY ProductTyped
      <4>2. e[i] \in Int
        BY ONLY <1>1, e \in Elements, i \in Idx DEF Elements, Residue
      <4>3. QED
        BY ONLY <4>1, <4>2
    <3>2. PICK z \in Int : z = Minus(e, Times(c, secret))[i]
      <4>1. PICK w \in Int : w = x - y
        BY ONLY x \in Int, y \in Int
      <4>2. w % Q \in Int
        BY ONLY <1>1, w \in Int
      <4>3. Minus(e, Times(c, secret))[i] = w % Q
        BY ONLY <3>1, <4>1, i \in Idx DEF Minus
      <4>4. QED
        BY ONLY <4>2, <4>3
    <3>3. PICK s \in Int : s = Scaled(m, Q \div P)[i]
      <4>1. PICK d \in Nat : d = Q \div P
        <5>1. Q \div P \in Nat
          BY ONLY <1>1
        <5>2. QED
          BY ONLY <5>1
      <4>2. PICK g \in Nat, f \in Nat : g = d % Q /\ f = m[i]
        <5>1. d % Q \in Nat
          BY ONLY <1>1, d \in Nat
        <5>2. QED
          BY ONLY <5>1, m \in [Idx -> Nat], i \in Idx
      <4>3. PICK w \in Int : w = f * g
        BY ONLY f \in Nat, g \in Nat
      <4>4. w % Q \in Int
        BY ONLY <1>1, w \in Int
      <4>5. Scaled(m, Q \div P)[i] = w % Q
        BY ONLY <4>1, <4>2, <4>3, i \in Idx DEF Scaled
      <4>6. QED
        BY ONLY <4>4, <4>5
    <3>4. PICK w \in Int : w = z + s
      BY ONLY z \in Int, s \in Int
    <3>5. w % Q \in 0 .. Q - 1
      BY ONLY <1>1, w \in Int
    <3>6. b[i] = w % Q
      BY ONLY <3>2, <3>3, <3>4, i \in Idx DEF Plus
    <3>7. QED
      BY ONLY <3>5, <3>6 DEF Residue
  <2>2. b = [i \in Idx |-> b[i]]
    BY ONLY Zenon DEF Plus
  <2> HIDE DEF b
  <2>3. QED
    BY ONLY <2>1, <2>2 DEF Elements
<1>4. Fresh(m, Scaled(a, k), e) = [a |-> c, b |-> b]
  BY ONLY <1>2 DEF Fresh, Ct
<1> HIDE DEF b
<1>5. QED
  BY ONLY <1>2, <1>3, <1>4 DEF CtsOf, PolysOf, Elements, Residue

\* The first answer has its invariant.
LEMMA SwitchInitInv ==
  ASSUME SwitchAssumption, SwitchInit
  PROVE  SwitchInv
<1>1. Q \in Nat \ {0} /\ P \in Nat \ {0} /\ Q \in Used
  BY ConstantFacts DEF Used
<1>2. secret \in Elements /\ message \in [Idx -> 0 .. P - 1]
  BY DEF SwitchInit, SwitchAssumption
<1>3. PICK a \in Masks, e \in Errors, columns \in Columns :
        answer = [modulus |-> Q, limbs |-> SourceLimbs,
                  mode |-> IF columns = 0 THEN "inspiring" ELSE "none",
                  cts |-> [i \in 1 .. columns + 1 |->
                             Fresh(IF i = 1 THEN message ELSE Zero, Scaled(a, i), e)]]
  BY Zenon DEF SwitchInit
<1>4. a \in Elements /\ e \in Elements /\ columns \in Nat
  BY DEF SwitchAssumption
<1>5. PICK length \in Nat \ {0} : length = columns + 1
  BY ONLY <1>4
<1> DEFINE cts == [i \in 1 .. length |-> Fresh(IF i = 1 THEN message ELSE Zero, Scaled(a, i), e)]
<1>6. answer.modulus = Q /\ answer.cts = cts
      /\ answer = [modulus |-> answer.modulus, limbs |-> answer.limbs, mode |-> answer.mode,
                   cts |-> answer.cts]
  <2> HIDE DEF cts
  <2>1. PICK m : answer = [modulus |-> Q, limbs |-> SourceLimbs, mode |-> m, cts |-> cts]
    BY ONLY <1>3, <1>5 DEF cts
  <2>2. QED
    BY ONLY <2>1
<1>7. \A i \in 1 .. length : cts[i] \in CtsOf(Q)
  <2>1. SUFFICES ASSUME NEW i \in 1 .. length
                 PROVE  cts[i] \in CtsOf(Q)
    OBVIOUS
  <2>2. PICK m \in [Idx -> Nat] : m = IF i = 1 THEN message ELSE Zero
    <3>1. message \in [Idx -> Nat]
      BY ONLY <1>1, <1>2
    <3>2. Zero \in [Idx -> Nat]
      BY ONLY 0 \in Nat DEF Zero
    <3>3. QED
      BY ONLY <3>1, <3>2
  <2>3. cts[i] = Fresh(m, Scaled(a, i), e)
    BY ONLY <2>2, i \in 1 .. length
  <2>4. i \in Nat
    BY ONLY i \in 1 .. length, length \in Nat
  <2>5. QED
    BY ONLY <1>2, <1>4, <2>3, <2>4, m \in [Idx -> Nat], SwitchAssumption, FreshTyped
<1>8. cts \in [1 .. length -> CtsOf(Q)]
  <2>1. cts = [i \in 1 .. length |-> cts[i]]
    BY ONLY Zenon
  <2> HIDE DEF cts
  <2>2. QED
    BY ONLY <1>7, <2>1
<1> HIDE DEF cts
<1>9. Len(cts) = length
  BY ONLY <1>8, length \in Nat
<1>10. AnswerTyped(answer)
  BY ONLY <1>1, <1>6, <1>8, <1>9, length \in Nat \ {0} DEF AnswerTyped
<1>11. WireInv
  BY DEF SwitchInit, WireInv
<1>12. OffInv
  <2>1. answer.cts[1] \in CtsOf(Q)
    BY ONLY <1>6, <1>7, length \in Nat \ {0}
  <2>2. bound = Largest(Off(answer.cts[1], Q, message))
    BY DEF SwitchInit
  <2>3. /\ Largest(Off(answer.cts[1], Q, message)) \in Nat
        /\ \A i \in Idx : OffAt(answer.cts[1], Q, message, i) <= Largest(Off(answer.cts[1], Q, message))
    BY ONLY <1>1, <1>2, <2>1, SwitchAssumption, LargestOff
  <2>4. QED
    BY ONLY <1>6, <2>2, <2>3 DEF OffInv
<1>13. QED
  BY ONLY <1>2, <1>10, <1>11, <1>12 DEF SwitchInv

\* mod_switch_response: the switched answer.
LEMMA SwitchStep ==
  ASSUME SwitchAssumption, SwitchInv, NEW to \in Targets, NEW checked \in BOOLEAN, Switch(to, checked)
  PROVE  SwitchInv'
<1>1. to \in Nat \ {0} /\ to \in Used /\ P \in Nat \ {0} /\ N \in Nat \ {0}
  BY ConstantFacts DEF Used
<1>2. secret \in Elements /\ message \in [Idx -> 0 .. P - 1] /\ AnswerTyped(answer) /\ WireInv /\ OffInv
  BY DEF SwitchInv
<1>3. PICK from \in Nat \ {0}, length \in Nat \ {0} :
        /\ from = answer.modulus /\ length = Len(answer.cts)
        /\ answer.cts \in [1 .. length -> CtsOf(from)]
  <2>1. answer.modulus \in Nat \ {0}
    BY <1>2, ConstantFacts DEF AnswerTyped
  <2>2. QED
    BY ONLY <1>2, <2>1 DEF AnswerTyped
<1>4. PICK cts : cts = [i \in 1 .. length |-> SwitchCt(answer.cts[i], from, to)]
  OBVIOUS
<1>5. answer' = [modulus |-> to, limbs |-> 1, mode |-> answer.mode, cts |-> cts]
  <2>1. answer' = [[[answer EXCEPT !.modulus = to] EXCEPT !.limbs = 1] EXCEPT
                     !.cts = [i \in DOMAIN answer.cts |-> SwitchCt(answer.cts[i], from, to)]]
    BY ONLY <1>3, Switch(to, checked) DEF Switch
  <2>2. DOMAIN answer.cts = 1 .. length
    BY ONLY <1>3
  <2>3. answer' = [[[answer EXCEPT !.modulus = to] EXCEPT !.limbs = 1] EXCEPT !.cts = cts]
    BY ONLY <1>4, <2>1, <2>2
  <2>4. PICK m, l, d, c : answer = [modulus |-> m, limbs |-> l, mode |-> d, cts |-> c] /\ d = answer.mode
    BY ONLY <1>2 DEF AnswerTyped
  <2>5. QED
    BY ONLY <2>3, <2>4
<1>6. \A i \in 1 .. length : \E a \in PolysOf(from), b \in PolysOf(from) :
        answer.cts[i] = Ct(a, b) /\ cts[i] = SwitchCt(Ct(a, b), from, to) /\ cts[i] \in CtsOf(to)
  <2>1. SUFFICES ASSUME NEW i \in 1 .. length
                 PROVE  \E a \in PolysOf(from), b \in PolysOf(from) :
                          /\ answer.cts[i] = Ct(a, b) /\ cts[i] = SwitchCt(Ct(a, b), from, to)
                          /\ cts[i] \in CtsOf(to)
    OBVIOUS
  <2>2. answer.cts[i] \in CtsOf(from) /\ cts[i] = SwitchCt(answer.cts[i], from, to)
    BY ONLY <1>3, <1>4, i \in 1 .. length
  <2>3. PICK a \in PolysOf(from), b \in PolysOf(from) : answer.cts[i] = Ct(a, b)
    BY ONLY <2>2 DEF CtsOf, Ct
  <2>4. SwitchPoly(a, from, to) \in PolysOf(to) /\ SwitchPoly(b, from, to) \in PolysOf(to)
    BY ONLY <1>1, from \in Nat \ {0}, a \in PolysOf(from), b \in PolysOf(from), SwitchedPoly
  <2>5. SwitchCt(Ct(a, b), from, to) \in CtsOf(to)
    BY ONLY <2>4 DEF SwitchCt, Ct, CtsOf
  <2>6. QED
    BY ONLY <2>2, <2>3, <2>5
<1>7. cts \in [1 .. length -> CtsOf(to)] /\ Len(cts) = length
  <2>1. \A i \in 1 .. length : cts[i] \in CtsOf(to)
    BY ONLY <1>6
  <2>2. cts \in [1 .. length -> CtsOf(to)]
    <3>1. cts = [i \in 1 .. length |-> cts[i]]
      BY ONLY <1>4, Zenon
    <3>2. QED
      BY ONLY <2>1, <3>1
  <2>3. QED
    BY ONLY <2>2, length \in Nat
<1>8. answer'.modulus = to /\ answer'.cts = cts /\ answer'.limbs = 1
  BY ONLY <1>5
<1>9. AnswerTyped(answer)'
  <2>1. answer' = [modulus |-> answer'.modulus, limbs |-> answer'.limbs, mode |-> answer'.mode,
                   cts |-> answer'.cts]
    BY ONLY <1>5
  <2>2. QED
    BY ONLY <1>1, <1>7, <1>8, <2>1, length \in Nat \ {0} DEF AnswerTyped
<1>10. WireInv'
  <2>1. wire = None /\ wire' = wire /\ received' = received
    BY ONLY Switch(to, checked) DEF Switch
  <2>2. received = None
    BY ONLY <1>2, <2>1 DEF WireInv
  <2>3. QED
    BY ONLY <2>1, <2>2, Zenon DEF WireInv, None
<1>11. secret' = secret /\ message' = message
  BY ONLY Switch(to, checked) DEF Switch
<1>12. OffInv'
  <2>1. PICK r \in Nat : r = 1 + N * LargestSize(secret)
    <3>1. PICK l \in Nat : l = LargestSize(secret)
      BY <1>2, SizesBounded
    <3>2. 1 + N * l \in Nat
      BY ONLY <1>1, l \in Nat
    <3>3. QED
      BY ONLY <3>1, <3>2
  <2>2. bound' = (2 * to * bound + from * (P * r) + 2 * from - 1) \div (2 * from)
    BY ONLY <1>3, <2>1, Switch(to, checked) DEF Switch
  <2>3. PICK b \in Nat : b = bound /\ \A i \in Idx : OffAt(answer.cts[1], from, message, i) <= b
    BY ONLY <1>2, <1>3 DEF OffInv
  <2>4. 1 \in 1 .. length
    BY ONLY length \in Nat \ {0}
  <2>5. PICK a \in PolysOf(from), c \in PolysOf(from) :
          answer.cts[1] = Ct(a, c) /\ cts[1] = SwitchCt(Ct(a, c), from, to) /\ cts[1] \in CtsOf(to)
    BY ONLY <1>6, <2>4
  <2>6. ASSUME NEW i \in Idx
        PROVE  bound' \in Nat /\ OffAt(cts[1], to, message, i) <= bound'
    <3>1. PICK x \in Int, x2 \in Int, m \in Int, f \in Nat \ {0}, t \in Nat \ {0}, p \in Nat \ {0} :
            /\ x = Phase(Ct(a, c), from)[i] /\ x2 = Phase(cts[1], to)[i] /\ m = message[i]
            /\ f = from /\ t = to /\ p = P
      <4>1. Phase(Ct(a, c), from)[i] \in 0 .. from - 1
        BY ONLY <1>2, from \in Nat \ {0}, a \in PolysOf(from), c \in PolysOf(from), i \in Idx,
                SwitchAssumption, PhaseSums
      <4>2. PICK a2 \in PolysOf(to), c2 \in PolysOf(to) : cts[1] = Ct(a2, c2)
        BY ONLY <2>5 DEF CtsOf, Ct
      <4>3. Phase(Ct(a2, c2), to)[i] \in 0 .. to - 1
        BY ONLY <1>1, <1>2, a2 \in PolysOf(to), c2 \in PolysOf(to), i \in Idx, SwitchAssumption,
                PhaseSums
      <4>4. message[i] \in Int
        BY ONLY <1>1, <1>2, i \in Idx
      <4>5. Phase(Ct(a, c), from)[i] \in Int /\ Phase(cts[1], to)[i] \in Int
        BY ONLY <1>1, <4>1, <4>2, <4>3, from \in Nat
      <4>6. QED
        BY ONLY <1>1, <4>4, <4>5, from \in Nat \ {0}
    <3>2. Scales(x2, x, f * r, f, t)
      <4>1. Scales(Phase(SwitchCt(Ct(a, c), from, to), to)[i], Phase(Ct(a, c), from)[i],
                   from * (1 + N * LargestSize(secret)), from, to)
        BY ONLY <1>1, <1>2, from \in Nat \ {0}, a \in PolysOf(from), c \in PolysOf(from), i \in Idx,
                SwitchAssumption, PhaseScales
      <4>2. QED
        BY ONLY <2>1, <2>5, <3>1, <4>1
    <3>3. Distance(p * x - m * f, p * f) <= b
      BY ONLY <2>3, <2>5, <3>1, i \in Idx DEF OffAt
    <3>4. PICK b2 : b2 = bound' /\ b2 = (2 * t * b + f * (p * r) + 2 * f - 1) \div (2 * f)
      BY ONLY <2>2, <2>3, <3>1
    <3>5. b2 \in Nat /\ Distance(p * x2 - m * t, p * t) <= b2
      BY ONLY <3>2, <3>3, <3>4, p \in Nat \ {0}, f \in Nat \ {0}, t \in Nat \ {0}, r \in Nat,
              m \in Int, x \in Int, x2 \in Int, b \in Nat, ErrorScales
    <3>6. QED
      BY ONLY <3>1, <3>4, <3>5 DEF OffAt
  <2>7. 0 \in Idx
    BY ONLY <1>1 DEF Idx
  <2>8. \A i \in Idx : OffAt(cts[1], to, message, i)' = OffAt(cts[1], to, message, i)
    BY ONLY <1>11, <2>7 DEF OffAt, Phase
  <2>9. QED
    BY ONLY <1>8, <1>11, <2>6, <2>7, <2>8 DEF OffInv
<1>13. QED
  BY ONLY <1>2, <1>9, <1>10, <1>11, <1>12 DEF SwitchInv

\* No step disturbs it.
LEMMA SwitchNextInv ==
  ASSUME SwitchAssumption, PowersOfTwoDouble, SwitchInv, [SwitchNext]_switchVars
  PROVE  SwitchInv'
<1>1. secret \in Elements /\ message \in [Idx -> 0 .. P - 1] /\ AnswerTyped(answer) /\ WireInv /\ OffInv
  BY DEF SwitchInv
<1>2. CASE Encode
  <2>1. /\ wire = None /\ answer.limbs = 1 /\ wire' = Encoded(answer) /\ answer' = answer
        /\ received' = received /\ secret' = secret /\ message' = message /\ bound' = bound
    BY ONLY <1>2 DEF Encode
  <2>2. received = None
    BY ONLY <1>1, <2>1 DEF WireInv
  <2>3. WireInv'
    BY ONLY <2>1, <2>2 DEF WireInv, None
  <2>4. AnswerTyped(answer)' /\ OffInv'
    BY ONLY <1>1, <2>1 DEF AnswerTyped, OffInv, OffAt, Phase
  <2>5. QED
    BY ONLY <1>1, <2>1, <2>3, <2>4 DEF SwitchInv
<1>3. CASE Decode
  <2>1. /\ wire # None /\ received' = Decoded(wire) /\ wire' = wire /\ answer' = answer
        /\ secret' = secret /\ message' = message /\ bound' = bound
    BY ONLY <1>3 DEF Decode
  <2>2. wire = Encoded(answer) /\ answer.limbs = 1
    BY ONLY <1>1, <2>1 DEF WireInv
  <2>3. Decoded(wire) = answer
    BY ONLY <1>1, <2>2, SwitchAssumption, PowersOfTwoDouble, RoundTrip
  <2>4. WireInv'
    BY ONLY <2>1, <2>2, <2>3 DEF WireInv, None
  <2>5. AnswerTyped(answer)' /\ OffInv'
    BY ONLY <1>1, <2>1 DEF AnswerTyped, OffInv, OffAt, Phase
  <2>6. QED
    BY ONLY <1>1, <2>1, <2>4, <2>5 DEF SwitchInv
<1>4. ASSUME NEW to \in Targets, NEW checked \in BOOLEAN, Switch(to, checked)
      PROVE  SwitchInv'
  BY ONLY <1>4, SwitchAssumption, SwitchInv, SwitchStep
<1>5. CASE UNCHANGED switchVars
  <2>1. /\ secret' = secret /\ message' = message /\ answer' = answer /\ wire' = wire
        /\ received' = received /\ bound' = bound
    BY ONLY <1>5 DEF switchVars
  <2>2. AnswerTyped(answer)' /\ OffInv' /\ WireInv'
    BY ONLY <1>1, <2>1 DEF AnswerTyped, OffInv, OffAt, Phase, WireInv, None
  <2>3. QED
    BY ONLY <1>1, <2>1, <2>2 DEF SwitchInv
<1>6. QED
  BY ONLY <1>2, <1>3, <1>4, <1>5, [SwitchNext]_switchVars DEF SwitchNext

\* What the invariant says of the answer.
LEMMA InvariantReads ==
  ASSUME SwitchAssumption, SwitchInv
  PROVE  SwitchedAnswersSound
<1>1. secret \in Elements /\ message \in [Idx -> 0 .. P - 1] /\ AnswerTyped(answer) /\ WireInv /\ OffInv
  BY DEF SwitchInv
<1>2. PICK p \in Nat \ {0}, q \in Nat \ {0} : p = P /\ q = answer.modulus
  <2>1. P \in Nat \ {0} /\ answer.modulus \in Nat \ {0}
    BY <1>1, ConstantFacts DEF AnswerTyped
  <2>2. QED
    BY ONLY <2>1
<1>3. PICK ct \in CtsOf(q) : ct = answer.cts[1]
  <2>1. answer.cts[1] \in CtsOf(q)
    BY ONLY <1>1, <1>2 DEF AnswerTyped
  <2>2. QED
    BY ONLY <2>1
<1>4. /\ Largest(Off(ct, q, message)) \in Nat
      /\ \A i \in Idx : Phase(ct, q)[i] \in 0 .. q - 1 /\ OffAt(ct, q, message, i) \in Nat
      /\ \E i \in Idx : Largest(Off(ct, q, message)) = OffAt(ct, q, message, i)
  BY ONLY <1>1, SwitchAssumption, q \in Nat \ {0}, ct \in CtsOf(q), LargestOff
<1>5. PICK b \in Nat : b = bound /\ \A i \in Idx : OffAt(ct, q, message, i) <= b
  BY ONLY <1>1, <1>2, <1>3 DEF OffInv
<1>6. ErrorWithinBound
  BY ONLY <1>2, <1>3, <1>4, <1>5 DEF ErrorWithinBound
<1>7. SwitchedReadsRight
  <2>1. SUFFICES ASSUME 2 * (bound + (P - 1) * (answer.modulus % P)) < P * (answer.modulus \div P),
                        Readable(answer)
                 PROVE  Extracted(answer) = message
    BY Zenon DEF SwitchedReadsRight
  <2>2. PICK dl \in Nat \ {0} : dl = q \div p
    <3>1. q \div p \in Nat /\ q \div p > 0
      BY ONLY <1>2, <2>1, p \in Nat \ {0}, q \in Nat \ {0} DEF Readable
    <3>2. QED
      BY ONLY <3>1
  <2>3. 2 * (b + (p - 1) * (q % p)) < p * (q \div p)
    BY ONLY <1>2, <1>5, <2>1
  <2>4. ASSUME NEW i \in Idx
        PROVE  ((Phase(ct, q)[i] + dl \div 2) \div dl) % P = message[i]
    <3>1. PICK v \in 0 .. q - 1, m \in 0 .. p - 1 : v = Phase(ct, q)[i] /\ m = message[i]
      BY ONLY <1>1, <1>2, <1>4, i \in Idx
    <3>2. Distance(p * v - m * q, p * q) <= b
      BY ONLY <1>2, <1>5, <3>1, i \in Idx DEF OffAt
    <3>3. ((v + dl \div 2) \div dl) % p = m
      BY ONLY <2>2, <2>3, <3>2, p \in Nat \ {0}, q \in Nat \ {0}, dl \in Nat \ {0}, m \in 0 .. p - 1,
              v \in 0 .. q - 1, b \in Nat, RoundingReads
    <3>4. QED
      BY ONLY <1>2, <3>1, <3>3
  <2>5. Extracted(answer) = [i \in Idx |-> ((Phase(ct, q)[i] + dl \div 2) \div dl) % P]
    BY ONLY <1>2, <1>3, <2>2 DEF Extracted
  <2>6. message = [i \in Idx |-> message[i]]
    BY ONLY <1>1
  <2>7. QED
    BY ONLY <2>4, <2>5, <2>6
<1>8. ReceivedAsSent
  BY ONLY <1>1 DEF WireInv, ReceivedAsSent
<1>9. QED
  BY ONLY <1>6, <1>7, <1>8 DEF SwitchedAnswersSound

\* SwitchedAnswersSound (mod_switch.rs): over any number of switches, gated or not, the
\* error of an answer stays within its bound, an answer whose bound leaves room is read
\* as the message, and what is decoded is what was encoded.
THEOREM SwitchedAnswersStaySound ==
  ASSUME SwitchAssumption, PowersOfTwoDouble
  PROVE  SwitchSpec => []SwitchedAnswersSound
<1>1. SwitchInit => SwitchInv
  BY SwitchInitInv
<1>2. SwitchInv /\ [SwitchNext]_switchVars => SwitchInv'
  BY SwitchNextInv
<1>3. SwitchInv => SwitchedAnswersSound
  BY InvariantReads
<1>4. QED
  BY <1>1, <1>2, <1>3, PTL DEF SwitchSpec
=============================================================================
