----------------------------- MODULE NoiseProofs ----------------------------
(***************************************************************************)
(* Errors: what they grow to in sequences of operations on ciphertexts,    *)
(* for every ring dimension, moduli, gadget, keys and masks; and that they *)
(* are drawn as the sampler over floats drew them.                         *)
(*                                                                         *)
(* The argument about ciphertexts: the operations of the ring are those of *)
(* integer polynomials modulo X^N + 1, reduced; these form a ring with     *)
(* automorphisms, because the terms of a product are a window upon a       *)
(* periodic function. A pair carries a polynomial under a key when its     *)
(* phase, before it is reduced, is the polynomial up to a bounded error    *)
(* and multiples of Q. Digits put a polynomial together again, so that     *)
(* products with rows carry what the rows do, times that polynomial. A     *)
(* plaintext that wraps moves the remainder of Q by P into the error. The  *)
(* inductive invariant IInv says of every row what it carries and of every *)
(* register what it holds within its bound; decryption follows from the    *)
(* bound.                                                                  *)
(*                                                                         *)
(* The argument about the sampler: the numbers that patterns stand for     *)
(* grow with the patterns, because those of one exponent lie between two   *)
(* powers of two and grow with the fraction; the table holds the pattern   *)
(* of every candidate once; the modulus leaves room for the tail on both   *)
(* sides of the sign bit.                                                  *)
(***************************************************************************)
EXTENDS RlweSteps, Sampler, ArithmeticLemmas

-----------------------------------------------------------------------------
(* Patterns and the numbers they stand for                                 *)

\* What is used of the powers of two.
LEMMA ScalePowers ==
  ASSUME SamplerAssumption, PowersDouble
  PROVE  /\ \A k \in 0 .. OneExponent : 2 ^ k = TwoTo(k)
         /\ FloatScale \in Nat \ {0} /\ OneExponent \in Nat /\ OneExponent >= 1 /\ One \in Nat
<1>1. Mantissa \in Nat /\ OneExponent \in Nat /\ OneExponent >= 1
  BY DEF SamplerAssumption
<1>2. PICK n \in Nat : n = Mantissa + OneExponent
  BY ONLY <1>1
<1> DEFINE T == {k \in 0 .. n : 2 ^ k = TwoTo(k)}
<1>3. 0 \in T
  <2>1. 2 ^ 0 = 1 /\ TwoTo(0) = 1 /\ 0 \in 0 .. n
    BY TwoToStep DEF PowersDouble
  <2>2. QED
    BY ONLY <2>1
<1>4. ASSUME NEW k \in 0 .. n, k # n, k \in T
      PROVE  k + 1 \in T
  <2>1. k + 1 \in 0 .. n /\ k \in Nat
    BY ONLY <1>4, n \in Nat
  <2>2. 2 ^ (k + 1) = 2 * 2 ^ k
    BY ONLY <1>2, <1>4, PowersDouble DEF PowersDouble
  <2>3. PICK z \in Nat : z = TwoTo(k) /\ TwoTo(k + 1) = z * 2
    BY ONLY <2>1, TwoToStep
  <2>4. 2 ^ (k + 1) = TwoTo(k + 1)
    BY ONLY <1>4, <2>2, <2>3, z \in Nat
  <2>5. QED
    BY ONLY <2>1, <2>4
<1> HIDE DEF T
<1>5. \A k \in 0 .. n : k \in T
  BY ONLY <1>3, <1>4, n \in Nat, Induction
<1>6. \A k \in 0 .. OneExponent : 2 ^ k = TwoTo(k)
  <2>1. \A k \in 0 .. OneExponent : k \in 0 .. n
    BY ONLY <1>1, <1>2
  <2>2. QED
    BY ONLY <1>5, <2>1 DEF T
<1>7. PICK m \in Nat, z \in Nat : m = Mantissa /\ FloatScale = z /\ z >= 1
  <2>1. Mantissa \in 0 .. n
    BY ONLY <1>1, <1>2
  <2>2. FloatScale = TwoTo(Mantissa)
    BY ONLY <1>5, <2>1 DEF T, FloatScale
  <2>3. TwoTo(Mantissa) \in Nat /\ TwoTo(Mantissa) >= 1
    BY ONLY <1>1, TwoToStep
  <2>4. QED
    BY ONLY <1>1, <2>2, <2>3
<1>8. PICK e \in Nat : e = OneExponent
  BY ONLY <1>1
<1>9. e * z \in Nat
  BY ONLY e \in Nat, z \in Nat
<1>10. QED
  BY ONLY <1>1, <1>6, <1>7, <1>8, <1>9, z \in Nat DEF One

\* A pattern has an exponent and a fraction.
LEMMA PatternParts ==
  ASSUME SamplerAssumption, PowersDouble, NEW b \in Patterns
  PROVE  \E e \in 0 .. OneExponent, f \in 0 .. FloatScale - 1 :
           /\ e = b \div FloatScale /\ f = b % FloatScale /\ b = FloatScale * e + f
<1>1. PICK z \in Nat \ {0}, o \in Nat : z = FloatScale /\ o = OneExponent /\ One = o * z
  BY ScalePowers DEF One
<1>2. b \in Nat /\ b <= o * z
  <2>1. o * z \in Nat
    BY ONLY o \in Nat, z \in Nat \ {0}
  <2>2. b \in 0 .. o * z
    BY ONLY <1>1, b \in Patterns DEF Patterns
  <2>3. QED
    BY ONLY <2>1, <2>2
<1>3. PICK e \in Nat, f \in 0 .. z - 1 : e = b \div z /\ f = b % z /\ b = z * e + f
  <2>1. b \in Int
    BY ONLY <1>2
  <2>2. b = z * (b \div z) + (b % z) /\ b % z \in 0 .. z - 1
    BY ONLY <2>1, z \in Nat \ {0}, DivMod
  <2>3. b \div z \in Nat
    BY ONLY <1>2, z \in Nat \ {0}
  <2>4. QED
    BY ONLY <2>2, <2>3
<1>4. e <= o
  <2>1. ASSUME e > o
        PROVE  FALSE
    <3>1. PICK d \in Nat : e = o + d + 1
      <4>1. e - o - 1 \in Nat /\ e = o + (e - o - 1) + 1
        BY ONLY <2>1, e \in Nat, o \in Nat
      <4>2. QED
        BY ONLY <4>1
    <3>2. z * (o + d + 1) = o * z + z * d + z /\ z * d \in Nat /\ o * z \in Nat
      BY ONLY z \in Nat \ {0}, o \in Nat, d \in Nat
    <3>3. QED
      BY ONLY <1>2, <1>3, <3>1, <3>2, z \in Nat \ {0}, f \in 0 .. z - 1
  <2>2. QED
    BY ONLY <2>1, e \in Nat, o \in Nat
<1>5. e \in 0 .. o
  BY ONLY <1>4, e \in Nat, o \in Nat
<1>6. QED
  BY ONLY <1>1, <1>3, <1>5

\* The numbers of one exponent lie below the power of two that those of the next reach.
LEMMA ValueBounds ==
  ASSUME SamplerAssumption, PowersDouble, NEW b \in Patterns, NEW e, e = b \div FloatScale
  PROVE  /\ Value(b) \in Nat /\ Value(b) < FloatScale * TwoTo(e)
         /\ e # 0 => FloatScale * TwoTo(e - 1) <= Value(b)
<1>1. PICK f \in 0 .. FloatScale - 1 : f = b % FloatScale /\ e \in 0 .. OneExponent
  BY PatternParts
<1>2. PICK z \in Nat \ {0} : z = FloatScale /\ e \in Nat /\ \A k \in 0 .. OneExponent : 2 ^ k = TwoTo(k)
  BY <1>1, ScalePowers
<1>3. f \in Nat /\ f < z
  BY ONLY <1>2, f \in 0 .. FloatScale - 1, z \in Nat \ {0}
<1>4. CASE e = 0
  <2>1. Value(b) = f
    BY ONLY <1>1, <1>4, e = b \div FloatScale DEF Value
  <2>2. TwoTo(e) = 1 /\ z * 1 = z
    BY ONLY <1>4, z \in Nat \ {0}, TwoToStep
  <2>3. QED
    BY ONLY <1>2, <1>3, <1>4, <2>1, <2>2
<1>5. CASE e # 0
  <2>1. PICK d \in Nat : d = e - 1 /\ e = d + 1 /\ d \in 0 .. OneExponent
    <3>1. e - 1 \in Nat /\ e = (e - 1) + 1 /\ e - 1 \in 0 .. OneExponent
      BY ONLY <1>1, <1>2, <1>5, SamplerAssumption DEF SamplerAssumption
    <3>2. QED
      BY ONLY <3>1
  <2>2. PICK p \in Nat : p = TwoTo(d) /\ p >= 1 /\ TwoTo(e) = p * 2
    BY ONLY <2>1, TwoToStep
  <2>3. Value(b) = (z + f) * p
    BY ONLY <1>1, <1>2, <1>5, <2>1, <2>2, e = b \div FloatScale DEF Value
  <2>4. PICK g \in Nat : z = f + g + 1
    <3>1. z - f - 1 \in Nat /\ z = f + (z - f - 1) + 1
      BY ONLY <1>3, z \in Nat \ {0}
    <3>2. QED
      BY ONLY <3>1
  <2>5. (z + f) * p = z * p + f * p /\ z * (p * 2) = z * p + z * p
    BY ONLY z \in Nat \ {0}, f \in 0 .. FloatScale - 1, <1>3, p \in Nat
  <2>6. (f + g + 1) * p = f * p + g * p + p
    BY ONLY <1>3, g \in Nat, p \in Nat
  <2>7. z * p \in Nat /\ f * p \in Nat /\ g * p \in Nat
    BY ONLY <1>3, z \in Nat \ {0}, g \in Nat, p \in Nat
  <2>8. z * p = f * p + g * p + p
    BY ONLY <2>4, <2>6
  <2>9. (z + f) * p \in Nat /\ (z + f) * p < z * (p * 2) /\ z * p <= (z + f) * p
    BY ONLY <2>2, <2>5, <2>7, <2>8, p \in Nat
  <2>10. QED
    BY ONLY <1>2, <2>1, <2>2, <2>3, <2>9
<1>6. QED
  BY ONLY <1>4, <1>5

\* accept_bits: patterns compare as the numbers they stand for.
LEMMA ValueGrows ==
  ASSUME SamplerAssumption, PowersDouble, NEW b \in Patterns, NEW c \in Patterns, b < c
  PROVE  Value(b) < Value(c)
<1>1. PICK d \in 0 .. OneExponent, f \in 0 .. FloatScale - 1 :
        d = b \div FloatScale /\ f = b % FloatScale /\ b = FloatScale * d + f
  BY PatternParts
<1>2. PICK e \in 0 .. OneExponent, g \in 0 .. FloatScale - 1 :
        e = c \div FloatScale /\ g = c % FloatScale /\ c = FloatScale * e + g
  BY PatternParts
<1>3. PICK z \in Nat \ {0}, o \in Nat : z = FloatScale /\ o = OneExponent
  BY ScalePowers
<1>4. d \in Nat /\ e \in Nat /\ f \in Nat /\ g \in Nat /\ f < z /\ g < z
  BY ONLY <1>3, d \in 0 .. OneExponent, e \in 0 .. OneExponent, f \in 0 .. FloatScale - 1,
     g \in 0 .. FloatScale - 1, z \in Nat \ {0}, o \in Nat
<1>5. CASE d = e
  <2>1. f < g
    <3>1. z * d \in Nat
      BY ONLY <1>4, z \in Nat \ {0}
    <3>2. QED
      BY ONLY <1>1, <1>2, <1>3, <1>4, <1>5, <3>1, b < c
  <2>2. CASE e = 0
    BY ONLY <1>1, <1>2, <1>5, <2>1, <2>2 DEF Value
  <2>3. CASE e # 0
    <3>1. e - 1 \in 0 .. OneExponent /\ e - 1 \in Nat
      BY ONLY <1>3, <1>4, <2>3, e \in 0 .. OneExponent, o \in Nat
    <3>2. 2 ^ (e - 1) = TwoTo(e - 1)
      BY <3>1, ScalePowers
    <3>3. PICK p \in Nat : p = 2 ^ (e - 1) /\ p >= 1
      BY ONLY <3>1, <3>2, TwoToStep
    <3>4. Value(b) = (z + f) * p /\ Value(c) = (z + g) * p
      BY ONLY <1>1, <1>2, <1>3, <1>5, <2>3, <3>3 DEF Value
    <3>5. PICK h \in Nat : g = f + h + 1
      <4>1. g - f - 1 \in Nat /\ g = f + (g - f - 1) + 1
        BY ONLY <1>4, <2>1
      <4>2. QED
        BY ONLY <4>1
    <3>6. (z + (f + h + 1)) * p = (z + f) * p + h * p + p /\ h * p \in Nat /\ (z + f) * p \in Nat
      BY ONLY <1>4, z \in Nat \ {0}, h \in Nat, p \in Nat
    <3>7. QED
      BY ONLY <3>3, <3>4, <3>5, <3>6, p \in Nat
  <2>4. QED
    BY ONLY <2>2, <2>3
<1>6. CASE d # e
  <2>1. d < e
    <3>1. ASSUME e < d
          PROVE  FALSE
      <4>1. PICK h \in Nat : d = e + h + 1
        <5>1. d - e - 1 \in Nat /\ d = e + (d - e - 1) + 1
          BY ONLY <1>4, <3>1
        <5>2. QED
          BY ONLY <5>1
      <4>2. z * (e + h + 1) = z * e + z * h + z /\ z * e \in Nat /\ z * h \in Nat
        BY ONLY <1>4, z \in Nat \ {0}, h \in Nat
      <4>3. QED
        BY ONLY <1>1, <1>2, <1>3, <1>4, <4>1, <4>2, z \in Nat \ {0}, b < c
    <3>2. QED
      BY ONLY <1>4, <1>6, <3>1
  <2>2. PICK k \in Nat : k = e - 1 /\ d <= k
    <3>1. e - 1 \in Nat /\ d <= e - 1
      BY ONLY <1>4, <2>1
    <3>2. QED
      BY ONLY <3>1
  <2>3. Value(b) \in Nat /\ Value(b) < FloatScale * TwoTo(d)
    BY ONLY <1>1, SamplerAssumption, PowersDouble, b \in Patterns, ValueBounds
  <2>4. Value(c) \in Nat /\ FloatScale * TwoTo(k) <= Value(c)
    <3>1. e # 0
      BY ONLY <1>4, <2>1
    <3>2. QED
      BY ONLY <1>2, <2>2, <3>1, SamplerAssumption, PowersDouble, c \in Patterns, ValueBounds
  <2>5. PICK p \in Nat, q \in Nat : p = TwoTo(d) /\ q = TwoTo(k) /\ p <= q
    BY ONLY <1>4, <2>2, k \in Nat, TwoToStep, TwoToGrows
  <2>6. z * p <= z * q /\ z * p \in Nat /\ z * q \in Nat
    <3>1. PICK h \in Nat : q = p + h
      <4>1. q - p \in Nat /\ q = p + (q - p)
        BY ONLY <2>5, p \in Nat, q \in Nat
      <4>2. QED
        BY ONLY <4>1
    <3>2. z * (p + h) = z * p + z * h /\ z * h \in Nat /\ z * p \in Nat
      BY ONLY z \in Nat \ {0}, p \in Nat, h \in Nat
    <3>3. QED
      BY ONLY <3>1, <3>2
  <2>7. QED
    BY ONLY <1>3, <2>3, <2>4, <2>5, <2>6
<1>7. QED
  BY ONLY <1>5, <1>6
-----------------------------------------------------------------------------
(* The table and the lift                                                  *)

\* accept_threshold_table: the scan finds the probability of the candidate's magnitude.
LEMMA ThresholdReads ==
  ASSUME SamplerAssumption, accept = Table(curve), NEW y \in Candidates
  PROVE  ThresholdBits(y) = curve[Magnitude(y)] /\ Magnitude(y) \in 0 .. TailCut
<1>1. PICK n \in Nat : n = TailCut
  BY DEF SamplerAssumption
<1>2. y \in -n .. n
  BY ONLY <1>1, y \in Candidates DEF Candidates
<1>3. PICK i \in 1 .. 2 * n + 1 : i - 1 - n = y /\ \A j \in 1 .. 2 * n + 1 : j - 1 - n = y => j = i
  <2>1. y + n + 1 \in 1 .. 2 * n + 1 /\ (y + n + 1) - 1 - n = y
    BY ONLY <1>2, n \in Nat
  <2>2. \A j \in 1 .. 2 * n + 1 : j - 1 - n = y => j = y + n + 1
    BY ONLY <1>2, n \in Nat
  <2>3. QED
    BY ONLY <2>1, <2>2
<1>4. DOMAIN accept = 1 .. 2 * n + 1 /\ accept[i] = curve[Magnitude(i - 1 - n)]
  BY ONLY <1>1, i \in 1 .. 2 * n + 1, accept = Table(curve) DEF Table
<1> DEFINE matching == {j \in DOMAIN accept : j - 1 - TailCut = y}
<1>5. matching = {i}
  BY ONLY <1>1, <1>3, <1>4
<1>6. ThresholdBits(y) = IF matching = {} THEN 0 ELSE accept[CHOOSE j \in matching : TRUE]
  BY DEF ThresholdBits
<1> HIDE DEF matching
<1>7. ThresholdBits(y) = accept[i]
  <2>1. (CHOOSE j \in {i} : TRUE) = i
    OBVIOUS
  <2>2. matching # {}
    BY ONLY <1>5
  <2>3. QED
    BY ONLY <1>5, <1>6, <2>1, <2>2
<1>8. Magnitude(y) \in 0 .. n
  BY ONLY <1>2, n \in Nat DEF Magnitude
<1>9. QED
  BY ONLY <1>1, <1>3, <1>4, <1>7, <1>8

\* sample_vec_centered: the wrapping addition gives the residue.
LEMMA LiftReads ==
  ASSUME SamplerAssumption, NEW s \in Candidates
  PROVE  Lift(s) \in 0 .. Modulus - 1 /\ (Lift(s) - s) % Modulus = 0
<1>1. PICK n \in Nat, w \in Int, h \in Int, q \in Nat :
        n = TailCut /\ w = WordSpace /\ h = WordSpace \div 2 /\ q = Modulus /\ q > n /\ q <= h
        /\ w >= 2 * h /\ w <= 2 * h + 1 /\ w \in Nat \ {0}
  <2>1. TailCut \in Nat /\ Modulus \in (TailCut + 1) .. (WordSpace \div 2) /\ WordSpace \in Nat
    BY DEF SamplerAssumption
  <2>2. PICK v \in Nat : v = WordSpace
    BY ONLY <2>1
  <2>3. v \div 2 \in Nat /\ v >= 2 * (v \div 2) /\ v <= 2 * (v \div 2) + 1
    BY ONLY v \in Nat
  <2>4. Modulus \in Nat /\ Modulus > TailCut /\ Modulus <= v \div 2
    BY ONLY <2>1, <2>2, <2>3
  <2>5. v \in Nat \ {0}
    BY ONLY <2>1, <2>3, <2>4, v \in Nat
  <2>6. QED
    BY ONLY <2>1, <2>2, <2>3, <2>4, <2>5
<1>2. s \in Int /\ -n <= s /\ s <= n
  BY ONLY <1>1, s \in Candidates DEF Candidates
<1>3. q \in Nat \ {0}
  BY ONLY <1>1, n \in Nat, q \in Nat
<1>4. CASE s >= 0
  <2>1. s \in 0 .. w - 1 /\ s < h
    BY ONLY <1>1, <1>2, <1>4, n \in Nat, w \in Int, h \in Int, q \in Nat
  <2>2. s % w = s
    BY ONLY <1>1, <2>1, ModSmall
  <2>3. Lift(s) = s
    BY ONLY <1>1, <1>2, <2>1, <2>2, h \in Int DEF Lift, IsNegative, Word
  <2>4. s \in 0 .. q - 1 /\ s - s = 0
    BY ONLY <1>1, <1>2, <1>4, n \in Nat, q \in Nat
  <2>5. 0 % q = 0
    BY ONLY <1>3
  <2>6. QED
    BY ONLY <1>1, <2>3, <2>4, <2>5
<1>5. CASE s < 0
  <2>1. PICK r \in 0 .. w - 1 : r = w + s /\ r >= h
    <3>1. w + s \in 0 .. w - 1 /\ w + s >= h
      BY ONLY <1>1, <1>2, <1>5, n \in Nat, w \in Int, h \in Int, q \in Nat
    <3>2. QED
      BY ONLY <3>1
  <2>2. s % w = r
    <3>1. s = w * (-1) + r
      BY ONLY <1>1, <1>2, <2>1, w \in Int
    <3>2. w \in Nat \ {0} /\ s \in Int /\ -1 \in Int
      BY ONLY <1>1, <1>2
    <3>3. QED
      BY ONLY <3>1, <3>2, r \in 0 .. w - 1, DivModUnique
  <2>3. (q + r) % w = q + s
    <3>1. PICK t \in 0 .. w - 1 : t = q + s
      <4>1. q + s \in 0 .. w - 1
        BY ONLY <1>1, <1>2, <1>5, n \in Nat, w \in Int, h \in Int, q \in Nat
      <4>2. QED
        BY ONLY <4>1
    <3>2. q + r = w * 1 + t /\ q + r \in Int
      BY ONLY <1>1, <1>2, <2>1, <3>1, w \in Int, q \in Nat
    <3>3. w \in Nat \ {0} /\ 1 \in Int
      BY ONLY <1>1
    <3>4. (q + r) % w = t
      BY ONLY <3>2, <3>3, t \in 0 .. w - 1, DivModUnique
    <3>5. QED
      BY ONLY <3>1, <3>4
  <2>4. Lift(s) = q + s
    BY ONLY <1>1, <2>1, <2>2, <2>3 DEF Lift, IsNegative, Word
  <2>5. q + s \in 0 .. q - 1 /\ (q + s) - s = q
    BY ONLY <1>1, <1>2, <1>5, n \in Nat, q \in Nat
  <2>6. q % q = 0
    BY ONLY <1>3
  <2>7. QED
    BY ONLY <1>1, <2>4, <2>5, <2>6
<1>6. QED
  BY ONLY <1>2, <1>4, <1>5
-----------------------------------------------------------------------------
(* The sampler                                                             *)

\* The inductive invariant: the table is that of the curve, what is compared are a
\* candidate and a draw, and every sample so far was a candidate and has been lifted.
SamplerInv ==
  /\ curve \in [0 .. TailCut -> Patterns] /\ accept = Table(curve)
  /\ pc \in {"draw", "compare"} /\ proposed \in Candidates /\ uniform \in Patterns
  /\ drawn \in Seq(Candidates) /\ lifted \in Seq(Int) /\ Len(lifted) = Len(drawn)
  /\ \A i \in 1 .. Len(drawn) : lifted[i] = Lift(drawn[i])

\* The comparison of patterns is that of the numbers.
LEMMA ComparesValues ==
  ASSUME SamplerAssumption, PowersDouble, SamplerInv
  PROVE  Accepted <=> Value(uniform) < Value(curve[Magnitude(proposed)])
<1>1. PICK b \in Patterns, c \in Patterns : b = uniform /\ c = curve[Magnitude(proposed)] /\ c = ThresholdBits(proposed)
  BY ThresholdReads DEF SamplerInv
<1>2. b \in Int /\ c \in Int
  <2>1. One \in Nat
    BY ScalePowers
  <2>2. QED
    BY ONLY <2>1, b \in Patterns, c \in Patterns DEF Patterns
<1>3. Value(b) \in Nat /\ Value(c) \in Nat
  BY ONLY SamplerAssumption, PowersDouble, b \in Patterns, c \in Patterns, ValueBounds
<1>4. b < c => Value(b) < Value(c)
  BY ONLY SamplerAssumption, PowersDouble, b \in Patterns, c \in Patterns, ValueGrows
<1>5. c < b => Value(c) < Value(b)
  BY ONLY SamplerAssumption, PowersDouble, b \in Patterns, c \in Patterns, ValueGrows
<1>6. b = c \/ b < c \/ c < b
  BY ONLY <1>2
<1>7. QED
  BY ONLY <1>1, <1>2, <1>3, <1>4, <1>5, <1>6 DEF Accepted

\* The invariant holds at first, and every step keeps it.
LEMMA SamplerInvHolds ==
  ASSUME SamplerAssumption, PowersDouble
  PROVE  (SamplerInit => SamplerInv) /\ (SamplerInv /\ [SamplerNext]_samplerVars => SamplerInv')
<1>1. 0 \in Candidates /\ 0 \in Patterns
  <2>1. TailCut \in Nat /\ One \in Nat
    BY ScalePowers DEF SamplerAssumption
  <2>2. QED
    BY ONLY <2>1 DEF Candidates, Patterns
<1>2. SamplerInit => SamplerInv
  BY <1>1 DEF SamplerInit, SamplerInv, Falling
<1>3. ASSUME SamplerInv, NEW y \in Candidates, Candidate(y)
      PROVE  SamplerInv'
  BY <1>3 DEF SamplerInv, Candidate, Draw, Uniform, Table
<1>4. ASSUME SamplerInv, Accept
      PROVE  SamplerInv'
  <2>1. /\ drawn \in Seq(Candidates) /\ lifted \in Seq(Int) /\ Len(lifted) = Len(drawn) /\ proposed \in Candidates
        /\ drawn' = Append(drawn, proposed) /\ lifted' = Append(lifted, Lift(proposed))
        /\ \A i \in 1 .. Len(drawn) : lifted[i] = Lift(drawn[i])
    BY <1>4 DEF SamplerInv, Accept
  <2>2. Lift(proposed) \in Int
    <3>1. Lift(proposed) \in 0 .. Modulus - 1
      BY <2>1, LiftReads
    <3>2. QED
      BY ONLY <3>1
  <2>3. PICK n \in Nat : n = Len(drawn)
    BY ONLY <2>1
  <2>4. /\ drawn' \in Seq(Candidates) /\ lifted' \in Seq(Int)
        /\ Len(drawn') = n + 1 /\ Len(lifted') = n + 1
    BY ONLY <2>1, <2>2, <2>3
  <2>5. ASSUME NEW i \in 1 .. n + 1
        PROVE  lifted'[i] = Lift(drawn'[i])
    <3>1. CASE i = n + 1
      <4>1. drawn'[i] = proposed /\ lifted'[i] = Lift(proposed)
        BY ONLY <2>1, <2>2, <2>3, <3>1
      <4>2. QED
        BY ONLY <4>1
    <3>2. CASE i # n + 1
      <4>1. i \in 1 .. n
        BY ONLY <2>5, <3>2, n \in Nat
      <4>2. drawn'[i] = drawn[i] /\ lifted'[i] = lifted[i]
        BY ONLY <2>1, <2>2, <2>3, <4>1
      <4>3. QED
        BY ONLY <2>1, <2>3, <4>1, <4>2
    <3>3. QED
      BY ONLY <3>1, <3>2
  <2>6. QED
    BY ONLY <1>4, <2>3, <2>4, <2>5 DEF SamplerInv, Accept, Table
<1>5. ASSUME SamplerInv, Reject \/ UNCHANGED samplerVars
      PROVE  SamplerInv'
  BY <1>5 DEF SamplerInv, Reject, samplerVars, Table
<1>6. QED
  BY <1>2, <1>3, <1>4, <1>5 DEF SamplerNext

\* LiftsStandForSamples: whatever was drawn, what sample_vec_centered collects are
\* residues of the samples, in order, for every modulus up to half a word.
THEOREM LiftsAlwaysStand ==
  ASSUME SamplerAssumption, PowersDouble
  PROVE  SamplerSpec => []LiftsStandForSamples
<1>1. SamplerInv => LiftsStandForSamples
  <2>1. ASSUME SamplerInv, NEW i \in DOMAIN lifted
        PROVE  lifted[i] \in 0 .. Modulus - 1 /\ (lifted[i] - drawn[i]) % Modulus = 0
    <3>1. i \in 1 .. Len(drawn)
      BY ONLY <2>1 DEF SamplerInv
    <3>2. lifted[i] = Lift(drawn[i]) /\ drawn[i] \in Candidates
      BY ONLY <2>1, <3>1 DEF SamplerInv
    <3>3. QED
      BY <3>2, LiftReads
  <2>2. QED
    BY <2>1 DEF SamplerInv, LiftsStandForSamples
<1>2. QED
  BY <1>1, SamplerInvHolds, PTL DEF SamplerSpec

\* DecidesAsFloats: a step of the tabulated sampler accepts exactly when the one over
\* floats would, for every table that falls, or does not, on both sides of zero.
THEOREM DecidesAlways ==
  ASSUME SamplerAssumption, PowersDouble
  PROVE  SamplerSpec => DecidesAsFloats
<1> DEFINE Decides == pc = "compare" => (Len(drawn') > Len(drawn)) = (Value(uniform) < Value(curve[Magnitude(proposed)]))
<1>1. SamplerInv /\ [SamplerNext]_samplerVars => [Decides]_samplerVars
  <2>1. SUFFICES ASSUME SamplerInv, SamplerNext, pc = "compare"
        PROVE  (Len(drawn') > Len(drawn)) = (Value(uniform) < Value(curve[Magnitude(proposed)]))
    BY DEF Decides
  <2>2. Accepted <=> Value(uniform) < Value(curve[Magnitude(proposed)])
    BY <2>1, ComparesValues
  <2>3. PICK n \in Nat : n = Len(drawn)
    BY ONLY <2>1 DEF SamplerInv
  <2>4. CASE Accept
    <3>1. Accepted /\ Len(drawn') = n + 1
      BY ONLY <2>1, <2>3, <2>4 DEF Accept, SamplerInv
    <3>2. QED
      BY ONLY <2>2, <2>3, <3>1, n \in Nat
  <2>5. CASE Reject
    <3>1. ~Accepted /\ Len(drawn') = n
      BY ONLY <2>3, <2>5 DEF Reject
    <3>2. QED
      BY ONLY <2>2, <2>3, <3>1, n \in Nat
  <2>6. ASSUME NEW y \in Candidates, Candidate(y)
        PROVE  FALSE
    BY ONLY <2>1, <2>6 DEF Candidate, Draw
  <2>7. QED
    BY ONLY <2>1, <2>4, <2>5, <2>6 DEF SamplerNext
<1>2. QED
  BY <1>1, SamplerInvHolds, PTL DEF SamplerSpec, DecidesAsFloats

-----------------------------------------------------------------------------
(* Integer polynomials modulo X^N + 1                                      *)

\* Polynomials with integer coefficients; what a coefficient is multiplied by at each wrap.
IntPolys == [Idx -> Int]
Sign(m) == IF m % 2 = 0 THEN 1 ELSE -1

\* Coefficient k of a, for every integer k: N places on, the sign has changed.
Around(a, k) == Sign(k \div N) * a[k % N]

\* The product modulo X^N + 1, of integers.
Mul(a, b) == [i \in Idx |-> SumTo([j \in Idx |-> a[j] * Around(b, i - j)], N)]

\* A combination.
Mix(a, x, b) == [i \in Idx |-> a[i] + x * b[i]]

\* Signs multiply as numbers of wraps add.
LEMMA SignFacts ==
  ASSUME NEW m \in Int, NEW l \in Int
  PROVE  /\ Sign(m) \in Int /\ Sign(m) * Sign(m) = 1 /\ Sign(0) = 1 /\ Sign(1) = -1
         /\ Sign(m + l) = Sign(m) * Sign(l) /\ Sign(-m) = Sign(m)
  BY DEF Sign

\* A place is a number of whole turns and an index.
LEMMA DimensionFacts ==
  ASSUME RingAssumption, NEW k \in Int
  PROVE  /\ N \in Nat \ {0} /\ k \div N \in Int /\ k % N \in Idx /\ k % N \in Int
         /\ k = N * (k \div N) + (k % N)
<1>1. N \in Nat \ {0}
  BY DEF RingAssumption
<1>2. k \div N \in Int /\ k % N \in 0 .. N - 1 /\ k = N * (k \div N) + (k % N)
  BY ONLY <1>1, k \in Int, DivMod
<1>3. QED
  BY <1>1, <1>2 DEF Idx

\* What Around reads is an integer.
LEMMA AroundType ==
  ASSUME RingAssumption, NEW a \in IntPolys, NEW k \in Int
  PROVE  Around(a, k) \in Int
<1>1. k % N \in Idx /\ k \div N \in Int
  BY DimensionFacts
<1>2. a[k % N] \in Int
  BY <1>1 DEF IntPolys
<1>3. Sign(k \div N) \in Int
  BY <1>1, SignFacts
<1>4. QED
  BY <1>2, <1>3 DEF Around

\* A multiple of N further on only the sign changes.
LEMMA AroundShifts ==
  ASSUME RingAssumption, NEW a \in IntPolys, NEW k \in Int, NEW m \in Int
  PROVE  Around(a, k + N * m) = Sign(m) * Around(a, k)
<1>0. PICK n \in Nat \ {0} : n = N
  BY DEF RingAssumption
<1>1. PICK z \in Int, r \in 0 .. n - 1 :
        z = k \div N /\ r = k % N /\ k = n * z + r /\ r \in Idx
  BY <1>0, DimensionFacts DEF Idx
<1>2. PICK y \in Int, x \in Int : y = k + n * m /\ x = z + m
  OBVIOUS
<1>3. y = n * x + r
  <2>1. n * (z + m) = n * z + n * m /\ n * z \in Int /\ n * m \in Int
    BY ONLY n \in Nat, z \in Int, m \in Int
  <2>2. r \in Int
    OBVIOUS
  <2>3. n * x = n * z + n * m
    BY ONLY <1>2, <2>1, Zenon
  <2>4. QED
    BY ONLY <1>1, <1>2, <2>1, <2>2, <2>3, k \in Int
<1>4. y \div n = x /\ y % n = r
  BY ONLY n \in Nat \ {0}, y \in Int, x \in Int, r \in 0 .. n - 1, <1>3, DivModUnique
<1>5. Sign(x) = Sign(z) * Sign(m) /\ Sign(z) \in Int /\ Sign(m) \in Int
  BY ONLY <1>1, <1>2, m \in Int, SignFacts
<1>6. a[r] \in Int
  BY <1>1 DEF IntPolys
<1>7. Around(a, y) = Sign(x) * a[r] /\ Around(a, k) = Sign(z) * a[r]
  BY <1>0, <1>1, <1>4 DEF Around
<1>8. Sign(x) * a[r] = Sign(m) * (Sign(z) * a[r])
  BY ONLY <1>5, <1>6
<1>9. QED
  BY <1>0, <1>2, <1>7, <1>8

\* Within the polynomial, and up to N places before it.
LEMMA AroundPlaces ==
  ASSUME RingAssumption, NEW a \in IntPolys, NEW k \in Idx
  PROVE  Around(a, k) = a[k] /\ Around(a, k - N) = -a[k]
<1>1. PICK n \in Nat \ {0} : n = N
  BY DEF RingAssumption
<1>2. k \in 0 .. n - 1 /\ k \in Int /\ k - n \in Int /\ a[k] \in Int
  BY <1>1 DEF Idx, IntPolys
<1>3. k = n * 0 + k /\ 0 \in Int
  BY <1>1, <1>2
<1>4. k \div n = 0 /\ k % n = k
  BY ONLY <1>1, <1>2, <1>3, DivModUnique
<1>5. Around(a, k) = a[k]
  <2>1. Sign(0) = 1
    BY DEF Sign
  <2>2. Around(a, k) = Sign(0) * a[k]
    BY <1>1, <1>4 DEF Around
  <2>3. QED
    BY <1>2, <2>1, <2>2
<1>6. PICK m \in Int : m = -1
  OBVIOUS
<1>7. Sign(m) = -1
  BY <1>6 DEF Sign
<1>8. k - N = k + N * m
  BY <1>1, <1>2, <1>6
<1>9. Around(a, k + N * m) = Sign(m) * Around(a, k)
  BY <1>2, AroundShifts
<1>10. QED
  BY <1>2, <1>5, <1>7, <1>8, <1>9

\* The terms of a sum over all indices.
LEMMA IdxTerms ==
  ASSUME RingAssumption, NEW f
  PROVE  /\ Terms(f, N) <=> \A i \in Idx : f[i] \in Int
         /\ N \in Nat /\ Idx = 0 .. N - 1 /\ N \in 0 .. N
  BY DEF Terms, Idx, RingAssumption

\* A product is a polynomial, each of its coefficients a sum of integers.
LEMMA MulType ==
  ASSUME RingAssumption, NEW a \in IntPolys, NEW b \in IntPolys
  PROVE  /\ Mul(a, b) \in IntPolys
         /\ \A k \in Int : /\ Terms([j \in Idx |-> a[j] * Around(b, k - j)], N)
                           /\ SumTo([j \in Idx |-> a[j] * Around(b, k - j)], N) \in Int
<1>1. ASSUME NEW k \in Int
      PROVE  /\ Terms([j \in Idx |-> a[j] * Around(b, k - j)], N)
             /\ SumTo([j \in Idx |-> a[j] * Around(b, k - j)], N) \in Int
  <2>1. PICK f : f = [j \in Idx |-> a[j] * Around(b, k - j)]
    OBVIOUS
  <2>2. \A j \in Idx : a[j] \in Int /\ k - j \in Int
    BY DEF Idx, IntPolys
  <2>3. \A j \in Idx : Around(b, k - j) \in Int
    BY <2>2, AroundType
  <2>4. \A j \in Idx : f[j] \in Int
    BY <2>1, <2>2, <2>3
  <2>5. Terms(f, N) /\ N \in Nat /\ N \in 0 .. N
    BY <2>4, IdxTerms
  <2>6. SumTo(f, N) \in Int
    BY ONLY <2>5, SumLaw
  <2>7. QED
    BY <2>1, <2>5, <2>6
<1>2. \A i \in Idx : i \in Int
  BY DEF Idx
<1>3. QED
  BY <1>1, <1>2 DEF Mul, IntPolys

\* The terms of h are x times those of g.
Scales(h, x, g, n) == \A i \in 0 .. n - 1 : h[i] = x * g[i]

\* A factor of every term is a factor of the sum.
LEMMA SumTimes ==
  ASSUME NEW n \in Nat, NEW g, NEW h, Terms(g, n), NEW x \in Int, Scales(h, x, g, n)
  PROVE  Terms(h, n) /\ SumTo(h, n) = x * SumTo(g, n) /\ SumTo(g, n) \in Int
<1>1. n \in 0 .. n
  OBVIOUS
<1>2. SumTo(g, n) \in Int
  BY ONLY <1>1, n \in Nat, Terms(g, n), SumLaw
<1>3. PICK y \in Int : y = x - 1
  OBVIOUS
<1>4. \A i \in 0 .. n - 1 : h[i] = g[i] + y * g[i]
  BY <1>3 DEF Terms, Scales
<1>5. SumTo(h, n) = SumTo(g, n) + y * SumTo(g, n)
  <2>1. Combines(h, g, y, g, n)
    BY <1>4 DEF Combines
  <2>2. QED
    BY ONLY <2>1, Terms(g, n), n \in Nat, y \in Int, SumLinear
<1>6. Terms(h, n)
  BY DEF Terms, Scales
<1>7. QED
  BY <1>2, <1>3, <1>5, <1>6

\* The same sum for every coefficient, within the polynomial or not.
LEMMA AroundMul ==
  ASSUME RingAssumption, NEW a \in IntPolys, NEW b \in IntPolys, NEW k \in Int
  PROVE  Around(Mul(a, b), k) = SumTo([j \in Idx |-> a[j] * Around(b, k - j)], N)
<1>1. PICK z \in Int, i \in Idx : z = k \div N /\ i = k % N /\ k = N * z + i
  BY DimensionFacts
<1>2. PICK f, g : /\ f = [j \in Idx |-> a[j] * Around(b, i - j)]
                  /\ g = [j \in Idx |-> a[j] * Around(b, k - j)]
  OBVIOUS
<1>3. N \in Nat /\ Idx = 0 .. N - 1 /\ i \in Int
  BY DEF RingAssumption, Idx
<1>4. Terms(f, N) /\ Terms(g, N)
  BY <1>2, <1>3, MulType
<1>5. ASSUME NEW j \in Idx
      PROVE  g[j] = Sign(z) * f[j]
  <2>0. N * z \in Int /\ j \in Int /\ a[j] \in Int
    BY <1>3 DEF IntPolys
  <2>1. i - j \in Int /\ k - j = (i - j) + N * z /\ a[j] \in Int
    BY ONLY <1>1, <1>3, <2>0
  <2>2. Around(b, k - j) = Sign(z) * Around(b, i - j)
    BY <2>1, AroundShifts
  <2>3. Sign(z) \in Int /\ Around(b, i - j) \in Int
    BY <2>1, SignFacts, AroundType
  <2>4. a[j] * (Sign(z) * Around(b, i - j)) = Sign(z) * (a[j] * Around(b, i - j))
    BY <2>1, <2>3
  <2>5. QED
    BY <1>2, <2>2, <2>4
<1>6. Sign(z) \in Int
  BY SignFacts
<1>7. SumTo(g, N) = Sign(z) * SumTo(f, N)
  <2>1. Scales(g, Sign(z), f, N)
    BY <1>3, <1>5 DEF Scales
  <2>2. QED
    BY ONLY <1>3, <1>4, <1>6, <2>1, SumTimes
<1>8. Mul(a, b)[i] = SumTo(f, N)
  BY <1>2 DEF Mul
<1>9. QED
  BY <1>1, <1>2, <1>7, <1>8 DEF Around

\* F comes back every N places.
Periodic(F) == F \in [Int -> Int] /\ \A k, m \in Int : F[k + N * m] = F[k]

\* The sum of a period, taken in any order.
LEMMA PeriodPermuted ==
  ASSUME RingAssumption, NEW F, Periodic(F), NEW p \in [Idx -> Int], NEW r \in [Idx -> Idx],
         \A j \in Idx : p[r[j]] % N = j, \A i \in Idx : r[p[i] % N] = i
  PROVE  SumTo([i \in Idx |-> F[p[i]]], N) = SumTo([i \in Idx |-> F[i]], N)
<1>1. N \in Nat \ {0} /\ Idx = 0 .. N - 1
  BY DEF RingAssumption, Idx
<1>2. PICK f, g, s : /\ f = [i \in Idx |-> F[i]] /\ g = [i \in Idx |-> F[p[i]]]
                     /\ s = [i \in Idx |-> p[i] % N]
  OBVIOUS
<1>3. \A i \in Idx : i \in Int /\ F[i] \in Int
  BY <1>1 DEF Periodic
<1>4. Terms(f, N)
  BY <1>1, <1>2, <1>3 DEF Terms
<1>5. s \in [0 .. N - 1 -> 0 .. N - 1]
  <2>1. \A i \in Idx : p[i] \in Int
    OBVIOUS
  <2>2. \A i \in Idx : p[i] % N \in Idx
    BY <2>1, DimensionFacts
  <2>3. QED
    BY <1>1, <1>2, <2>2
<1>6. \A j \in 0 .. N - 1 : \E i \in 0 .. N - 1 : s[i] = j
  BY <1>1, <1>2
<1>7. \A i, j \in 0 .. N - 1 : s[i] = s[j] => i = j
  <2>1. \A i \in Idx : r[s[i]] = i
    BY <1>2
  <2>2. QED
    BY <1>1, <2>1
<1>8. ASSUME NEW i \in 0 .. N - 1
      PROVE  g[i] = f[s[i]]
  <2>1. p[i] \in Int /\ s[i] = p[i] % N /\ g[i] = F[p[i]]
    BY <1>1, <1>2
  <2>2. PICK z \in Int, w \in Idx : w = p[i] % N /\ p[i] = N * z + w
    BY <2>1, DimensionFacts
  <2>3. w \in Int /\ p[i] = w + N * z
    BY <1>1, <2>1, <2>2
  <2>4. F[w + N * z] = F[w]
    BY <2>3 DEF Periodic
  <2>5. f[w] = F[w]
    BY <1>2
  <2>6. QED
    BY <2>1, <2>2, <2>3, <2>4, <2>5
<1>9. SumTo(g, N) = SumTo(f, N)
  <2>1. Reorders(s, g, f, N)
    BY <1>5, <1>6, <1>7, <1>8 DEF Reorders
  <2>2. QED
    BY ONLY <1>1, <1>4, <2>1, SumPermuted
<1>10. QED
  BY <1>2, <1>9

\* The sum of a period, backwards from any place.
LEMMA PeriodReflected ==
  ASSUME RingAssumption, NEW F, Periodic(F), NEW c \in Int
  PROVE  SumTo([i \in Idx |-> F[c - i]], N) = SumTo([i \in Idx |-> F[i]], N)
<1>1. PICK n \in Nat \ {0} : n = N /\ Idx = 0 .. n - 1
  BY DEF RingAssumption, Idx
<1>2. PICK p, r : p = [i \in Idx |-> c - i] /\ r = [i \in Idx |-> (c - i) % N]
  OBVIOUS
<1>3. p \in [Idx -> Int]
  BY <1>1, <1>2
<1>4. ASSUME NEW j \in Idx
      PROVE  r[j] \in Idx /\ (c - r[j]) % N = j
  <2>1. j \in 0 .. n - 1 /\ j \in Int /\ c - j \in Int
    BY <1>1
  <2>2. PICK z \in Int, w \in Idx : w = (c - j) % n /\ c - j = n * z + w
    BY <1>1, <2>1, DimensionFacts
  <2>3. w \in Int /\ n * z \in Int
    BY <1>1
  <2>4. c - w = n * z + j /\ c - w \in Int
    BY ONLY <2>1, <2>2, <2>3, c \in Int
  <2>5. (c - w) % n = j
    BY ONLY <2>1, <2>4, n \in Nat \ {0}, z \in Int, DivModUnique
  <2>6. r[j] = w
    BY <1>1, <1>2, <2>2
  <2>7. QED
    BY <1>1, <2>5, <2>6
<1>5. r \in [Idx -> Idx]
  BY <1>2, <1>4
<1>6. \A j \in Idx : p[r[j]] % N = j
  BY <1>2, <1>4
<1>7. \A i \in Idx : r[p[i] % N] = i
  <2>1. \A i \in Idx : p[i] % N = r[i] /\ r[r[i]] = (c - r[i]) % N
    BY <1>2, <1>4
  <2>2. QED
    BY <1>4, <2>1
<1>8. SumTo([i \in Idx |-> F[p[i]]], N) = SumTo([i \in Idx |-> F[i]], N)
  BY ONLY <1>3, <1>5, <1>6, <1>7, RingAssumption, Periodic(F), PeriodPermuted
<1>9. [i \in Idx |-> F[p[i]]] = [i \in Idx |-> F[c - i]]
  BY <1>2
<1>10. QED
  BY <1>8, <1>9

\* Coefficients of b before i, times those of a from j on: a and b may change places.
Window(a, b, i, j) == [k \in Idx |-> Around(a, k - j) * Around(b, i - k)]

\* The terms of a coefficient of a product repeat every N places: two signs cancel.
LEMMA WindowPeriodic ==
  ASSUME RingAssumption, NEW a \in IntPolys, NEW b \in IntPolys, NEW i \in Int, NEW j \in Int
  PROVE  Periodic([k \in Int |-> Around(a, k - j) * Around(b, i - k)])
<1>1. N \in Nat \ {0}
  BY DEF RingAssumption
<1>2. \A k \in Int : Around(a, k - j) \in Int /\ Around(b, i - k) \in Int
  <2>1. \A k \in Int : k - j \in Int /\ i - k \in Int
    OBVIOUS
  <2>2. QED
    BY <2>1, AroundType
<1>3. ASSUME NEW k \in Int, NEW m \in Int
      PROVE  Around(a, (k + N * m) - j) * Around(b, i - (k + N * m))
               = Around(a, k - j) * Around(b, i - k)
  <2>1. PICK l \in Int, x \in Int, y \in Int : l = -m /\ x = k - j /\ y = i - k
    OBVIOUS
  <2>2. N * m \in Int /\ N * l = -(N * m)
    BY ONLY <1>1, <2>1, m \in Int
  <2>3. (k + N * m) - j = x + N * m /\ i - (k + N * m) = y + N * l
    BY ONLY <2>1, <2>2, k \in Int, i \in Int, j \in Int
  <2>4. Around(a, x + N * m) = Sign(m) * Around(a, x) /\ Around(b, y + N * l) = Sign(l) * Around(b, y)
    BY AroundShifts
  <2>5. Sign(l) = Sign(m) /\ Sign(m) \in {1, -1}
    BY <2>1, SignFacts DEF Sign
  <2>6. Around(a, x) \in Int /\ Around(b, y) \in Int
    BY AroundType
  <2>7. (Sign(m) * Around(a, x)) * (Sign(m) * Around(b, y)) = Around(a, x) * Around(b, y)
    <3>1. CASE Sign(m) = 1
      BY <2>6, <3>1
    <3>2. CASE Sign(m) = -1
      <4>1. PICK u \in Int, v \in Int : u = Around(a, x) /\ v = Around(b, y)
        BY <2>6
      <4>2. (-1 * u) * (-1 * v) = u * v
        OBVIOUS
      <4>3. QED
        BY <3>2, <4>1, <4>2
    <3>3. QED
      BY <2>5, <3>1, <3>2
  <2>8. QED
    BY <2>1, <2>3, <2>4, <2>5, <2>7
<1>4. \A k, m \in Int : k + N * m \in Int
  BY <1>1
<1>5. \A k \in Int : Around(a, k - j) * Around(b, i - k) \in Int
  BY <1>2
<1>6. QED
  BY <1>3, <1>4, <1>5 DEF Periodic

\* The terms of a coefficient of a product are integers.
LEMMA WindowTerms ==
  ASSUME RingAssumption, NEW a \in IntPolys, NEW b \in IntPolys, NEW i \in Int, NEW j \in Int
  PROVE  Terms(Window(a, b, i, j), N) /\ SumTo(Window(a, b, i, j), N) \in Int
<1>1. \A k \in Idx : k - j \in Int /\ i - k \in Int
  BY DEF Idx
<1>2. \A k \in Idx : Around(a, k - j) \in Int /\ Around(b, i - k) \in Int
  BY <1>1, AroundType
<1>3. \A k \in Idx : Window(a, b, i, j)[k] \in Int
  BY <1>2 DEF Window
<1>4. Terms(Window(a, b, i, j), N) /\ N \in Nat /\ N \in 0 .. N
  BY <1>3, IdxTerms
<1>5. SumTo(Window(a, b, i, j), N) \in Int
  BY ONLY <1>4, SumLaw
<1>6. QED
  BY <1>4, <1>5

\* The terms of a product are those of the factors exchanged, in another order.
LEMMA WindowSwaps ==
  ASSUME RingAssumption, NEW a \in IntPolys, NEW b \in IntPolys, NEW i \in Int, NEW j \in Int
  PROVE  SumTo(Window(a, b, i, j), N) = SumTo(Window(b, a, i, j), N)
<1>1. PICK F : F = [k \in Int |-> Around(a, k - j) * Around(b, i - k)]
  OBVIOUS
<1>2. Periodic(F)
  BY <1>1, WindowPeriodic
<1>3. PICK c \in Int : c = i + j
  OBVIOUS
<1>4. SumTo([k \in Idx |-> F[c - k]], N) = SumTo([k \in Idx |-> F[k]], N)
  BY <1>2, PeriodReflected
<1>5. [k \in Idx |-> F[k]] = Window(a, b, i, j)
  <2>1. \A k \in Idx : F[k] = Around(a, k - j) * Around(b, i - k)
    BY <1>1 DEF Idx
  <2>2. QED
    BY <2>1 DEF Window
<1>6. [k \in Idx |-> F[c - k]] = Window(b, a, i, j)
  <2>1. ASSUME NEW k \in Idx
        PROVE  F[c - k] = Around(b, k - j) * Around(a, i - k)
    <3>1. k \in Int /\ c - k \in Int /\ (c - k) - j = i - k /\ i - (c - k) = k - j
      BY <1>3 DEF Idx
    <3>2. F[c - k] = Around(a, i - k) * Around(b, k - j)
      BY <1>1, <3>1
    <3>3. i - k \in Int /\ k - j \in Int
      BY <3>1
    <3>4. Around(a, i - k) \in Int /\ Around(b, k - j) \in Int
      BY <3>3, AroundType
    <3>5. QED
      BY <3>2, <3>4
  <2>2. QED
    BY <2>1 DEF Window
<1>7. QED
  BY <1>4, <1>5, <1>6

\* A product from its first place on is a window.
LEMMA MulCommutes ==
  ASSUME RingAssumption, NEW a \in IntPolys, NEW b \in IntPolys
  PROVE  Mul(a, b) = Mul(b, a)
<1>1. ASSUME NEW x \in IntPolys, NEW y \in IntPolys, NEW i \in Idx
      PROVE  Mul(x, y)[i] = SumTo(Window(x, y, i, 0), N)
  <2>1. ASSUME NEW k \in Idx
        PROVE  x[k] * Around(y, i - k) = Around(x, k - 0) * Around(y, i - k)
    <3>1. k - 0 = k
      BY DEF Idx
    <3>2. Around(x, k) = x[k]
      BY AroundPlaces
    <3>3. QED
      BY <3>1, <3>2
  <2>2. [k \in Idx |-> x[k] * Around(y, i - k)] = Window(x, y, i, 0)
    BY <2>1 DEF Window
  <2>3. QED
    BY <2>2 DEF Mul
<1>2. \A i \in Idx : Mul(a, b)[i] = Mul(b, a)[i]
  <2>1. ASSUME NEW i \in Idx
        PROVE  SumTo(Window(a, b, i, 0), N) = SumTo(Window(b, a, i, 0), N)
    <3>1. i \in Int /\ 0 \in Int
      BY DEF Idx
    <3>2. QED
      BY <3>1, WindowSwaps
  <2>2. QED
    BY <1>1, <2>1
<1>3. QED
  BY <1>2 DEF Mul

\* A product of three, by the first factor.
LEMMA MulTwice ==
  ASSUME RingAssumption, NEW a \in IntPolys, NEW t \in IntPolys, NEW s \in IntPolys, NEW i \in Idx
  PROVE  /\ Mul(Mul(a, t), s)[i] = SumTo([j \in Idx |-> a[j] * SumTo(Window(t, s, i, j), N)], N)
<1>1. N \in Nat /\ Idx = 0 .. N - 1 /\ i \in Int
  BY DEF RingAssumption, Idx
<1>2. PICK F, r, c, d :
        /\ F = [k \in 0 .. N - 1 |-> [j \in 0 .. N - 1 |->
                  a[j] * (Around(t, k - j) * Around(s, i - k))]]
        /\ r = [k \in 0 .. N - 1 |-> SumTo(F[k], N)]
        /\ c = [j \in 0 .. N - 1 |-> SumTo([k \in 0 .. N - 1 |-> F[k][j]], N)]
        /\ d = [k \in 0 .. N - 1 |-> Mul(a, t)[k] * Around(s, i - k)]
  OBVIOUS
<1>3. ASSUME NEW k \in 0 .. N - 1, NEW j \in 0 .. N - 1
      PROVE  /\ F[k][j] = a[j] * (Around(t, k - j) * Around(s, i - k))
             /\ a[j] \in Int /\ Around(t, k - j) \in Int /\ Around(s, i - k) \in Int
             /\ F[k][j] \in Int
  <2>1. a[j] \in Int /\ k - j \in Int /\ i - k \in Int
    BY <1>1 DEF IntPolys
  <2>2. Around(t, k - j) \in Int /\ Around(s, i - k) \in Int
    BY <2>1, AroundType
  <2>3. F[k][j] = a[j] * (Around(t, k - j) * Around(s, i - k))
    BY <1>2
  <2>4. QED
    BY <2>1, <2>2, <2>3
<1>4. Rows(F, N, N)
  BY <1>3 DEF Rows, Terms
<1>5. SumTo(r, N) = SumTo(c, N)
  <2>1. SumTo([k \in 0 .. N - 1 |-> SumTo(F[k], N)], N)
          = SumTo([j \in 0 .. N - 1 |-> SumTo([k \in 0 .. N - 1 |-> F[k][j]], N)], N)
    BY ONLY <1>1, <1>4, SumExchanged
  <2>2. QED
    BY <1>2, <2>1
<1>6. ASSUME NEW k \in 0 .. N - 1
      PROVE  r[k] = d[k] /\ d[k] \in Int
  <2>1. PICK g, h : g = [j \in Idx |-> a[j] * Around(t, k - j)] /\ h = F[k]
    OBVIOUS
  <2>2. k \in Int /\ k \in Idx /\ i - k \in Int
    BY <1>1
  <2>3. Terms(g, N) /\ Mul(a, t)[k] = SumTo(g, N) /\ SumTo(g, N) \in Int
    BY <2>1, <2>2, MulType DEF Mul
  <2>4. PICK x \in Int : x = Around(s, i - k)
    BY <2>2, AroundType
  <2>5. ASSUME NEW j \in 0 .. N - 1
        PROVE  h[j] = x * g[j]
    <3>1. h[j] = a[j] * (Around(t, k - j) * x) /\ g[j] = a[j] * Around(t, k - j)
      BY <1>1, <1>3, <2>1, <2>4
    <3>2. PICK u \in Int, v \in Int : u = a[j] /\ v = Around(t, k - j)
      BY <1>3
    <3>3. u * (v * x) = x * (u * v)
      OBVIOUS
    <3>4. QED
      BY <3>1, <3>2, <3>3
  <2>6. Scales(h, x, g, N)
    BY <2>5 DEF Scales
  <2>7. SumTo(h, N) = x * SumTo(g, N)
    BY ONLY <1>1, <2>3, <2>6, x \in Int, SumTimes
  <2>8. r[k] = SumTo(h, N) /\ d[k] = SumTo(g, N) * x
    BY <1>2, <2>1, <2>3, <2>4
  <2>9. QED
    BY <2>3, <2>7, <2>8
<1>7. ASSUME NEW j \in 0 .. N - 1
      PROVE  c[j] = a[j] * SumTo(Window(t, s, i, j), N)
  <2>1. PICK g, h : g = Window(t, s, i, j) /\ h = [k \in 0 .. N - 1 |-> F[k][j]]
    OBVIOUS
  <2>2. PICK x \in Int : x = a[j]
    BY <1>3
  <2>3. j \in Int
    OBVIOUS
  <2>4. Terms(g, N)
    BY <1>1, <2>1, <2>3, WindowTerms
  <2>5. \A k \in 0 .. N - 1 : h[k] = x * g[k]
    BY <1>1, <1>3, <2>1, <2>2 DEF Window
  <2>6. Scales(h, x, g, N)
    BY <2>5 DEF Scales
  <2>7. SumTo(h, N) = x * SumTo(g, N)
    BY ONLY <1>1, <2>4, <2>6, x \in Int, SumTimes
  <2>8. QED
    BY <1>2, <2>1, <2>2, <2>7
<1>8. Mul(Mul(a, t), s)[i] = SumTo(d, N)
  BY <1>1, <1>2 DEF Mul
<1>9. SumTo(d, N) = SumTo(r, N)
  <2>1. Terms(d, N) /\ \A k \in 0 .. N - 1 : r[k] = d[k]
    BY <1>6 DEF Terms
  <2>2. QED
    BY ONLY <1>1, <2>1, SumEqual
<1>10. c = [j \in Idx |-> a[j] * SumTo(Window(t, s, i, j), N)]
  BY <1>1, <1>2, <1>7
<1>11. QED
  BY <1>5, <1>8, <1>9, <1>10

\* Factors may change places, and products be formed in any order.
LEMMA MulSwaps ==
  ASSUME RingAssumption, NEW a \in IntPolys, NEW t \in IntPolys, NEW s \in IntPolys
  PROVE  Mul(Mul(a, t), s) = Mul(Mul(a, s), t)
<1>1. ASSUME NEW i \in Idx
      PROVE  Mul(Mul(a, t), s)[i] = Mul(Mul(a, s), t)[i]
  <2>1. i \in Int /\ \A j \in Idx : j \in Int
    BY DEF Idx
  <2>2. \A j \in Idx : SumTo(Window(t, s, i, j), N) = SumTo(Window(s, t, i, j), N)
    BY <2>1, WindowSwaps
  <2>3. [j \in Idx |-> a[j] * SumTo(Window(t, s, i, j), N)]
          = [j \in Idx |-> a[j] * SumTo(Window(s, t, i, j), N)]
    BY <2>2
  <2>4. /\ Mul(Mul(a, t), s)[i] = SumTo([j \in Idx |-> a[j] * SumTo(Window(t, s, i, j), N)], N)
        /\ Mul(Mul(a, s), t)[i] = SumTo([j \in Idx |-> a[j] * SumTo(Window(s, t, i, j), N)], N)
    BY MulTwice
  <2>5. QED
    BY <2>3, <2>4
<1>2. QED
  BY <1>1 DEF Mul

\* Multiplication modulo X^N + 1 is associative.
LEMMA MulAssociates ==
  ASSUME RingAssumption, NEW a \in IntPolys, NEW b \in IntPolys, NEW c \in IntPolys
  PROVE  Mul(Mul(a, b), c) = Mul(a, Mul(b, c))
<1>1. Mul(a, b) = Mul(b, a)
  BY MulCommutes
<1>2. Mul(Mul(b, a), c) = Mul(Mul(b, c), a)
  BY MulSwaps
<1>3. Mul(b, c) \in IntPolys
  BY MulType
<1>4. Mul(Mul(b, c), a) = Mul(a, Mul(b, c))
  BY <1>3, MulCommutes
<1>5. QED
  BY <1>1, <1>2, <1>4

\* A combination is a polynomial.
LEMMA MixType ==
  ASSUME NEW a \in IntPolys, NEW b \in IntPolys, NEW x \in Int
  PROVE  Mix(a, x, b) \in IntPolys /\ \A i \in Idx : Mix(a, x, b)[i] = a[i] + x * b[i]
  BY DEF Mix, IntPolys

\* The product of a combination is the combination of the products.
LEMMA MulMixes ==
  ASSUME RingAssumption, NEW a \in IntPolys, NEW b \in IntPolys, NEW x \in Int, NEW c \in IntPolys
  PROVE  /\ Mul(Mix(a, x, b), c) = Mix(Mul(a, c), x, Mul(b, c))
         /\ Mul(c, Mix(a, x, b)) = Mix(Mul(c, a), x, Mul(c, b))
<1>1. PICK m \in IntPolys : m = Mix(a, x, b) /\ \A i \in Idx : m[i] = a[i] + x * b[i]
  BY MixType
<1>2. N \in Nat /\ Idx = 0 .. N - 1
  BY DEF RingAssumption, Idx
<1>3. ASSUME NEW i \in Idx
      PROVE  Mul(m, c)[i] = Mul(a, c)[i] + x * Mul(b, c)[i]
  <2>1. PICK f, g, h : /\ f = [j \in Idx |-> a[j] * Around(c, i - j)]
                       /\ g = [j \in Idx |-> b[j] * Around(c, i - j)]
                       /\ h = [j \in Idx |-> m[j] * Around(c, i - j)]
    OBVIOUS
  <2>2. i \in Int
    BY <1>2
  <2>3. Terms(f, N) /\ Terms(g, N)
    BY <2>1, <2>2, MulType
  <2>4. ASSUME NEW j \in Idx
        PROVE  h[j] = f[j] + x * g[j]
    <3>1. i - j \in Int /\ a[j] \in Int /\ b[j] \in Int
      BY <1>2 DEF IntPolys
    <3>2. PICK u \in Int, v \in Int, w \in Int : u = a[j] /\ v = b[j] /\ w = Around(c, i - j)
      BY <3>1, AroundType
    <3>3. (u + x * v) * w = u * w + x * (v * w)
      OBVIOUS
    <3>4. h[j] = (u + x * v) * w /\ f[j] = u * w /\ g[j] = v * w
      BY <1>1, <2>1, <3>2
    <3>5. QED
      BY <3>3, <3>4
  <2>5. Combines(h, f, x, g, N)
    BY <1>2, <2>4 DEF Combines
  <2>6. SumTo(h, N) = SumTo(f, N) + x * SumTo(g, N)
    BY ONLY <1>2, <2>3, <2>5, x \in Int, SumLinear
  <2>7. QED
    BY <2>1, <2>6 DEF Mul
<1>4. Mul(m, c) = Mix(Mul(a, c), x, Mul(b, c))
  BY <1>3 DEF Mix, Mul
<1>5. Mul(c, m) = Mul(m, c) /\ Mul(c, a) = Mul(a, c) /\ Mul(c, b) = Mul(b, c)
  BY MulCommutes
<1>6. QED
  BY <1>1, <1>4, <1>5

\* Congruent coefficients, and coefficients no larger than a bound.
Cong(a, b) == \A i \in Idx : Same(a[i], b[i], Q)
Within(a, B) == \A i \in Idx : -B <= a[i] /\ a[i] <= B

\* The modulus is a number above 1.
LEMMA QType ==
  ASSUME RingAssumption
  PROVE  Q \in Nat /\ Q \in Nat \ {0} /\ Q \in Int /\ Q > 1
  BY DEF RingAssumption

\* Congruence is an equivalence.
LEMMA CongReflexive ==
  ASSUME RingAssumption, NEW a \in IntPolys
  PROVE  Cong(a, a)
  BY SameReflexive, QType DEF Cong, IntPolys

LEMMA CongSymmetric ==
  ASSUME RingAssumption, NEW a \in IntPolys, NEW b \in IntPolys, Cong(a, b)
  PROVE  Cong(b, a)
  BY SameSymmetric, QType DEF Cong, IntPolys

LEMMA CongTransitive ==
  ASSUME RingAssumption, NEW a \in IntPolys, NEW b \in IntPolys, NEW c \in IntPolys,
         Cong(a, b), Cong(b, c)
  PROVE  Cong(a, c)
<1>1. ASSUME NEW i \in Idx
      PROVE  Same(a[i], c[i], Q)
  <2>1. a[i] \in Int /\ b[i] \in Int /\ c[i] \in Int
    BY DEF IntPolys
  <2>2. Same(a[i], b[i], Q) /\ Same(b[i], c[i], Q)
    BY DEF Cong
  <2>3. QED
    BY <2>1, <2>2, QType, SameTransitive
<1>2. QED
  BY <1>1 DEF Cong

\* What congruent polynomials differ by is a multiple of the modulus.
LEMMA CongPicks ==
  ASSUME RingAssumption, NEW a \in IntPolys, NEW b \in IntPolys
  PROVE  Cong(a, b) <=> \E k \in IntPolys : a = Mix(b, Q, k)
<1>1. ASSUME Cong(a, b)
      PROVE  \E k \in IntPolys : a = Mix(b, Q, k)
  <2>1. \A i \in Idx : \E k \in Int : a[i] = b[i] + Q * k
    BY <1>1 DEF Cong, Same
  <2>2. PICK k : k = [i \in Idx |-> CHOOSE x \in Int : a[i] = b[i] + Q * x]
    OBVIOUS
  <2>3. \A i \in Idx : k[i] \in Int /\ a[i] = b[i] + Q * k[i]
    BY <2>1, <2>2
  <2>4. k \in IntPolys
    BY <2>2, <2>3 DEF IntPolys
  <2>5. a = Mix(b, Q, k)
    BY <2>3 DEF Mix, IntPolys
  <2>6. QED
    BY <2>4, <2>5
<1>2. ASSUME NEW k \in IntPolys, a = Mix(b, Q, k)
      PROVE  Cong(a, b)
  <2>1. \A i \in Idx : k[i] \in Int /\ a[i] = b[i] + Q * k[i]
    BY <1>2 DEF Mix, IntPolys
  <2>2. QED
    BY <2>1 DEF Cong, Same
<1>3. QED
  BY <1>1, <1>2

\* Products of congruent factors are congruent.
LEMMA MulSame ==
  ASSUME RingAssumption, NEW a \in IntPolys, NEW b \in IntPolys, NEW c \in IntPolys, NEW d \in IntPolys,
         Cong(a, c), Cong(b, d)
  PROVE  Cong(Mul(a, b), Mul(c, d))
<1>0. Q \in Int
  BY QType
<1>1. PICK k \in IntPolys : a = Mix(c, Q, k)
  BY CongPicks
<1>2. PICK l \in IntPolys : b = Mix(d, Q, l)
  BY CongPicks
<1>3. /\ Mul(a, b) \in IntPolys /\ Mul(c, b) \in IntPolys /\ Mul(c, d) \in IntPolys
      /\ Mul(k, b) \in IntPolys /\ Mul(c, l) \in IntPolys
  BY MulType
<1>4. Mul(a, b) = Mix(Mul(c, b), Q, Mul(k, b))
  BY <1>0, <1>1, MulMixes
<1>5. Mul(c, b) = Mix(Mul(c, d), Q, Mul(c, l))
  BY <1>0, <1>2, MulMixes
<1>6. Cong(Mul(a, b), Mul(c, b)) /\ Cong(Mul(c, b), Mul(c, d))
  BY <1>3, <1>4, <1>5, CongPicks
<1>7. QED
  BY <1>3, <1>6, CongTransitive

\* Combinations of congruent polynomials are congruent.
LEMMA MixSame ==
  ASSUME RingAssumption, NEW a \in IntPolys, NEW b \in IntPolys, NEW c \in IntPolys, NEW d \in IntPolys,
         NEW x \in Int, Cong(a, c), Cong(b, d)
  PROVE  Cong(Mix(a, x, b), Mix(c, x, d))
<1>1. ASSUME NEW i \in Idx
      PROVE  Same(Mix(a, x, b)[i], Mix(c, x, d)[i], Q)
  <2>1. PICK k \in Int : a[i] = c[i] + Q * k
    BY DEF Cong, Same
  <2>2. PICK l \in Int : b[i] = d[i] + Q * l
    BY DEF Cong, Same
  <2>3. PICK u \in Int, v \in Int, q \in Int, m \in Int : u = c[i] /\ v = d[i] /\ q = Q /\ m = k + x * l
    BY QType DEF IntPolys
  <2>4. (u + q * k) + x * (v + q * l) = (u + x * v) + q * (k + x * l)
    OBVIOUS
  <2>5. Mix(a, x, b)[i] = (u + q * k) + x * (v + q * l) /\ Mix(c, x, d)[i] = u + x * v
    BY <2>1, <2>2, <2>3 DEF Mix
  <2>6. Mix(a, x, b)[i] = Mix(c, x, d)[i] + Q * m
    BY <2>3, <2>4, <2>5
  <2>7. QED
    BY <2>6 DEF Same
<1>2. QED
  BY <1>1 DEF Cong

\* Terms no larger than others add up to no more.
NoLarger(f, g, n) == \A i \in 0 .. n - 1 : -g[i] <= f[i] /\ f[i] <= g[i]

\* A sum is no larger than that of bounds on its terms.
LEMMA SumNoLarger ==
  ASSUME NEW n \in Nat, NEW f, NEW g, Terms(f, n), Terms(g, n), NoLarger(f, g, n)
  PROVE  -SumTo(g, n) <= SumTo(f, n) /\ SumTo(f, n) <= SumTo(g, n)
<1> DEFINE T == {m \in 0 .. n : -SumTo(g, m) <= SumTo(f, m) /\ SumTo(f, m) <= SumTo(g, m)}
<1>1. 0 \in T
  <2>1. SumTo(f, 0) = 0 /\ SumTo(g, 0) = 0
    BY SumLaw
  <2>2. QED
    BY <2>1
<1>2. ASSUME NEW m \in 0 .. n, m # n, m \in T
      PROVE  m + 1 \in T
  <2>1. m \in 0 .. n - 1 /\ m + 1 \in 0 .. n
    BY <1>2
  <2>2. SumTo(f, m) \in Int /\ SumTo(f, m + 1) = SumTo(f, m) + f[m]
    BY <1>2, SumLaw
  <2>3. SumTo(g, m) \in Int /\ SumTo(g, m + 1) = SumTo(g, m) + g[m]
    BY <1>2, SumLaw
  <2>4. f[m] \in Int /\ g[m] \in Int /\ -g[m] <= f[m] /\ f[m] <= g[m]
    BY <2>1 DEF Terms, NoLarger
  <2>5. -SumTo(g, m) <= SumTo(f, m) /\ SumTo(f, m) <= SumTo(g, m)
    BY <1>2
  <2>6. PICK a \in Int, b \in Int, c \in Int, d \in Int :
          a = SumTo(f, m) /\ b = SumTo(g, m) /\ c = f[m] /\ d = g[m]
    BY <2>2, <2>3, <2>4
  <2>7. -(b + d) <= a + c /\ a + c <= b + d
    BY <2>4, <2>5, <2>6
  <2>8. QED
    BY <2>1, <2>2, <2>3, <2>6, <2>7
<1>3. n \in T
  <2> HIDE DEF T
  <2>1. \A m \in 0 .. n : m \in T
    BY <1>1, <1>2, Induction
  <2>2. QED
    BY <2>1
<1>4. QED
  BY <1>3

\* How large a product may be, by the sizes of the coefficients of one factor.
LEMMA MulSmall ==
  ASSUME RingAssumption, NEW t \in IntPolys, NEW w, Terms(w, N), NoLarger(t, w, N),
         NEW e \in IntPolys, NEW B \in Nat, Within(e, B)
  PROVE  Within(Mul(t, e), SumTo(w, N) * B) /\ SumTo(w, N) \in Int
<1>1. N \in Nat /\ Idx = 0 .. N - 1 /\ N \in 0 .. N
  BY DEF RingAssumption, Idx
<1>2. SumTo(w, N) \in Int
  BY <1>1, SumLaw
<1>3. ASSUME NEW i \in Idx
      PROVE  -(SumTo(w, N) * B) <= Mul(t, e)[i] /\ Mul(t, e)[i] <= SumTo(w, N) * B
  <2>1. PICK f, g : f = [j \in Idx |-> t[j] * Around(e, i - j)] /\ g = [j \in Idx |-> B * w[j]]
    OBVIOUS
  <2>2. i \in Int /\ B \in Int
    BY <1>1
  <2>3. Terms(f, N) /\ Mul(t, e)[i] = SumTo(f, N)
    BY <2>1, <2>2, MulType DEF Mul
  <2>4. Scales(g, B, w, N)
    BY <1>1, <2>1 DEF Scales
  <2>5. Terms(g, N)
    BY ONLY <1>1, <2>2, <2>4, Terms(w, N), SumTimes
  <2>6. SumTo(g, N) = B * SumTo(w, N)
    BY ONLY <1>1, <2>2, <2>4, Terms(w, N), SumTimes
  <2>7. ASSUME NEW j \in 0 .. N - 1
        PROVE  -g[j] <= f[j] /\ f[j] <= g[j]
    <3>1. i - j \in Int /\ j \in Idx
      BY <1>1
    <3>2. PICK k \in Idx : k = (i - j) % N
      BY <3>1, DimensionFacts
    <3>3. PICK z \in Int : z = (i - j) \div N
      BY <3>1, DimensionFacts
    <3>4. Sign(z) \in {1, -1}
      BY DEF Sign
    <3>5. Around(e, i - j) = Sign(z) * e[k] /\ e[k] \in Int /\ -B <= e[k] /\ e[k] <= B
      BY <3>2, <3>3 DEF Around, Within, IntPolys
    <3>6. PICK x \in Int : x = Around(e, i - j)
      BY <3>1, AroundType
    <3>7. -B <= x /\ x <= B
      BY <3>4, <3>5, <3>6
    <3>8. PICK u \in Int, v \in Int : u = t[j] /\ v = w[j] /\ -v <= u /\ u <= v
      BY <3>1 DEF IntPolys, Terms, NoLarger
    <3>9. -(B * v) <= u * x /\ u * x <= B * v
      <4>1. CASE u >= 0
        <5>1. u * x <= u * B /\ u * (-B) <= u * x
          BY ONLY <3>7, <4>1, u \in Int, x \in Int, B \in Nat
        <5>2. u * B <= v * B /\ u * (-B) = -(u * B) /\ v * B = B * v
          BY ONLY <3>8, u \in Int, v \in Int, B \in Nat
        <5>3. u * x \in Int /\ u * B \in Int /\ B * v \in Int
          OBVIOUS
        <5>4. QED
          BY ONLY <5>1, <5>2, <5>3
      <4>2. CASE u < 0
        <5>1. PICK y \in Int : y = -u /\ y >= 0 /\ y <= v
          BY <3>8, <4>2
        <5>2. y * x <= y * B /\ y * (-B) <= y * x
          BY ONLY <3>7, <5>1, y \in Int, x \in Int, B \in Nat
        <5>3. y * B <= v * B /\ y * (-B) = -(y * B) /\ v * B = B * v
          BY ONLY <5>1, y \in Int, v \in Int, B \in Nat
        <5>4. y * x \in Int /\ y * B \in Int /\ B * v \in Int /\ u * x = -(y * x)
          <6>1. u = -y
            BY <5>1
          <6>2. (-y) * x = -(y * x)
            OBVIOUS
          <6>3. QED
            BY <6>1, <6>2
        <5>5. u * x \in Int
          OBVIOUS
        <5>6. QED
          BY ONLY <5>2, <5>3, <5>4, <5>5
      <4>3. QED
        BY <4>1, <4>2
    <3>10. f[j] = u * x /\ g[j] = B * v
      BY <2>1, <3>1, <3>6, <3>8
    <3>11. QED
      BY <3>9, <3>10
  <2>8. NoLarger(f, g, N)
    BY <2>7 DEF NoLarger
  <2>9. -SumTo(g, N) <= SumTo(f, N) /\ SumTo(f, N) <= SumTo(g, N)
    BY ONLY <1>1, <2>3, <2>5, <2>8, SumNoLarger
  <2>10. B * SumTo(w, N) = SumTo(w, N) * B
    BY <1>2
  <2>11. QED
    BY <2>3, <2>6, <2>9, <2>10
<1>4. QED
  BY <1>2, <1>3 DEF Within

\* g has an inverse modulo 2N.
Invertible(g) == g \in Nat /\ \E h \in Nat : (g * h) % (2 * N) = 1

\* The image of an integer polynomial when X goes to X^g.
Image(a, g) ==
  [i \in Idx |-> LET j == CHOOSE j \in Idx : (j * g) % N = i IN Sign((j * g) \div N) * a[j]]

\* An invertible element is odd, and some other turns its places back.
LEMMA InverseOf ==
  ASSUME RingAssumption, NEW g, Invertible(g)
  PROVE  /\ g \in Nat /\ \A m \in Int : Sign(m * g) = Sign(m)
         /\ \E h \in Nat : \A j \in Idx : /\ ((j * g) % N) * h % N = j
                                          /\ (((j * h) % N) * g) % N = j
<1>1. PICK n \in Nat \ {0} : n = N /\ Idx = 0 .. n - 1
  BY DEF RingAssumption, Idx
<1>2. g \in Nat
  BY DEF Invertible
<1>3. PICK h \in Nat : (g * h) % (2 * n) = 1
  BY <1>1 DEF Invertible
<1>4. PICK p \in Nat : p = g * h
  BY <1>2
<1>5. PICK y \in Int : p = (2 * n) * y + 1
  <2>1. 2 * n \in Nat \ {0} /\ p \in Int
    OBVIOUS
  <2>2. p = (2 * n) * (p \div (2 * n)) + (p % (2 * n)) /\ p \div (2 * n) \in Int
    BY ONLY <2>1, DivMod
  <2>3. QED
    BY <1>3, <1>4, <2>2
<1>6. PICK x \in Int : x = 2 * y
  OBVIOUS
<1>7. p = n * x + 1
  <2>1. (2 * n) * y = n * (2 * y)
    BY ONLY n \in Nat, y \in Int
  <2>2. QED
    BY <1>5, <1>6, <2>1
<1>8. \A m \in Int : Sign(m * g) = Sign(m)
  <2>1. g % 2 = 1
    <3>1. PICK v \in Int, d \in {0, 1} : g = 2 * v + d /\ d = g % 2
      BY <1>2, HalfOf
    <3>2. CASE d = 0
      <4>1. PICK w \in Int, u \in Int : w = v * h /\ u = n * y
        OBVIOUS
      <4>2. p = 2 * w
        <5>1. g = 2 * v
          BY <3>1, <3>2
        <5>2. (2 * v) * h = 2 * (v * h)
          BY ONLY v \in Int, h \in Nat
        <5>3. QED
          BY <1>4, <4>1, <5>1, <5>2
      <4>3. p = 2 * u + 1
        <5>1. (2 * n) * y = 2 * (n * y)
          BY ONLY n \in Nat, y \in Int
        <5>2. QED
          BY <1>5, <4>1, <5>1
      <4>4. QED
        BY <4>2, <4>3
    <3>3. QED
      BY <3>1, <3>2
  <2>2. ASSUME NEW m \in Int
        PROVE  Sign(m * g) = Sign(m)
    <3>1. PICK v \in Int : g = 2 * v + 1
      <4>1. g = 2 * (g \div 2) + 1 /\ g \div 2 \in Int
        BY <1>2, <2>1
      <4>2. QED
        BY <4>1
    <3>2. PICK w \in Int : w = m * v
      OBVIOUS
    <3>3. m * g = 2 * w + m
      <4>1. m * (2 * v + 1) = 2 * (m * v) + m
        BY ONLY m \in Int, v \in Int
      <4>2. QED
        BY <3>1, <3>2, <4>1
    <3>4. (2 * w + m) % 2 = m % 2
      OBVIOUS
    <3>5. QED
      BY <3>3, <3>4 DEF Sign
  <2>3. QED
    BY <2>2
<1>9. ASSUME NEW j \in Idx, NEW s \in Nat, NEW t \in Nat, s * t = p
      PROVE  (((j * s) % n) * t) % n = j
  <2>1. j \in 0 .. n - 1 /\ j \in Nat /\ j * s \in Int
    BY <1>1
  <2>2. PICK z \in Int, w \in 0 .. n - 1 : w = (j * s) % n /\ j * s = n * z + w
    BY ONLY <2>1, n \in Nat \ {0}, DivMod
  <2>3. PICK k \in Int : k = j * x - z * t
    BY ONLY <2>1, x \in Int, z \in Int, t \in Nat
  <2>4. w * t = n * k + j
    <3>1. w = j * s - n * z /\ w \in Int
      BY ONLY <2>1, <2>2, n \in Nat, z \in Int
    <3>2. (j * s - n * z) * t = j * (s * t) - n * (z * t)
      BY ONLY <2>1, n \in Nat, z \in Int, s \in Nat, t \in Nat
    <3>3. j * (n * x + 1) = n * (j * x) + j
      BY ONLY <2>1, n \in Nat, x \in Int
    <3>4. n * (j * x - z * t) = n * (j * x) - n * (z * t)
      BY ONLY <2>1, n \in Nat, x \in Int, z \in Int, t \in Nat
    <3>5. n * (j * x) \in Int /\ n * (z * t) \in Int
      BY ONLY <2>1, n \in Nat, x \in Int, z \in Int, t \in Nat
    <3>6. w * t = j * p - n * (z * t)
      BY ONLY <1>9, <3>1, <3>2, Zenon
    <3>7. j * p = n * (j * x) + j
      BY ONLY <1>7, <3>3, Zenon
    <3>8. n * k = n * (j * x) - n * (z * t)
      BY ONLY <2>3, <3>4, Zenon
    <3>9. QED
      BY ONLY <2>1, <3>5, <3>6, <3>7, <3>8
  <2>5. w * t \in Int
    OBVIOUS
  <2>6. (w * t) % n = j
    BY ONLY <2>1, <2>4, <2>5, n \in Nat \ {0}, k \in Int, DivModUnique
  <2>7. QED
    BY <2>2, <2>6
<1>10. g * h = p /\ h * g = p
  BY <1>2, <1>4
<1>11. \A j \in Idx : (((j * g) % n) * h) % n = j /\ (((j * h) % n) * g) % n = j
  BY <1>2, <1>9, <1>10
<1>12. QED
  BY <1>1, <1>2, <1>8, <1>11

\* Where a coefficient goes, and with which sign.
LEMMA ImagePlace ==
  ASSUME RingAssumption, NEW a \in IntPolys, NEW g, Invertible(g)
  PROVE  /\ Image(a, g) \in IntPolys
         /\ \A i \in Idx : \E j \in Idx : /\ (j * g) % N = i /\ Image(a, g)[i] = Sign((j * g) \div N) * a[j]
                                          /\ j = CHOOSE k \in Idx : (k * g) % N = i
         /\ \A j \in Idx : /\ (j * g) % N \in Idx
                           /\ Image(a, g)[(j * g) % N] = Sign((j * g) \div N) * a[j]
<1>0. PICK n \in Nat \ {0} : n = N /\ Idx = 0 .. n - 1
  BY DEF RingAssumption, Idx
<1>1. g \in Nat /\ \E h \in Nat : \A j \in Idx : /\ ((j * g) % N) * h % N = j
                                                 /\ (((j * h) % N) * g) % N = j
  BY InverseOf
<1>2. PICK h \in Nat : \A j \in Idx : (((j * g) % n) * h) % n = j /\ (((j * h) % n) * g) % n = j
  BY <1>0, <1>1
<1>3. \A x \in Nat, j \in Idx : (j * x) % N \in Idx /\ (j * x) \div N \in Int
  <2>1. \A x \in Nat, j \in Idx : j * x \in Int
    BY <1>0
  <2>2. QED
    BY <2>1, DimensionFacts
<1>4. ASSUME NEW i \in Idx
      PROVE  \E j \in Idx : /\ (j * g) % N = i /\ Image(a, g)[i] = Sign((j * g) \div N) * a[j]
                            /\ j = CHOOSE k \in Idx : (k * g) % N = i
  <2>1. \E j \in Idx : (j * g) % N = i
    BY <1>0, <1>2, <1>3
  <2>2. PICK j \in Idx : j = (CHOOSE k \in Idx : (k * g) % N = i) /\ (j * g) % N = i
    BY <2>1
  <2>3. Image(a, g)[i] = Sign((j * g) \div N) * a[j]
    BY <2>2 DEF Image
  <2>4. QED
    BY <2>2, <2>3
<1>5. \A m \in Int : Sign(m) \in Int
  BY DEF Sign
<1>6. \A i \in Idx : Image(a, g)[i] \in Int
  <2>1. \A j \in Idx : Sign((j * g) \div N) \in Int /\ a[j] \in Int
    BY <1>1, <1>3, <1>5 DEF IntPolys
  <2>2. \A j \in Idx : Sign((j * g) \div N) * a[j] \in Int
    BY <2>1
  <2>3. QED
    BY <1>4, <2>2
<1>7. Image(a, g) \in IntPolys
  BY <1>6 DEF Image, IntPolys
<1>8. ASSUME NEW j \in Idx
      PROVE  Image(a, g)[(j * g) % N] = Sign((j * g) \div N) * a[j]
  <2>1. PICK i \in Idx : i = (j * g) % N
    BY <1>1, <1>3
  <2>2. PICK k \in Idx : (k * g) % N = i /\ Image(a, g)[i] = Sign((k * g) \div N) * a[k]
    BY <1>4
  <2>3. (((j * g) % n) * h) % n = j /\ (((k * g) % n) * h) % n = k
    BY <1>2
  <2>4. j = k
    BY <1>0, <2>1, <2>2, <2>3
  <2>5. QED
    BY <2>1, <2>2, <2>4
<1>9. QED
  BY <1>1, <1>3, <1>4, <1>7, <1>8

\* Coefficient k g of the image is coefficient k, for every integer k.
LEMMA AroundImage ==
  ASSUME RingAssumption, NEW a \in IntPolys, NEW g, Invertible(g), NEW k \in Int
  PROVE  Around(Image(a, g), k * g) = Around(a, k)
<1>1. PICK z \in Int, j \in Idx : z = k \div N /\ j = k % N /\ k = N * z + j
  BY DimensionFacts
<1>2. g \in Nat /\ Sign(z * g) = Sign(z) /\ Image(a, g) \in IntPolys
  BY InverseOf, ImagePlace
<1>3. N \in Nat /\ j \in Int /\ a[j] \in Int
  BY DEF RingAssumption, Idx, IntPolys
<1>4. PICK m \in Int, x \in Int : m = z * g /\ x = j * g
  BY <1>2, <1>3
<1>5. k * g = x + N * m
  <2>1. (N * z + j) * g = j * g + N * (z * g)
    BY ONLY <1>2, <1>3, z \in Int
  <2>2. QED
    BY <1>1, <1>4, <2>1
<1>6. Around(Image(a, g), x + N * m) = Sign(m) * Around(Image(a, g), x)
  BY <1>2, AroundShifts
<1>7. Around(Image(a, g), x) = a[j]
  <2>1. Image(a, g)[x % N] = Sign(x \div N) * a[j]
    BY <1>4, ImagePlace
  <2>2. x \div N \in Int
    BY DimensionFacts
  <2>3. PICK s \in {1, -1} : s = Sign(x \div N)
    BY DEF Sign
  <2>4. s * (s * a[j]) = a[j]
    BY <1>3, <2>3
  <2>5. QED
    BY <2>1, <2>3, <2>4 DEF Around
<1>8. QED
  BY <1>1, <1>2, <1>4, <1>5, <1>6, <1>7 DEF Around

\* The image of a product is the product of the images.
LEMMA ImageMul ==
  ASSUME RingAssumption, NEW a \in IntPolys, NEW b \in IntPolys, NEW g, Invertible(g)
  PROVE  Image(Mul(a, b), g) = Mul(Image(a, g), Image(b, g))
<1>0. N \in Nat \ {0} /\ Idx = 0 .. N - 1
  BY DEF RingAssumption, Idx
<1>1. PICK c, d : c = Image(a, g) /\ d = Image(b, g)
  OBVIOUS
<1>2. /\ c \in IntPolys /\ d \in IntPolys /\ Mul(c, d) \in IntPolys /\ Mul(a, b) \in IntPolys
      /\ Image(Mul(a, b), g) \in IntPolys /\ g \in Nat
  BY <1>1, ImagePlace, MulType, InverseOf
<1>3. PICK h \in Nat : \A j \in Idx : /\ ((j * g) % N) * h % N = j
                                      /\ (((j * h) % N) * g) % N = j
  BY InverseOf
<1>4. PICK p, r : p = [i \in Idx |-> i * g] /\ r = [i \in Idx |-> (i * h) % N]
  OBVIOUS
<1>5. p \in [Idx -> Int] /\ r \in [Idx -> Idx]
  <2>1. \A i \in Idx : i * g \in Int /\ i * h \in Int
    BY <1>0, <1>2
  <2>2. \A i \in Idx : (i * g) % N \in Idx /\ (i * h) % N \in Idx
    BY <2>1, DimensionFacts
  <2>3. QED
    BY <1>4, <2>1, <2>2
<1>6. /\ \A j \in Idx : p[r[j]] % N = j
      /\ \A i \in Idx : r[p[i] % N] = i
  <2>1. \A i \in Idx : (i * g) % N \in Idx
    <3>1. \A i \in Idx : i * g \in Int
      BY <1>0, <1>2
    <3>2. QED
      BY <3>1, DimensionFacts
  <2>2. ASSUME NEW j \in Idx
        PROVE  p[r[j]] % N = j
    <3>1. r[j] = (j * h) % N /\ r[j] \in Idx
      BY <1>4, <1>5
    <3>2. p[r[j]] = ((j * h) % N) * g
      BY <1>4, <3>1
    <3>3. QED
      BY <1>3, <3>2
  <2>3. ASSUME NEW i \in Idx
        PROVE  r[p[i] % N] = i
    <3>1. p[i] % N = (i * g) % N /\ (i * g) % N \in Idx
      BY <1>4, <2>1
    <3>2. r[(i * g) % N] = (((i * g) % N) * h) % N
      BY <1>4, <2>1
    <3>3. QED
      BY <1>3, <3>1, <3>2
  <2>4. QED
    BY <2>2, <2>3
<1>7. ASSUME NEW k \in Idx
      PROVE  Around(Mul(c, d), k * g) = Mul(a, b)[k]
  <2>0. k \in Int /\ k * g \in Int
    BY <1>0, <1>2
  <2>1. PICK F : F = [x \in Int |-> Around(c, x - 0) * Around(d, (k * g) - x)]
    OBVIOUS
  <2>2. Periodic(F)
    <3>1. 0 \in Int
      OBVIOUS
    <3>2. QED
      BY <1>2, <2>0, <2>1, <3>1, WindowPeriodic
  <2>3. SumTo([i \in Idx |-> F[p[i]]], N) = SumTo([i \in Idx |-> F[i]], N)
    BY ONLY <1>5, <1>6, <2>2, RingAssumption, PeriodPermuted
  <2>4. [i \in Idx |-> F[i]] = [i \in Idx |-> c[i] * Around(d, (k * g) - i)]
    <3>1. ASSUME NEW i \in Idx
          PROVE  F[i] = c[i] * Around(d, (k * g) - i)
      <4>1. i \in Int /\ i - 0 = i
        BY <1>0
      <4>2. Around(c, i) = c[i]
        BY <1>2, AroundPlaces
      <4>3. QED
        BY <2>1, <4>1, <4>2
    <3>2. QED
      BY <3>1
  <2>5. [i \in Idx |-> F[p[i]]] = [i \in Idx |-> a[i] * Around(b, k - i)]
    <3>1. ASSUME NEW i \in Idx
          PROVE  F[p[i]] = a[i] * Around(b, k - i)
      <4>1. i \in Int /\ k - i \in Int /\ i * g \in Int
        BY <1>0, <1>2
      <4>2. (i * g) - 0 = i * g /\ (k * g) - (i * g) = (k - i) * g
        <5>1. (k - i) * g = k * g - i * g
          BY ONLY <1>2, <2>0, <4>1
        <5>2. QED
          BY <4>1, <5>1
      <4>3. F[i * g] = Around(c, i * g) * Around(d, (k - i) * g)
        BY <2>1, <4>1, <4>2
      <4>4. Around(c, i * g) = Around(a, i) /\ Around(d, (k - i) * g) = Around(b, k - i)
        BY <1>1, <4>1, AroundImage
      <4>5. Around(a, i) = a[i]
        BY AroundPlaces
      <4>6. QED
        BY <1>4, <4>3, <4>4, <4>5
    <3>2. QED
      BY <3>1
  <2>6. Around(Mul(c, d), k * g) = SumTo([i \in Idx |-> c[i] * Around(d, (k * g) - i)], N)
    BY <1>2, <2>0, AroundMul
  <2>7. Mul(a, b)[k] = SumTo([i \in Idx |-> a[i] * Around(b, k - i)], N)
    BY DEF Mul
  <2>8. QED
    BY <2>3, <2>4, <2>5, <2>6, <2>7
<1>8. ASSUME NEW i \in Idx
      PROVE  Image(Mul(a, b), g)[i] = Mul(c, d)[i]
  <2>1. PICK j \in Idx : (j * g) % N = i /\ Image(Mul(a, b), g)[i] = Sign((j * g) \div N) * Mul(a, b)[j]
    BY <1>2, ImagePlace
  <2>2. Mul(a, b)[j] = Sign((j * g) \div N) * Mul(c, d)[i]
    BY <1>7, <2>1 DEF Around
  <2>3. PICK s \in {1, -1} : s = Sign((j * g) \div N)
    BY DEF Sign
  <2>4. Mul(c, d)[i] \in Int
    BY <1>2 DEF IntPolys
  <2>5. s * (s * Mul(c, d)[i]) = Mul(c, d)[i]
    BY <2>3, <2>4
  <2>6. QED
    BY <2>1, <2>2, <2>3, <2>5
<1>9. QED
  BY <1>1, <1>2, <1>8 DEF IntPolys

\* A sum that is reduced at every term exists as a recursive function.
LEMMA ReducedLoop ==
  ASSUME NEW q \in Nat \ {0}, NEW n \in Nat, NEW f, Terms(f, n)
  PROVE  \E y : y = [k \in 0 .. n |-> IF k = 0 THEN 0 ELSE (y[k - 1] + f[k - 1]) % q]
<1> DEFINE G == [k \in 0 .. n |-> [s \in Int |-> IF k = 0 THEN s ELSE (s + f[k - 1]) % q]]
<1>1. Recurs(Int, n, 0, G)
  <2>1. ASSUME NEW k \in 0 .. n, NEW s \in Int
        PROVE  (IF k = 0 THEN s ELSE (s + f[k - 1]) % q) \in Int
    <3>1. CASE k # 0
      <4>1. PICK t \in Int : t = s + f[k - 1]
        <5>1. k - 1 \in 0 .. n - 1
          BY <3>1
        <5>2. f[k - 1] \in Int
          BY <5>1 DEF Terms
        <5>3. QED
          BY <5>2
      <4>2. t % q \in Int
        BY ONLY q \in Nat \ {0}, t \in Int
      <4>3. QED
        BY <3>1, <4>1, <4>2
    <3>2. QED
      BY <3>1
  <2>2. G \in [0 .. n -> [Int -> Int]]
    BY <2>1
  <2>3. n \in Nat /\ 0 \in Int
    OBVIOUS
  <2> HIDE DEF G
  <2>4. QED
    BY ONLY <2>2, <2>3 DEF Recurs
<1>2. PICK y : Solves(y, Int, n, 0, G)
  <2> HIDE DEF G
  <2>1. QED
    BY ONLY <1>1, RecursionExists, Zenon
<1>3. /\ y = [k \in 0 .. n |-> y[k]] /\ y[0] = 0
      /\ \A k \in 0 .. n : k # 0 => y[k - 1] \in Int /\ y[k] = G[k][y[k - 1]]
  <2> HIDE DEF G
  <2>1. QED
    BY ONLY <1>1, <1>2, SolvedSteps
<1>4. \A k \in 0 .. n : y[k] = IF k = 0 THEN 0 ELSE (y[k - 1] + f[k - 1]) % q
  BY <1>3
<1>5. y = [k \in 0 .. n |-> IF k = 0 THEN 0 ELSE (y[k - 1] + f[k - 1]) % q]
  BY ONLY <1>3, <1>4
<1>6. QED
  BY <1>5

\* What such a loop ends with.
LEMMA ReducedReads ==
  ASSUME NEW q \in Nat \ {0}, NEW n \in Nat, NEW f, Terms(f, n), NEW z,
         z[0] = 0, \A k \in 0 .. n : k # 0 => z[k] = (z[k - 1] + f[k - 1]) % q
  PROVE  z[n] = SumTo(f, n) % q
<1>1. z[n] \in 0 .. q - 1 /\ Same(z[n], SumTo(f, n), q)
  BY ReducedSums
<1>2. n \in 0 .. n
  OBVIOUS
<1>3. PICK x \in Int, y \in Int : x = z[n] /\ y = SumTo(f, n)
  <2>1. SumTo(f, n) \in Int
    BY ONLY <1>2, n \in Nat, Terms(f, n), SumLaw
  <2>2. QED
    BY <1>1, <2>1
<1>4. PICK k \in Int : x = y + q * k
  BY <1>1, <1>3 DEF Same
<1>5. PICK l \in Int : l = -k
  OBVIOUS
<1>6. y = q * l + x
  <2>1. q * (-k) = -(q * k) /\ q * k \in Int
    BY ONLY q \in Nat, k \in Int
  <2>2. QED
    BY <1>4, <1>5, <2>1
<1>7. y % q = x
  <2>1. x \in 0 .. q - 1
    BY <1>1, <1>3
  <2>2. QED
    BY ONLY <1>6, <2>1, q \in Nat \ {0}, y \in Int, l \in Int, DivModUnique
<1>8. QED
  BY <1>3, <1>7

\* A term of a coefficient, as Times writes it: X^N is -1.
LEMMA AroundTurned ==
  ASSUME RingAssumption, NEW a \in IntPolys, NEW b \in IntPolys, NEW i \in Idx, NEW j \in Idx
  PROVE  /\ a[j] * Around(b, i - j) \in Int
         /\ a[j] * Around(b, i - j) = IF j <= i THEN a[j] * b[i - j] ELSE -(a[j] * b[N + i - j])
<1>1. N \in Nat /\ Idx = 0 .. N - 1 /\ i - j \in Int
  BY DEF RingAssumption, Idx
<1>2. PICK u \in Int, v \in Int : u = a[j] /\ v = Around(b, i - j)
  BY <1>1, AroundType DEF IntPolys
<1>3. CASE j <= i
  <2>1. i - j \in Idx
    BY <1>1, <1>3
  <2>2. Around(b, i - j) = b[i - j]
    BY <2>1, AroundPlaces
  <2>3. QED
    BY <1>2, <1>3, <2>2
<1>4. CASE ~(j <= i)
  <2>1. PICK k \in Idx : k = N + i - j /\ i - j = k - N
    BY <1>1, <1>4
  <2>2. Around(b, k - N) = -b[k] /\ b[k] \in Int
    BY AroundPlaces DEF IntPolys
  <2>3. PICK w \in Int : w = b[k]
    BY <2>2
  <2>4. u * (-w) = -(u * w) /\ u * v \in Int
    OBVIOUS
  <2>5. v = -w
    BY <1>2, <2>1, <2>2, <2>3
  <2>6. a[j] * b[N + i - j] = u * w
    BY <1>2, <2>1, <2>3
  <2>7. QED
    BY <1>2, <1>4, <2>4, <2>5, <2>6
<1>5. QED
  BY <1>3, <1>4

\* The product of the ring is the reduced product of integer polynomials.
LEMMA TimesReads ==
  ASSUME RingAssumption, NEW a \in IntPolys, NEW b \in IntPolys
  PROVE  Times(a, b) = [i \in Idx |-> Mul(a, b)[i] % Q]
<1>1. N \in Nat /\ Idx = 0 .. N - 1 /\ Q \in Nat \ {0} /\ N \in 0 .. N /\ 0 \in 0 .. N
  BY DEF RingAssumption, Idx
<1>2. ASSUME NEW i \in Idx
      PROVE  Times(a, b)[i] = Mul(a, b)[i] % Q
  <2>1. PICK f : f = [j \in Idx |-> a[j] * Around(b, i - j)]
    OBVIOUS
  <2>2. i \in Int
    BY <1>1
  <2>3. Terms(f, N) /\ Mul(a, b)[i] = SumTo(f, N)
    BY <2>1, <2>2, MulType DEF Mul
  <2> DEFINE F(g) == [k \in 0 .. N |->
                        IF k = 0 THEN 0
                        ELSE (g[k - 1] + (IF k - 1 <= i THEN a[k - 1] * b[i - (k - 1)]
                                          ELSE -(a[k - 1] * b[N + i - (k - 1)]))) % Q]
  <2>4. ASSUME NEW k \in 0 .. N, k # 0
        PROVE  f[k - 1] = IF k - 1 <= i THEN a[k - 1] * b[i - (k - 1)]
                          ELSE -(a[k - 1] * b[N + i - (k - 1)])
    <3>1. k - 1 \in Idx
      BY <1>1, <2>4
    <3>2. f[k - 1] = a[k - 1] * Around(b, i - (k - 1))
      BY <2>1, <3>1
    <3>3. QED
      BY <3>1, <3>2, AroundTurned
  <2>5. PICK y : y = [k \in 0 .. N |-> IF k = 0 THEN 0 ELSE (y[k - 1] + f[k - 1]) % Q]
    BY <1>1, <2>3, ReducedLoop
  <2>6. y = F(y)
    <3>1. \A k \in 0 .. N : y[k] = IF k = 0 THEN 0 ELSE (y[k - 1] + f[k - 1]) % Q
      BY <2>5
    <3>2. \A k \in 0 .. N : y[k] = F(y)[k]
      BY <2>4, <3>1
    <3>3. y = [k \in 0 .. N |-> y[k]]
      BY <2>5
    <3>4. QED
      BY <3>2, <3>3
  <2>7. PICK z : z = F(z) /\ Times(a, b)[i] = z[N]
    <3>1. Times(a, b)[i] = (CHOOSE s : s = F(s))[N]
      BY Zenon DEF Times, SumBelow
    <3> HIDE DEF F
    <3>2. QED
      BY ONLY <2>6, <3>1, Zenon
  <2>8. z[0] = 0
    BY <1>1, <2>7
  <2>9. ASSUME NEW k \in 0 .. N, k # 0
        PROVE  z[k] = (z[k - 1] + f[k - 1]) % Q
    BY <2>4, <2>7, <2>9
  <2>10. z[N] = SumTo(f, N) % Q
    BY ONLY <1>1, <2>3, <2>8, <2>9, ReducedReads
  <2>11. QED
    BY <2>3, <2>7, <2>10
<1>3. QED
  BY <1>2 DEF Times

\* The same for plaintexts.
LEMMA PlainFacts ==
  ASSUME RingAssumption, GadgetAssumption
  PROVE  P \in Nat \ {0} /\ P \in Nat /\ P > 1 /\ Plain!Idx = Idx
  BY DEF RingAssumption, GadgetAssumption, Plain!Idx, Idx

\* The product of plaintexts, modulo P.
LEMMA PlainTimesReads ==
  ASSUME RingAssumption, GadgetAssumption, NEW a \in IntPolys, NEW b \in IntPolys
  PROVE  Plain!Times(a, b) = [i \in Idx |-> Mul(a, b)[i] % P]
<1>1. /\ N \in Nat /\ Idx = 0 .. N - 1 /\ P \in Nat \ {0} /\ N \in 0 .. N /\ 0 \in 0 .. N
      /\ Plain!Idx = Idx
  BY PlainFacts DEF RingAssumption, Idx
<1>2. ASSUME NEW i \in Idx
      PROVE  Plain!Times(a, b)[i] = Mul(a, b)[i] % P
  <2>1. PICK f : f = [j \in Idx |-> a[j] * Around(b, i - j)]
    OBVIOUS
  <2>2. i \in Int
    BY <1>1
  <2>3. Terms(f, N) /\ Mul(a, b)[i] = SumTo(f, N)
    BY <2>1, <2>2, MulType DEF Mul
  <2> DEFINE F(g) == [k \in 0 .. N |->
                        IF k = 0 THEN 0
                        ELSE (g[k - 1] + (IF k - 1 <= i THEN a[k - 1] * b[i - (k - 1)]
                                          ELSE -(a[k - 1] * b[N + i - (k - 1)]))) % P]
  <2>4. ASSUME NEW k \in 0 .. N, k # 0
        PROVE  f[k - 1] = IF k - 1 <= i THEN a[k - 1] * b[i - (k - 1)]
                          ELSE -(a[k - 1] * b[N + i - (k - 1)])
    <3>1. k - 1 \in Idx
      BY <1>1, <2>4
    <3>2. f[k - 1] = a[k - 1] * Around(b, i - (k - 1))
      BY <2>1, <3>1
    <3>3. QED
      BY <3>1, <3>2, AroundTurned
  <2>5. PICK y : y = [k \in 0 .. N |-> IF k = 0 THEN 0 ELSE (y[k - 1] + f[k - 1]) % P]
    BY <1>1, <2>3, ReducedLoop
  <2>6. y = F(y)
    <3>1. \A k \in 0 .. N : y[k] = IF k = 0 THEN 0 ELSE (y[k - 1] + f[k - 1]) % P
      BY <2>5
    <3>2. \A k \in 0 .. N : y[k] = F(y)[k]
      BY <2>4, <3>1
    <3>3. y = [k \in 0 .. N |-> y[k]]
      BY <2>5
    <3>4. QED
      BY <3>2, <3>3
  <2>7. PICK z : z = F(z) /\ Plain!Times(a, b)[i] = z[N]
    <3>1. Plain!Times(a, b)[i] = (CHOOSE s : s = F(s))[N]
      BY <1>1, Zenon DEF Plain!Times, Plain!SumBelow
    <3> HIDE DEF F
    <3>2. QED
      BY ONLY <2>6, <3>1, Zenon
  <2>8. z[0] = 0
    BY <1>1, <2>7
  <2>9. ASSUME NEW k \in 0 .. N, k # 0
        PROVE  z[k] = (z[k - 1] + f[k - 1]) % P
    BY <2>4, <2>7, <2>9
  <2>10. z[N] = SumTo(f, N) % P
    BY ONLY <1>1, <2>3, <2>8, <2>9, ReducedReads
  <2>11. QED
    BY <2>3, <2>7, <2>10
<1>3. QED
  BY <1>1, <1>2 DEF Plain!Times

-----------------------------------------------------------------------------
(* The operations of the ring, read as operations on integer polynomials   *)

\* Elements of the ring are integer polynomials.
LEMMA ElementsAreIntPolys ==
  ASSUME RingAssumption, NEW a \in Elements
  PROVE  a \in IntPolys /\ Zero \in IntPolys /\ Zero \in Elements
         /\ \A i \in Idx : a[i] \in Int /\ a[i] \in Nat /\ 0 <= a[i] /\ a[i] < Q
  BY DEF RingAssumption, Elements, Residue, IntPolys, Zero

\* Reducing every coefficient gives a congruent element of the ring.
LEMMA ReducedPoly ==
  ASSUME RingAssumption, NEW a \in IntPolys, NEW c, c = [i \in Idx |-> a[i] % Q]
  PROVE  c \in Elements /\ c \in IntPolys /\ Cong(c, a)
<1>1. ASSUME NEW i \in Idx
      PROVE  c[i] \in 0 .. Q - 1 /\ c[i] \in Int /\ Same(c[i], a[i], Q)
  <2>1. a[i] \in Int
    BY DEF IntPolys
  <2>2. a[i] % Q \in 0 .. Q - 1 /\ Same(a[i] % Q, a[i], Q)
    BY <2>1, QType, DivMod, SameMod
  <2>3. QED
    BY <2>2, QType
<1>2. QED
  BY <1>1 DEF Elements, Residue, IntPolys, Cong

\* The sum of the ring.
LEMMA PlusReads ==
  ASSUME RingAssumption, NEW a \in IntPolys, NEW b \in IntPolys
  PROVE  Plus(a, b) \in Elements /\ Plus(a, b) \in IntPolys /\ Cong(Plus(a, b), Mix(a, 1, b))
<1>1. Mix(a, 1, b) \in IntPolys /\ \A i \in Idx : Mix(a, 1, b)[i] = a[i] + b[i]
  BY DEF Mix, IntPolys
<1>2. Plus(a, b) = [i \in Idx |-> Mix(a, 1, b)[i] % Q]
  BY <1>1 DEF Plus
<1>3. QED
  BY <1>1, <1>2, ReducedPoly

\* The difference of the ring.
LEMMA MinusReads ==
  ASSUME RingAssumption, NEW a \in IntPolys, NEW b \in IntPolys
  PROVE  Minus(a, b) \in Elements /\ Minus(a, b) \in IntPolys /\ Cong(Minus(a, b), Mix(a, -1, b))
<1>1. Mix(a, -1, b) \in IntPolys /\ \A i \in Idx : Mix(a, -1, b)[i] = a[i] - b[i]
  BY DEF Mix, IntPolys
<1>2. Minus(a, b) = [i \in Idx |-> Mix(a, -1, b)[i] % Q]
  BY <1>1 DEF Minus
<1>3. QED
  BY <1>1, <1>2, ReducedPoly

\* x times a.
By(x, a) == Mix(Zero, x, a)

\* A multiple of a polynomial is a polynomial.
LEMMA ByType ==
  ASSUME RingAssumption, NEW a \in IntPolys, NEW x \in Int
  PROVE  By(x, a) \in IntPolys /\ (\A i \in Idx : By(x, a)[i] = x * a[i]) /\ Zero \in IntPolys
  BY DEF By, Mix, IntPolys, Zero

\* The negative of the ring.
LEMMA NegatedReads ==
  ASSUME RingAssumption, NEW a \in IntPolys
  PROVE  Negated(a) \in Elements /\ Negated(a) \in IntPolys /\ Cong(Negated(a), By(-1, a))
<1>1. By(-1, a) \in IntPolys /\ \A i \in Idx : By(-1, a)[i] = -a[i]
  BY DEF By, Mix, IntPolys, Zero
<1>2. Negated(a) = [i \in Idx |-> By(-1, a)[i] % Q]
  BY <1>1 DEF Negated
<1>3. QED
  BY <1>1, <1>2, ReducedPoly

\* The product with a number.
LEMMA ScaledReads ==
  ASSUME RingAssumption, NEW a \in IntPolys, NEW k \in Int
  PROVE  Scaled(a, k) \in Elements /\ Scaled(a, k) \in IntPolys /\ Cong(Scaled(a, k), By(k, a))
<1>1. PICK r \in Int : r = k % Q /\ Same(r, k, Q)
  <2>1. k % Q \in 0 .. Q - 1 /\ Same(k % Q, k, Q)
    BY QType, DivMod, SameMod
  <2>2. k % Q \in Int
    BY <2>1, QType
  <2>3. QED
    BY <2>1, <2>2
<1>2. /\ By(r, a) \in IntPolys /\ \A i \in Idx : By(r, a)[i] = r * a[i]
      /\ By(k, a) \in IntPolys /\ \A i \in Idx : By(k, a)[i] = k * a[i]
  BY ByType
<1>3. Scaled(a, k) = [i \in Idx |-> By(r, a)[i] % Q]
  <2>1. \A i \in Idx : a[i] * r = r * a[i]
    BY DEF IntPolys
  <2>2. QED
    BY <1>1, <1>2, <2>1 DEF Scaled
<1>4. Scaled(a, k) \in Elements /\ Scaled(a, k) \in IntPolys /\ Cong(Scaled(a, k), By(r, a))
  BY <1>2, <1>3, ReducedPoly
<1>5. Cong(By(r, a), By(k, a))
  <2>1. ASSUME NEW i \in Idx
        PROVE  Same(By(r, a)[i], By(k, a)[i], Q)
    <3>1. PICK v \in Int : v = a[i]
      BY DEF IntPolys
    <3>2. Same(v, v, Q)
      BY QType, SameReflexive
    <3>3. Same(r * v, k * v, Q)
      BY <1>1, <3>2, QType, SameProduct
    <3>4. QED
      BY <1>2, <3>1, <3>3
  <2>2. QED
    BY <2>1 DEF Cong
<1>6. QED
  BY <1>2, <1>4, <1>5, CongTransitive

\* The product of the ring.
LEMMA TimesCong ==
  ASSUME RingAssumption, NEW a \in IntPolys, NEW b \in IntPolys
  PROVE  /\ Times(a, b) \in Elements /\ Times(a, b) \in IntPolys
         /\ Cong(Times(a, b), Mul(a, b)) /\ Mul(a, b) \in IntPolys
<1>1. Mul(a, b) \in IntPolys
  BY MulType
<1>2. Times(a, b) = [i \in Idx |-> Mul(a, b)[i] % Q]
  BY TimesReads
<1>3. QED
  BY <1>1, <1>2, ReducedPoly

\* The automorphism of the ring.
LEMMA AutomorphismReads ==
  ASSUME RingAssumption, NEW a \in Elements, NEW g, Invertible(g)
  PROVE  /\ Automorphism(a, g) \in Elements /\ Automorphism(a, g) \in IntPolys
         /\ Cong(Automorphism(a, g), Image(a, g)) /\ Image(a, g) \in IntPolys
<1>0. a \in IntPolys /\ \A i \in Idx : a[i] \in 0 .. Q - 1
  BY ElementsAreIntPolys DEF Elements, Residue
<1>1. Image(a, g) \in IntPolys
  BY <1>0, ImagePlace
<1>2. ASSUME NEW i \in Idx
      PROVE  Automorphism(a, g)[i] = Image(a, g)[i] % Q
  <2>1. PICK j \in Idx : /\ Image(a, g)[i] = Sign((j * g) \div N) * a[j]
                         /\ j = CHOOSE k \in Idx : (k * g) % N = i
    BY <1>0, ImagePlace
  <2>2. Automorphism(a, g)[i] = IF ((j * g) \div N) % 2 = 0 THEN a[j] ELSE (-a[j]) % Q
    <3>1. Automorphism(a, g)[i] =
            (LET k == CHOOSE k \in Idx : (k * g) % N = i
             IN  IF ((k * g) \div N) % 2 = 0 THEN a[k] ELSE (-a[k]) % Q)
      BY Zenon DEF Automorphism
    <3>2. QED
      BY ONLY <2>1, <3>1, Zenon
  <2>3. PICK v \in 0 .. Q - 1 : v = a[j]
    BY <1>0
  <2>4. v % Q = v /\ 1 * v = v /\ -1 * v = -v
    BY QType, ModSmall
  <2>5. QED
    BY <2>1, <2>2, <2>3, <2>4 DEF Sign
<1>3. Automorphism(a, g) = [i \in Idx |-> Image(a, g)[i] % Q]
  BY <1>2 DEF Automorphism
<1>4. QED
  BY <1>1, <1>3, ReducedPoly

-----------------------------------------------------------------------------
(* Polynomials that differ by an error of bounded size                     *)

\* u is congruent to y and an error within B.
Near(u, y, B) == \E e \in IntPolys : Within(e, B) /\ Cong(u, Mix(y, 1, e))

\* Congruent polynomials differ by no error.
LEMMA NearCong ==
  ASSUME RingAssumption, NEW u \in IntPolys, NEW y \in IntPolys, Cong(u, y)
  PROVE  Near(u, y, 0)
<1>1. Zero \in IntPolys /\ Within(Zero, 0)
  BY DEF Zero, IntPolys, Within
<1>2. Mix(y, 1, Zero) = y
  BY DEF Mix, Zero, IntPolys
<1>3. QED
  BY <1>1, <1>2 DEF Near

\* A bound may be widened.
LEMMA NearWider ==
  ASSUME RingAssumption, NEW u, NEW y, NEW B \in Int, NEW C \in Int, Near(u, y, B), B <= C
  PROVE  Near(u, y, C)
<1>1. PICK e \in IntPolys : Within(e, B) /\ Cong(u, Mix(y, 1, e))
  BY DEF Near
<1>2. Within(e, C)
  <2>1. \A i \in Idx : e[i] \in Int /\ -B <= e[i] /\ e[i] <= B
    BY <1>1 DEF Within, IntPolys
  <2>2. QED
    BY <2>1 DEF Within
<1>3. QED
  BY <1>1, <1>2 DEF Near

\* Errors add.
LEMMA NearTransitive ==
  ASSUME RingAssumption, NEW u \in IntPolys, NEW y \in IntPolys, NEW z \in IntPolys,
         NEW B \in Int, NEW C \in Int, Near(u, y, B), Near(y, z, C)
  PROVE  Near(u, z, B + C)
<1>1. PICK e \in IntPolys : Within(e, B) /\ Cong(u, Mix(y, 1, e))
  BY DEF Near
<1>2. PICK f \in IntPolys : Within(f, C) /\ Cong(y, Mix(z, 1, f))
  BY DEF Near
<1>3. PICK h : h = Mix(f, 1, e)
  OBVIOUS
<1>4. h \in IntPolys /\ Within(h, B + C)
  <2>1. h \in IntPolys /\ \A i \in Idx : h[i] = f[i] + e[i]
    BY <1>3 DEF Mix, IntPolys
  <2>2. \A i \in Idx : /\ e[i] \in Int /\ -B <= e[i] /\ e[i] <= B
                       /\ f[i] \in Int /\ -C <= f[i] /\ f[i] <= C
    BY <1>1, <1>2 DEF Within, IntPolys
  <2>3. QED
    BY <2>1, <2>2 DEF Within
<1>5. Mix(Mix(z, 1, f), 1, e) = Mix(z, 1, h)
  BY <1>3 DEF Mix, IntPolys
<1>6. /\ Mix(z, 1, f) \in IntPolys /\ Mix(y, 1, e) \in IntPolys
      /\ Mix(z, 1, h) \in IntPolys
  <2>1. 1 \in Int
    OBVIOUS
  <2>2. QED
    BY <1>4, <2>1, MixType
<1>7. Cong(Mix(y, 1, e), Mix(z, 1, h))
  <2>1. Cong(e, e)
    BY CongReflexive
  <2>2. 1 \in Int
    OBVIOUS
  <2>3. Cong(Mix(y, 1, e), Mix(Mix(z, 1, f), 1, e))
    BY <1>2, <1>6, <2>1, <2>2, MixSame
  <2>4. QED
    BY <1>5, <2>3
<1>8. Cong(u, Mix(z, 1, h))
  BY <1>1, <1>6, <1>7, CongTransitive
<1>9. QED
  BY <1>4, <1>8 DEF Near

\* Congruent polynomials are near the same ones.
LEMMA NearCongLeft ==
  ASSUME RingAssumption, NEW u \in IntPolys, NEW v \in IntPolys, NEW y \in IntPolys,
         NEW B \in Int, Cong(u, v), Near(v, y, B)
  PROVE  Near(u, y, B)
<1>1. Near(u, v, 0) /\ 0 + B = B /\ 0 \in Int
  BY NearCong
<1>2. Near(u, y, 0 + B)
  BY <1>1, NearTransitive
<1>3. QED
  BY <1>1, <1>2

\* What is congruent is as near.
LEMMA NearCongRight ==
  ASSUME RingAssumption, NEW u \in IntPolys, NEW y \in IntPolys, NEW z \in IntPolys,
         NEW B \in Int, Near(u, y, B), Cong(y, z)
  PROVE  Near(u, z, B)
<1>1. Near(y, z, 0) /\ B + 0 = B /\ 0 \in Int
  BY NearCong
<1>2. Near(u, z, B + 0)
  BY <1>1, NearTransitive
<1>3. QED
  BY <1>1, <1>2

\* The size of a product of two bounded numbers.
LEMMA SizeOfProduct ==
  ASSUME NEW u \in Int, NEW v \in Int, NEW x \in Int, NEW B \in Nat,
         -v <= u, u <= v, -B <= x, x <= B
  PROVE  -(v * B) <= u * x /\ u * x <= v * B
<1>1. CASE u >= 0
  <2>1. u * x <= u * B /\ u * (-B) <= u * x
    BY ONLY -B <= x, x <= B, <1>1, u \in Int, x \in Int, B \in Nat
  <2>2. u * B <= v * B /\ u * (-B) = -(u * B)
    BY ONLY u <= v, u \in Int, v \in Int, B \in Nat
  <2>3. u * x \in Int /\ u * B \in Int /\ v * B \in Int
    OBVIOUS
  <2>4. QED
    BY ONLY <2>1, <2>2, <2>3
<1>2. CASE u < 0
  <2>1. PICK y \in Int : y = -u /\ y >= 0 /\ y <= v
    BY <1>2
  <2>2. y * x <= y * B /\ y * (-B) <= y * x
    BY ONLY -B <= x, x <= B, <2>1, y \in Int, x \in Int, B \in Nat
  <2>3. y * B <= v * B /\ y * (-B) = -(y * B)
    BY ONLY <2>1, y \in Int, v \in Int, B \in Nat
  <2>4. y * x \in Int /\ y * B \in Int /\ v * B \in Int /\ u * x = -(y * x)
    <3>1. u = -y
      BY <2>1
    <3>2. (-y) * x = -(y * x)
      OBVIOUS
    <3>3. QED
      BY <3>1, <3>2
  <2>5. u * x \in Int
    OBVIOUS
  <2>6. QED
    BY ONLY <2>2, <2>3, <2>4, <2>5
<1>3. QED
  BY <1>1, <1>2

\* A combination: the errors combine.
LEMMA NearMix ==
  ASSUME RingAssumption, NEW u \in IntPolys, NEW y \in IntPolys, NEW v \in IntPolys, NEW z \in IntPolys,
         NEW B \in Int, NEW C \in Nat, NEW x \in Int, NEW X \in Int, -X <= x, x <= X,
         Near(u, y, B), Near(v, z, C)
  PROVE  Near(Mix(u, x, v), Mix(y, x, z), B + X * C)
<1>1. PICK e \in IntPolys : Within(e, B) /\ Cong(u, Mix(y, 1, e))
  BY DEF Near
<1>2. PICK f \in IntPolys : Within(f, C) /\ Cong(v, Mix(z, 1, f))
  BY DEF Near
<1>3. PICK h : h = Mix(e, x, f)
  OBVIOUS
<1>4. h \in IntPolys /\ Within(h, B + X * C)
  <2>1. h \in IntPolys /\ \A i \in Idx : h[i] = e[i] + x * f[i]
    BY <1>3 DEF Mix, IntPolys
  <2>2. ASSUME NEW i \in Idx
        PROVE  -(B + X * C) <= h[i] /\ h[i] <= B + X * C
    <3>1. PICK a \in Int, b \in Int : a = e[i] /\ b = f[i]
      BY DEF IntPolys
    <3>2. -B <= a /\ a <= B /\ -C <= b /\ b <= C
      BY <1>1, <1>2, <3>1 DEF Within
    <3>3. -(X * C) <= x * b /\ x * b <= X * C
      BY ONLY <3>2, x \in Int, X \in Int, -X <= x, x <= X, b \in Int, C \in Nat, SizeOfProduct
    <3>4. X * C \in Int /\ x * b \in Int
      OBVIOUS
    <3>5. -(B + X * C) <= a + x * b /\ a + x * b <= B + X * C
      BY ONLY <3>2, <3>3, <3>4, a \in Int, B \in Int
    <3>6. QED
      BY <2>1, <3>1, <3>5
  <2>3. QED
    BY <2>1, <2>2 DEF Within
<1>5. /\ Mix(y, 1, e) \in IntPolys /\ Mix(z, 1, f) \in IntPolys /\ Mix(y, x, z) \in IntPolys
      /\ Mix(u, x, v) \in IntPolys
  <2>1. 1 \in Int
    OBVIOUS
  <2>2. QED
    BY <2>1, MixType
<1>6. Mix(Mix(y, 1, e), x, Mix(z, 1, f)) = Mix(Mix(y, x, z), 1, h)
  <2>1. ASSUME NEW i \in Idx
        PROVE  Mix(Mix(y, 1, e), x, Mix(z, 1, f))[i] = Mix(Mix(y, x, z), 1, h)[i]
    <3>1. PICK a \in Int, b \in Int, c \in Int, d \in Int : a = e[i] /\ b = f[i] /\ c = y[i] /\ d = z[i]
      BY DEF IntPolys
    <3>2. (c + 1 * a) + x * (d + 1 * b) = (c + x * d) + 1 * (a + x * b)
      OBVIOUS
    <3>3. QED
      BY <1>3, <3>1, <3>2 DEF Mix
  <2>2. QED
    BY <2>1 DEF Mix
<1>7. Cong(Mix(u, x, v), Mix(Mix(y, 1, e), x, Mix(z, 1, f)))
  BY <1>1, <1>2, <1>5, MixSame
<1>8. QED
  BY <1>4, <1>6, <1>7 DEF Near

\* A product with small factors: the error grows by the sum of their sizes.
LEMMA NearMul ==
  ASSUME RingAssumption, NEW u \in IntPolys, NEW y \in IntPolys, NEW B \in Nat, Near(u, y, B),
         NEW t \in IntPolys, NEW w, Terms(w, N), NoLarger(t, w, N)
  PROVE  /\ Near(Mul(t, u), Mul(t, y), SumTo(w, N) * B) /\ SumTo(w, N) \in Int
         /\ Near(Mul(u, t), Mul(y, t), SumTo(w, N) * B)
<1>1. PICK e \in IntPolys : Within(e, B) /\ Cong(u, Mix(y, 1, e))
  BY DEF Near
<1>2. /\ Mul(t, u) \in IntPolys /\ Mul(t, y) \in IntPolys /\ Mul(t, e) \in IntPolys
      /\ Mul(u, t) = Mul(t, u) /\ Mul(y, t) = Mul(t, y)
  BY MulType, MulCommutes
<1>3. Within(Mul(t, e), SumTo(w, N) * B) /\ SumTo(w, N) \in Int
  BY <1>1, MulSmall
<1>4. Mul(t, Mix(y, 1, e)) = Mix(Mul(t, y), 1, Mul(t, e))
  <2>1. 1 \in Int
    OBVIOUS
  <2>2. QED
    BY <2>1, MulMixes
<1>5. Cong(Mul(t, u), Mul(t, Mix(y, 1, e)))
  <2>1. Mix(y, 1, e) \in IntPolys /\ Cong(t, t)
    BY MixType, CongReflexive
  <2>2. QED
    BY <1>1, <2>1, MulSame
<1>6. QED
  BY <1>2, <1>3, <1>4, <1>5 DEF Near

\* The automorphism of a combination.
LEMMA ImageMix ==
  ASSUME RingAssumption, NEW a \in IntPolys, NEW b \in IntPolys, NEW x \in Int, NEW g, Invertible(g)
  PROVE  /\ Image(Mix(a, x, b), g) = Mix(Image(a, g), x, Image(b, g))
         /\ Image(a, g) \in IntPolys /\ Image(b, g) \in IntPolys
<1>1. Mix(a, x, b) \in IntPolys
  BY MixType
<1>2. Image(a, g) \in IntPolys /\ Image(b, g) \in IntPolys
  BY ImagePlace
<1>3. ASSUME NEW i \in Idx
      PROVE  Image(Mix(a, x, b), g)[i] = Mix(Image(a, g), x, Image(b, g))[i]
  <2>1. PICK j \in Idx : Image(a, g)[i] = Sign((j * g) \div N) * a[j] /\ j = CHOOSE k \in Idx : (k * g) % N = i
    BY ImagePlace
  <2>2. Image(b, g)[i] = Sign((j * g) \div N) * b[j]
    BY ONLY <2>1, i \in Idx DEF Image
  <2>3. Image(Mix(a, x, b), g)[i] = Sign((j * g) \div N) * Mix(a, x, b)[j]
    BY ONLY <2>1, i \in Idx DEF Image
  <2>4. PICK s \in {1, -1} : s = Sign((j * g) \div N)
    BY DEF Sign
  <2>5. PICK v \in Int, w \in Int : v = a[j] /\ w = b[j]
    BY DEF IntPolys
  <2>6. s * (v + x * w) = s * v + x * (s * w)
    BY <2>4
  <2>7. QED
    BY <2>1, <2>2, <2>3, <2>4, <2>5, <2>6 DEF Mix
<1>4. QED
  BY <1>1, <1>2, <1>3 DEF Mix, Image

\* An image: the errors change places and signs.
LEMMA NearImage ==
  ASSUME RingAssumption, NEW u \in IntPolys, NEW y \in IntPolys, NEW B \in Int, Near(u, y, B),
         NEW g, Invertible(g)
  PROVE  Near(Image(u, g), Image(y, g), B)
<1>1. PICK e \in IntPolys : Within(e, B) /\ Cong(u, Mix(y, 1, e))
  BY DEF Near
<1>2. Image(u, g) \in IntPolys /\ Image(y, g) \in IntPolys /\ Image(e, g) \in IntPolys
  BY ImagePlace
<1>3. Within(Image(e, g), B)
  <2>1. ASSUME NEW i \in Idx
        PROVE  -B <= Image(e, g)[i] /\ Image(e, g)[i] <= B
    <3>1. PICK j \in Idx : Image(e, g)[i] = Sign((j * g) \div N) * e[j]
      BY ImagePlace
    <3>2. PICK s \in {1, -1} : s = Sign((j * g) \div N)
      BY DEF Sign
    <3>3. PICK v \in Int : v = e[j] /\ -B <= v /\ v <= B
      BY <1>1 DEF IntPolys, Within
    <3>4. QED
      BY <3>1, <3>2, <3>3
  <2>2. QED
    BY <2>1 DEF Within
<1>4. Cong(Image(u, g), Image(Mix(y, 1, e), g))
  <2>1. Mix(y, 1, e) \in IntPolys /\ Q \in Int
    BY MixType, QType
  <2>2. PICK k \in IntPolys : u = Mix(Mix(y, 1, e), Q, k)
    BY <1>1, <2>1, CongPicks
  <2>3. Image(u, g) = Mix(Image(Mix(y, 1, e), g), Q, Image(k, g))
    BY <2>1, <2>2, ImageMix
  <2>4. Image(k, g) \in IntPolys /\ Image(Mix(y, 1, e), g) \in IntPolys
    BY <2>1, ImagePlace
  <2>5. QED
    BY <1>2, <2>3, <2>4, CongPicks
<1>5. Image(Mix(y, 1, e), g) = Mix(Image(y, g), 1, Image(e, g))
  <2>1. 1 \in Int
    OBVIOUS
  <2>2. QED
    BY <2>1, ImageMix
<1>6. QED
  BY <1>2, <1>3, <1>4, <1>5 DEF Near

-----------------------------------------------------------------------------
(* What a ciphertext carries: its opening under a key, within an error     *)

\* The phase of a ciphertext before it is reduced; what it carries under a key.
Open(c, s) == Mix(Mul(c.a, s), 1, c.b)
Carries(c, s, y, B) == c.a \in Elements /\ c.b \in Elements /\ Near(Open(c, s), y, B)

\* The phase is a polynomial.
LEMMA OpenType ==
  ASSUME RingAssumption, NEW c, c.a \in IntPolys, c.b \in IntPolys, NEW s \in IntPolys
  PROVE  Open(c, s) \in IntPolys /\ Mul(c.a, s) \in IntPolys
<1>1. Mul(c.a, s) \in IntPolys /\ 1 \in Int
  BY MulType
<1>2. QED
  BY <1>1, MixType DEF Open

\* Congruent ciphertexts under congruent keys have congruent phases.
LEMMA OpenCong ==
  ASSUME RingAssumption, NEW c, c.a \in IntPolys, c.b \in IntPolys, NEW s \in IntPolys,
         NEW d, d.a \in IntPolys, d.b \in IntPolys, NEW t \in IntPolys,
         Cong(c.a, d.a), Cong(c.b, d.b), Cong(s, t)
  PROVE  Cong(Open(c, s), Open(d, t))
<1>1. Mul(c.a, s) \in IntPolys /\ Mul(d.a, t) \in IntPolys /\ 1 \in Int
  BY MulType
<1>2. Cong(Mul(c.a, s), Mul(d.a, t))
  BY MulSame
<1>3. QED
  BY <1>1, <1>2, MixSame DEF Open

\* What carries is a pair of elements.
LEMMA CarriesType ==
  ASSUME RingAssumption, NEW c, NEW s \in IntPolys, NEW y, NEW B, Carries(c, s, y, B)
  PROVE  /\ c.a \in Elements /\ c.b \in Elements /\ c.a \in IntPolys /\ c.b \in IntPolys
         /\ Open(c, s) \in IntPolys /\ Near(Open(c, s), y, B)
<1>1. c.a \in IntPolys /\ c.b \in IntPolys
  BY ElementsAreIntPolys DEF Carries
<1>2. QED
  BY <1>1, OpenType DEF Carries

\* Congruent polynomials are carried alike, and under congruent keys.
LEMMA CarriesCong ==
  ASSUME RingAssumption, NEW c, NEW s \in IntPolys, NEW t \in IntPolys, NEW y \in IntPolys,
         NEW z \in IntPolys, NEW B \in Int, Carries(c, s, y, B), Cong(s, t), Cong(y, z)
  PROVE  Carries(c, t, z, B)
<1>1. /\ c.a \in Elements /\ c.b \in Elements /\ c.a \in IntPolys /\ c.b \in IntPolys
      /\ Open(c, s) \in IntPolys /\ Near(Open(c, s), y, B)
  BY CarriesType
<1>2. Near(Open(c, s), z, B)
  BY <1>1, NearCongRight
<1>3. Cong(Open(c, t), Open(c, s)) /\ Open(c, t) \in IntPolys
  BY <1>1, OpenType, OpenCong, CongReflexive, CongSymmetric
<1>4. Near(Open(c, t), z, B)
  BY <1>1, <1>2, <1>3, NearCongLeft
<1>5. QED
  BY <1>1, <1>4 DEF Carries

\* What carries y carries what is near y.
LEMMA CarriesNear ==
  ASSUME RingAssumption, NEW c, NEW s \in IntPolys, NEW y \in IntPolys,
         NEW z \in IntPolys, NEW B \in Int, NEW C \in Int, Carries(c, s, y, B), Near(y, z, C)
  PROVE  Carries(c, s, z, B + C)
<1>1. Open(c, s) \in IntPolys /\ Near(Open(c, s), y, B)
  BY CarriesType
<1>2. Near(Open(c, s), z, B + C)
  BY <1>1, NearTransitive
<1>3. QED
  BY <1>2 DEF Carries

\* Zero carries zero.
LEMMA CarriesZero ==
  ASSUME RingAssumption, NEW s \in IntPolys
  PROVE  Carries(Pair(Zero, Zero), s, Zero, 0) /\ Zero \in IntPolys /\ Mul(Zero, s) = Zero
<1>1. Zero \in IntPolys /\ Zero \in Elements
  BY DEF Zero, IntPolys, Elements, Residue, RingAssumption
<1>2. Mul(Zero, s) = Zero
  <2>1. Mix(Zero, -1, Zero) = Zero /\ -1 \in Int
    BY DEF Mix, Zero
  <2>2. Mul(Mix(Zero, -1, Zero), s) = Mix(Mul(Zero, s), -1, Mul(Zero, s))
    BY <1>1, <2>1, MulMixes
  <2>3. Mul(Zero, s) \in IntPolys
    BY <1>1, MulType
  <2>4. Mix(Mul(Zero, s), -1, Mul(Zero, s)) = Zero
    BY <2>3 DEF Mix, Zero, IntPolys
  <2>5. QED
    BY <2>1, <2>2, <2>4
<1>3. Mix(Zero, 1, Zero) = Zero
  BY DEF Mix, Zero
<1>4. Open(Pair(Zero, Zero), s) = Zero
  BY <1>2, <1>3 DEF Open, Pair
<1>5. Near(Zero, Zero, 0)
  BY <1>1, CongReflexive, NearCong
<1>6. QED
  BY <1>1, <1>2, <1>4, <1>5 DEF Carries, Pair

\* A combination carries the combination, and its error is the combined one.
LEMMA CarriesMix ==
  ASSUME RingAssumption, NEW s \in IntPolys, NEW c, NEW y \in IntPolys, NEW B \in Int,
         NEW d, NEW z \in IntPolys, NEW C \in Nat, Carries(c, s, y, B), Carries(d, s, z, C),
         NEW x \in Int, NEW X \in Int, -X <= x, x <= X, NEW p, p.a \in Elements, p.b \in Elements,
         Cong(p.a, Mix(c.a, x, d.a)), Cong(p.b, Mix(c.b, x, d.b))
  PROVE  Carries(p, s, Mix(y, x, z), B + X * C)
<1>1. /\ c.a \in IntPolys /\ c.b \in IntPolys /\ Open(c, s) \in IntPolys /\ Near(Open(c, s), y, B)
      /\ d.a \in IntPolys /\ d.b \in IntPolys /\ Open(d, s) \in IntPolys /\ Near(Open(d, s), z, C)
      /\ p.a \in IntPolys /\ p.b \in IntPolys
  BY CarriesType, ElementsAreIntPolys
<1>2. PICK q : q = Pair(Mix(c.a, x, d.a), Mix(c.b, x, d.b))
  OBVIOUS
<1>3. q.a = Mix(c.a, x, d.a) /\ q.b = Mix(c.b, x, d.b) /\ q.a \in IntPolys /\ q.b \in IntPolys
  BY <1>1, <1>2, MixType DEF Pair
<1>4. Open(q, s) = Mix(Open(c, s), x, Open(d, s))
  <2>1. Mul(q.a, s) = Mix(Mul(c.a, s), x, Mul(d.a, s))
    BY <1>1, <1>3, MulMixes
  <2>2. Mul(c.a, s) \in IntPolys /\ Mul(d.a, s) \in IntPolys
    BY <1>1, MulType
  <2>3. ASSUME NEW k \in IntPolys, NEW l \in IntPolys, NEW m \in IntPolys, NEW n \in IntPolys
        PROVE  Mix(Mix(k, x, l), 1, Mix(m, x, n)) = Mix(Mix(k, 1, m), x, Mix(l, 1, n))
    <3>1. ASSUME NEW i \in Idx
          PROVE  Mix(Mix(k, x, l), 1, Mix(m, x, n))[i] = Mix(Mix(k, 1, m), x, Mix(l, 1, n))[i]
      <4>1. PICK e \in Int, f \in Int, g \in Int, h \in Int : e = k[i] /\ f = l[i] /\ g = m[i] /\ h = n[i]
        BY DEF IntPolys
      <4>2. (e + x * f) + 1 * (g + x * h) = (e + 1 * g) + x * (f + 1 * h)
        OBVIOUS
      <4>3. QED
        BY <4>1, <4>2 DEF Mix
    <3>2. QED
      BY <3>1 DEF Mix
  <2>4. Mix(Mix(Mul(c.a, s), x, Mul(d.a, s)), 1, Mix(c.b, x, d.b))
          = Mix(Mix(Mul(c.a, s), 1, c.b), x, Mix(Mul(d.a, s), 1, d.b))
    BY ONLY <1>1, <2>2, <2>3
  <2>5. QED
    BY <1>3, <2>1, <2>4 DEF Open
<1>5. Cong(Open(p, s), Open(q, s)) /\ Open(p, s) \in IntPolys /\ Open(q, s) \in IntPolys
  BY <1>1, <1>3, OpenType, OpenCong, CongReflexive
<1>6. Near(Mix(Open(c, s), x, Open(d, s)), Mix(y, x, z), B + X * C)
  BY <1>1, NearMix
<1>7. Mix(y, x, z) \in IntPolys /\ B + X * C \in Int
  <2>1. B + X * C \in Int
    OBVIOUS
  <2>2. QED
    BY <2>1, MixType
<1>8. Near(Open(p, s), Mix(y, x, z), B + X * C)
  BY <1>4, <1>5, <1>6, <1>7, NearCongLeft
<1>9. QED
  BY <1>8 DEF Carries

\* A product with a polynomial multiplies the error by the weight of that polynomial.
LEMMA CarriesTimes ==
  ASSUME RingAssumption, NEW s \in IntPolys, NEW c, NEW y \in IntPolys, NEW B \in Nat,
         Carries(c, s, y, B), NEW t \in IntPolys, NEW w, Terms(w, N), NoLarger(t, w, N),
         NEW p, p.a \in Elements, p.b \in Elements, Cong(p.a, Mul(t, c.a)), Cong(p.b, Mul(t, c.b))
  PROVE  Carries(p, s, Mul(t, y), SumTo(w, N) * B) /\ SumTo(w, N) \in Int
<1>1. /\ c.a \in IntPolys /\ c.b \in IntPolys /\ Open(c, s) \in IntPolys /\ Near(Open(c, s), y, B)
      /\ p.a \in IntPolys /\ p.b \in IntPolys
  BY CarriesType, ElementsAreIntPolys
<1>2. PICK q : q = Pair(Mul(t, c.a), Mul(t, c.b))
  OBVIOUS
<1>3. q.a = Mul(t, c.a) /\ q.b = Mul(t, c.b) /\ q.a \in IntPolys /\ q.b \in IntPolys
  BY <1>1, <1>2, MulType DEF Pair
<1>4. Open(q, s) = Mul(t, Open(c, s))
  <2>0. Mul(c.a, s) \in IntPolys /\ 1 \in Int
    BY <1>1, MulType
  <2>1. Mul(Mul(t, c.a), s) = Mul(t, Mul(c.a, s))
    BY ONLY <1>1, RingAssumption, t \in IntPolys, s \in IntPolys, MulAssociates
  <2>2. Mul(t, Mix(Mul(c.a, s), 1, c.b)) = Mix(Mul(t, Mul(c.a, s)), 1, Mul(t, c.b))
    BY ONLY RingAssumption, <1>1, <2>0, t \in IntPolys, MulMixes
  <2>3. QED
    BY <1>3, <2>1, <2>2 DEF Open
<1>5. Cong(Open(p, s), Open(q, s)) /\ Open(p, s) \in IntPolys /\ Open(q, s) \in IntPolys
  BY <1>1, <1>3, OpenType, OpenCong, CongReflexive
<1>6. Near(Mul(t, Open(c, s)), Mul(t, y), SumTo(w, N) * B) /\ SumTo(w, N) \in Int
  BY <1>1, NearMul
<1>7. Mul(t, y) \in IntPolys /\ SumTo(w, N) * B \in Int
  BY <1>6, MulType
<1>8. Near(Open(p, s), Mul(t, y), SumTo(w, N) * B)
  BY <1>4, <1>5, <1>6, <1>7, NearCongLeft
<1>9. QED
  BY <1>6, <1>8 DEF Carries

\* An automorphism keeps the size of the error, under the image of the key.
LEMMA CarriesImage ==
  ASSUME RingAssumption, NEW s \in IntPolys, NEW c, NEW y \in IntPolys, NEW B \in Int,
         Carries(c, s, y, B), NEW g, Invertible(g)
  PROVE  Carries(CtAutomorphism(c, g), Image(s, g), Image(y, g), B)
<1>1. /\ c.a \in IntPolys /\ c.b \in IntPolys /\ Open(c, s) \in IntPolys /\ Near(Open(c, s), y, B)
      /\ c.a \in Elements /\ c.b \in Elements
  BY CarriesType
<1>2. PICK p, q : p = CtAutomorphism(c, g) /\ q = Pair(Image(c.a, g), Image(c.b, g))
  OBVIOUS
<1>3. /\ p.a \in Elements /\ p.b \in Elements /\ p.a \in IntPolys /\ p.b \in IntPolys
      /\ Cong(p.a, Image(c.a, g)) /\ Cong(p.b, Image(c.b, g))
      /\ q.a = Image(c.a, g) /\ q.b = Image(c.b, g) /\ q.a \in IntPolys /\ q.b \in IntPolys
      /\ Image(s, g) \in IntPolys /\ Image(y, g) \in IntPolys
  BY <1>1, <1>2, AutomorphismReads, ImagePlace DEF CtAutomorphism, Pair
<1>4. Open(q, Image(s, g)) = Image(Open(c, s), g)
  <2>1. Mul(c.a, s) \in IntPolys /\ 1 \in Int
    BY <1>1, MulType
  <2>2. Image(Mul(c.a, s), g) = Mul(Image(c.a, g), Image(s, g))
    BY <1>1, ImageMul
  <2>3. Image(Mix(Mul(c.a, s), 1, c.b), g) = Mix(Image(Mul(c.a, s), g), 1, Image(c.b, g))
    BY <1>1, <2>1, ImageMix
  <2>4. QED
    BY <1>3, <2>2, <2>3 DEF Open
<1>5. /\ Cong(Open(p, Image(s, g)), Open(q, Image(s, g)))
      /\ Open(p, Image(s, g)) \in IntPolys /\ Open(q, Image(s, g)) \in IntPolys
  BY <1>3, OpenType, OpenCong, CongReflexive
<1>6. Near(Image(Open(c, s), g), Image(y, g), B)
  BY <1>1, NearImage
<1>7. Near(Open(p, Image(s, g)), Image(y, g), B)
  BY <1>3, <1>4, <1>5, <1>6, NearCongLeft
<1>8. QED
  BY <1>2, <1>3, <1>7 DEF Carries

-----------------------------------------------------------------------------
(* The gadget                                                              *)

\* The powers of the base are positive numbers.
LEMMA GadgetTypes ==
  ASSUME RingAssumption, GadgetAssumption
  PROVE  /\ P \in Nat \ {0} /\ Base \in Nat \ {0} /\ Digits \in Nat /\ Digits \in 0 .. Digits
         /\ \A i \in 0 .. Digits : Base ^ i \in Nat \ {0}
         /\ \A i \in DigitIdx : i \in 0 .. Digits /\ i + 1 \in 0 .. Digits /\ i \in Int
<1>1. P \in Nat \ {0} /\ Base \in Nat \ {0} /\ Digits \in Nat /\ Base ^ 0 = 1
  BY DEF GadgetAssumption
<1> DEFINE T == {i \in 0 .. Digits : Base ^ i \in Nat \ {0}}
<1>2. 0 \in T
  BY <1>1
<1>3. ASSUME NEW n \in 0 .. Digits, n # Digits, n \in T
      PROVE  n + 1 \in T
  <2>1. Base ^ (n + 1) = Base * Base ^ n
    <3>1. n \in 0 .. Digits - 1
      BY <1>1, <1>3
    <3>2. QED
      BY <3>1 DEF GadgetAssumption
  <2>2. PICK x \in Nat \ {0} : x = Base ^ n
    BY <1>3
  <2>3. Base * x \in Nat \ {0}
    BY ONLY <1>1, x \in Nat \ {0}
  <2>4. QED
    BY <1>1, <1>3, <2>1, <2>2, <2>3
<1>4. \A n \in 0 .. Digits : n \in T
  <2> HIDE DEF T
  <2>1. QED
    BY ONLY <1>1, <1>2, <1>3, Induction
<1>5. QED
  BY <1>1, <1>4 DEF DigitIdx

\* The first k digits of a residue are its remainder by the k-th power.
LEMMA DigitStep ==
  ASSUME NEW x \in Nat, NEW b \in Nat \ {0}, NEW d \in Nat \ {0}
  PROVE  x % (b * d) = (x % d) + d * ((x \div d) % b)
<1>1. PICK y \in Int, r \in 0 .. d - 1 : y = x \div d /\ r = x % d /\ x = d * y + r
  <2>1. x \in Int
    OBVIOUS
  <2>2. QED
    BY <2>1, DivMod
<1>2. PICK e \in Int, f \in 0 .. b - 1 : e = y \div b /\ f = y % b /\ y = b * e + f
  BY DivMod
<1>3. PICK c \in Nat \ {0} : c = b * d
  OBVIOUS
<1>4. PICK g \in Nat : g = d * f
  OBVIOUS
<1>5. g <= d * (b - 1)
  BY <1>4, <1>2
<1>6. d * (b - 1) = c - d
  BY <1>3
<1>7. g + r \in 0 .. c - 1
  BY <1>1, <1>5, <1>6
<1>8. x = c * e + (g + r)
  <2>1. d * (b * e + f) = (b * d) * e + d * f
    BY ONLY b \in Nat, d \in Nat, e \in Int, f \in 0 .. b - 1
  <2>2. c * e \in Int
    OBVIOUS
  <2>3. d * y = c * e + g
    BY <1>2, <1>3, <1>4, <2>1
  <2>4. QED
    BY <1>1, <2>2, <2>3
<1>9. x % c = g + r
  <2>1. x \in Int
    OBVIOUS
  <2>2. QED
    BY ONLY <1>7, <1>8, <2>1, c \in Nat \ {0}, e \in Int, DivModUnique
<1>10. QED
  BY <1>1, <1>2, <1>3, <1>4, <1>9

\* What the first k digits make.
Part(p, k) == [j \in Idx |-> p[j] % Base ^ k]

\* The digits put a polynomial together again, as the code assumes of its gadget.
LEMMA DigitsCompose ==
  ASSUME RingAssumption, GadgetAssumption, NEW p \in Elements
  PROVE  /\ Part(p, 0) = Zero /\ Part(p, Digits) = p
         /\ \A k \in DigitIdx : Part(p, k + 1) = Mix(Part(p, k), Base ^ k, Digit(p, k))
         /\ \A k \in 0 .. Digits : Part(p, k) \in IntPolys
         /\ \A k \in DigitIdx : /\ Digit(p, k) \in IntPolys
                                /\ \A j \in Idx : 0 <= Digit(p, k)[j] /\ Digit(p, k)[j] <= Base - 1
<1>1. /\ Base \in Nat \ {0} /\ Digits \in Nat /\ Digits \in 0 .. Digits
      /\ \A i \in 0 .. Digits : Base ^ i \in Nat \ {0}
      /\ \A i \in DigitIdx : i \in 0 .. Digits /\ i + 1 \in 0 .. Digits /\ i \in Int
  BY GadgetTypes
<1>2. \A j \in Idx : p[j] \in Nat /\ p[j] < Q
  BY ElementsAreIntPolys
<1>3. Part(p, 0) = Zero
  <2>1. Base ^ 0 = 1
    BY DEF GadgetAssumption
  <2>2. \A j \in Idx : p[j] % 1 = 0
    BY <1>2
  <2>3. QED
    BY <2>1, <2>2 DEF Part, Zero
<1>4. Part(p, Digits) = p
  <2>1. PICK z \in Nat \ {0} : z = Base ^ Digits /\ z >= Q
    BY <1>1 DEF GadgetAssumption
  <2>2. ASSUME NEW j \in Idx
        PROVE  p[j] % z = p[j]
    <3>1. p[j] \in 0 .. z - 1
      BY <1>2, <2>1, QType
    <3>2. QED
      BY <3>1, ModSmall
  <2>3. QED
    BY <2>1, <2>2 DEF Part, Elements
<1>5. ASSUME NEW k \in 0 .. Digits
      PROVE  Part(p, k) \in IntPolys
  <2>1. PICK z \in Nat \ {0} : z = Base ^ k
    BY <1>1
  <2>2. \A j \in Idx : p[j] % z \in Int
    BY <1>2
  <2>3. QED
    BY <2>1, <2>2 DEF Part, IntPolys
<1>6. ASSUME NEW k \in DigitIdx
      PROVE  /\ Part(p, k + 1) = Mix(Part(p, k), Base ^ k, Digit(p, k))
             /\ Digit(p, k) \in IntPolys
             /\ \A j \in Idx : 0 <= Digit(p, k)[j] /\ Digit(p, k)[j] <= Base - 1
  <2>1. PICK z \in Nat \ {0} : z = Base ^ k
    BY <1>1
  <2>2. Base ^ (k + 1) = Base * z
    BY <2>1 DEF GadgetAssumption, DigitIdx
  <2>3. ASSUME NEW j \in Idx
        PROVE  /\ Part(p, k + 1)[j] = Mix(Part(p, k), Base ^ k, Digit(p, k))[j]
               /\ Digit(p, k)[j] \in 0 .. Base - 1
    <3>1. p[j] % (Base * z) = (p[j] % z) + z * ((p[j] \div z) % Base)
      BY <1>1, <1>2, DigitStep
    <3>2. Digit(p, k)[j] = (p[j] \div z) % Base
      BY <2>1 DEF Digit
    <3>3. Part(p, k + 1)[j] = p[j] % (Base * z) /\ Part(p, k)[j] = p[j] % z
      BY <2>1, <2>2 DEF Part
    <3>4. p[j] \div z \in Int
      BY <1>2
    <3>5. (p[j] \div z) % Base \in 0 .. Base - 1
      BY <1>1, <3>4, DivMod
    <3>6. QED
      BY <2>1, <3>1, <3>2, <3>3, <3>5 DEF Mix
  <2>4. Digit(p, k) \in IntPolys
    <3>1. \A j \in Idx : Digit(p, k)[j] \in Int
      BY <1>1, <2>3
    <3>2. QED
      BY <3>1 DEF Digit, IntPolys
  <2>5. Part(p, k + 1) = Mix(Part(p, k), Base ^ k, Digit(p, k))
    BY <2>3 DEF Part, Mix
  <2>6. QED
    BY <1>1, <2>3, <2>4, <2>5
<1>7. QED
  BY <1>3, <1>4, <1>5, <1>6

\* y[k] is the sum of t[0] to t[k - 1].
Loop(y, t) ==
  /\ y \in [0 .. Digits -> Elements] /\ y[0] = Zero
  /\ \A k \in DigitIdx : t[k] \in Elements /\ y[k + 1] = Plus(y[k], t[k])

\* The function that adds up what is made of each digit.
LEMMA LoopExists ==
  ASSUME RingAssumption, GadgetAssumption, NEW t, \A k \in DigitIdx : t[k] \in Elements
  PROVE  \E y : y = [k \in 0 .. Digits |-> IF k = 0 THEN Zero ELSE Plus(y[k - 1], t[k - 1])]
<1> DEFINE G == [k \in 0 .. Digits |-> [s \in Elements |-> IF k = 0 THEN s ELSE Plus(s, t[k - 1])]]
<1>0. Digits \in Nat /\ Zero \in Elements
  BY GadgetTypes DEF Zero, Elements, Residue, RingAssumption
<1>1. Recurs(Elements, Digits, Zero, G)
  <2>1. ASSUME NEW k \in 0 .. Digits, NEW s \in Elements
        PROVE  (IF k = 0 THEN s ELSE Plus(s, t[k - 1])) \in Elements
    <3>1. CASE k # 0
      <4>1. k - 1 \in DigitIdx
        BY <1>0, <3>1 DEF DigitIdx
      <4>2. t[k - 1] \in IntPolys /\ s \in IntPolys
        BY <4>1, ElementsAreIntPolys
      <4>3. QED
        BY <3>1, <4>2, PlusReads
    <3>2. QED
      BY <3>1
  <2>2. G \in [0 .. Digits -> [Elements -> Elements]]
    BY <2>1
  <2> HIDE DEF G
  <2>3. QED
    BY ONLY <1>0, <2>2 DEF Recurs
<1>2. PICK y : Solves(y, Elements, Digits, Zero, G)
  <2> HIDE DEF G
  <2>1. QED
    BY ONLY <1>1, RecursionExists, Zenon
<1>3. /\ y = [k \in 0 .. Digits |-> y[k]] /\ y[0] = Zero
      /\ \A k \in 0 .. Digits : k # 0 => y[k - 1] \in Elements /\ y[k] = G[k][y[k - 1]]
  <2> HIDE DEF G
  <2>1. QED
    BY ONLY <1>1, <1>2, SolvedSteps
<1>4. \A k \in 0 .. Digits : y[k] = IF k = 0 THEN Zero ELSE Plus(y[k - 1], t[k - 1])
  BY <1>3
<1>5. y = [k \in 0 .. Digits |-> IF k = 0 THEN Zero ELSE Plus(y[k - 1], t[k - 1])]
  BY ONLY <1>3, <1>4
<1>6. QED
  BY <1>5

\* Whatever solves the recursion is such a list of sums.
LEMMA LoopReads ==
  ASSUME RingAssumption, GadgetAssumption, NEW t, \A k \in DigitIdx : t[k] \in Elements, NEW y,
         y = [k \in 0 .. Digits |-> IF k = 0 THEN Zero ELSE Plus(y[k - 1], t[k - 1])]
  PROVE  Loop(y, t) /\ y[Digits] \in Elements
<1>0. Digits \in Nat /\ Zero \in Elements /\ Digits \in 0 .. Digits
  BY GadgetTypes DEF Zero, Elements, Residue, RingAssumption
<1> DEFINE T == {k \in 0 .. Digits : y[k] \in Elements}
<1>1. \A k \in 0 .. Digits : y[k] = IF k = 0 THEN Zero ELSE Plus(y[k - 1], t[k - 1])
  OBVIOUS
<1>2. 0 \in T
  BY <1>0, <1>1
<1>3. \A k \in DigitIdx : k + 1 \in 0 .. Digits /\ k + 1 # 0 /\ (k + 1) - 1 = k /\ y[k + 1] = Plus(y[k], t[k])
  BY <1>0, <1>1 DEF DigitIdx
<1>4. ASSUME NEW k \in 0 .. Digits, k # Digits, k \in T
      PROVE  k + 1 \in T
  <2>1. k \in DigitIdx
    BY <1>0, <1>4 DEF DigitIdx
  <2>2. y[k] \in IntPolys /\ t[k] \in IntPolys
    BY <1>4, <2>1, ElementsAreIntPolys
  <2>3. QED
    BY <1>3, <2>1, <2>2, PlusReads
<1>5. \A k \in 0 .. Digits : k \in T
  <2> HIDE DEF T
  <2>1. QED
    BY ONLY <1>0, <1>2, <1>4, Induction
<1>6. y = [k \in 0 .. Digits |-> y[k]]
  OBVIOUS
<1>7. y \in [0 .. Digits -> Elements]
  BY ONLY <1>5, <1>6
<1>8. QED
  BY <1>0, <1>1, <1>3, <1>7 DEF Loop

\* The sums of two lists carry the sum of what their terms carry.
LEMMA LoopCarries ==
  ASSUME RingAssumption, GadgetAssumption, NEW s \in IntPolys, NEW A, NEW B, NEW t, NEW u,
         Loop(A, t), Loop(B, u), NEW y \in [0 .. Digits -> IntPolys], y[0] = Zero, NEW C \in Nat,
         \A k \in DigitIdx : \E z \in IntPolys : /\ y[k + 1] = Mix(y[k], 1, z)
                                                 /\ Carries(Pair(t[k], u[k]), s, z, C)
  PROVE  Carries(Pair(A[Digits], B[Digits]), s, y[Digits], Digits * C)
<1>0. /\ Digits \in Nat /\ Digits \in 0 .. Digits
      /\ \A i \in DigitIdx : i \in 0 .. Digits /\ i + 1 \in 0 .. Digits /\ i \in Int
  BY GadgetTypes
<1> DEFINE T == {k \in 0 .. Digits : Carries(Pair(A[k], B[k]), s, y[k], k * C)}
<1>1. 0 \in T
  <2>1. A[0] = Zero /\ B[0] = Zero /\ 0 * C = 0
    BY DEF Loop
  <2>2. QED
    BY <1>0, <2>1, CarriesZero
<1>2. ASSUME NEW k \in 0 .. Digits, k # Digits, k \in T
      PROVE  k + 1 \in T
  <2>1. k \in DigitIdx /\ k + 1 \in 0 .. Digits
    BY <1>0, <1>2 DEF DigitIdx
  <2>2. PICK z \in IntPolys : y[k + 1] = Mix(y[k], 1, z) /\ Carries(Pair(t[k], u[k]), s, z, C)
    BY <2>1
  <2>3. /\ t[k] \in Elements /\ A[k] \in Elements /\ A[k + 1] = Plus(A[k], t[k])
        /\ u[k] \in Elements /\ B[k] \in Elements /\ B[k + 1] = Plus(B[k], u[k])
    BY <2>1 DEF Loop
  <2>4. PICK p, c, d : p = Pair(A[k + 1], B[k + 1]) /\ c = Pair(A[k], B[k]) /\ d = Pair(t[k], u[k])
    OBVIOUS
  <2>5. /\ p.a = A[k + 1] /\ p.b = B[k + 1] /\ c.a = A[k] /\ c.b = B[k] /\ d.a = t[k] /\ d.b = u[k]
    BY <2>4 DEF Pair
  <2>6. /\ p.a \in Elements /\ Cong(p.a, Mix(c.a, 1, d.a))
        /\ p.b \in Elements /\ Cong(p.b, Mix(c.b, 1, d.b))
    BY <2>3, <2>5, ElementsAreIntPolys, PlusReads
  <2>7. PICK K \in Int : K = k * C /\ K + 1 * C = (k + 1) * C
    BY <1>2
  <2>8. 1 \in Int /\ -1 <= 1 /\ 1 <= 1 /\ y[k] \in IntPolys /\ Carries(c, s, y[k], K) /\ Carries(d, s, z, C)
    BY <1>2, <2>2, <2>4, <2>7
  <2>9. Carries(p, s, Mix(y[k], 1, z), K + 1 * C)
    BY ONLY RingAssumption, s \in IntPolys, K \in Int, z \in IntPolys, C \in Nat, <2>6, <2>8, CarriesMix
  <2>10. QED
    BY <2>1, <2>2, <2>4, <2>7, <2>9
<1>3. \A k \in 0 .. Digits : k \in T
  <2> HIDE DEF T
  <2>1. QED
    BY ONLY <1>0, <1>1, <1>2, Induction
<1>4. QED
  BY <1>0, <1>3

\* A constant list.
LEMMA ConstantSum ==
  ASSUME NEW n \in Nat, NEW c \in Int, NEW f, \A i \in 0 .. n - 1 : f[i] = c
  PROVE  Terms(f, n) /\ SumTo(f, n) = n * c
<1>1. Terms(f, n) /\ 0 \in 0 .. n
  BY DEF Terms
<1> DEFINE T == {m \in 0 .. n : SumTo(f, m) = m * c}
<1>2. 0 \in T
  BY <1>1, SumLaw
<1>3. ASSUME NEW m \in 0 .. n, m # n, m \in T
      PROVE  m + 1 \in T
  <2>1. m \in 0 .. n - 1 /\ m + 1 \in 0 .. n
    BY <1>3
  <2>2. SumTo(f, m + 1) = SumTo(f, m) + f[m]
    BY <1>1, <1>3, SumLaw
  <2>3. (m + 1) * c = m * c + c
    OBVIOUS
  <2>4. QED
    BY <1>3, <2>1, <2>2, <2>3
<1>4. \A m \in 0 .. n : m \in T
  <2> HIDE DEF T
  <2>1. QED
    BY ONLY n \in Nat, <1>2, <1>3, Induction
<1>5. QED
  BY <1>1, <1>4

\* A digit times a row.
LEMMA DigitCarries ==
  ASSUME RingAssumption, GadgetAssumption, NEW s \in IntPolys, NEW c \in Elements, NEW k \in DigitIdx,
         NEW row, NEW y \in IntPolys, NEW E \in Nat, Carries(row, s, y, E)
  PROVE  /\ Carries(Pair(Times(Digit(c, k), row.a), Times(Digit(c, k), row.b)), s, Mul(Digit(c, k), y),
                    N * (Base - 1) * E)
         /\ Times(Digit(c, k), row.a) \in Elements /\ Times(Digit(c, k), row.b) \in Elements
         /\ Mul(Digit(c, k), y) \in IntPolys
<1>1. PICK t : t = Digit(c, k)
  OBVIOUS
<1>2. t \in IntPolys /\ \A j \in Idx : 0 <= t[j] /\ t[j] <= Base - 1
  BY <1>1, DigitsCompose
<1>3. row.a \in IntPolys /\ row.b \in IntPolys
  BY CarriesType
<1>4. PICK w, b : b = Base - 1 /\ w = [j \in Idx |-> b]
  OBVIOUS
<1>5. N \in Nat /\ Idx = 0 .. N - 1 /\ b \in Int
  BY <1>4, GadgetTypes DEF RingAssumption, Idx
<1>6. Terms(w, N) /\ SumTo(w, N) = N * b
  <2>1. \A i \in 0 .. N - 1 : w[i] = b
    BY <1>4, <1>5
  <2>2. QED
    BY ONLY <1>5, <2>1, ConstantSum
<1>7. NoLarger(t, w, N)
  <2>1. \A i \in Idx : -b <= t[i] /\ t[i] <= b
    BY <1>2, <1>4, <1>5 DEF IntPolys
  <2>2. QED
    BY <1>4, <1>5, <2>1 DEF NoLarger
<1>8. PICK p : p = Pair(Times(t, row.a), Times(t, row.b))
  OBVIOUS
<1>9. /\ p.a \in Elements /\ p.b \in Elements /\ Cong(p.a, Mul(t, row.a)) /\ Cong(p.b, Mul(t, row.b))
      /\ p.a = Times(t, row.a) /\ p.b = Times(t, row.b)
  BY <1>2, <1>3, <1>8, TimesCong DEF Pair
<1>10. Carries(p, s, Mul(t, y), SumTo(w, N) * E)
  BY ONLY RingAssumption, s \in IntPolys, y \in IntPolys, E \in Nat, Carries(row, s, y, E),
          <1>2, <1>6, <1>7, <1>9, CarriesTimes
<1>11. Mul(t, y) \in IntPolys
  BY <1>2, MulType
<1>12. QED
  BY <1>1, <1>4, <1>6, <1>8, <1>9, <1>10, <1>11

\* What the product of a digit and a row of a power carries, with the power in front.
LEMMA PowerRow ==
  ASSUME RingAssumption, GadgetAssumption, NEW c \in Elements, NEW k \in DigitIdx, NEW y \in IntPolys
  PROVE  /\ Cong(By(Power(k), y), By(Base ^ k, y)) /\ By(Base ^ k, y) \in IntPolys
         /\ By(Power(k), y) \in IntPolys
         /\ Mul(Part(c, k + 1), y) = Mix(Mul(Part(c, k), y), 1, Mul(Digit(c, k), By(Base ^ k, y)))
<1>1. PICK z \in Int : z = Base ^ k
  BY GadgetTypes
<1>2. PICK x \in Int : x = Power(k) /\ Same(x, z, Q)
  <2>1. z % Q \in 0 .. Q - 1 /\ Same(z % Q, z, Q)
    BY QType, DivMod, SameMod
  <2>2. z % Q \in Int
    BY <2>1, QType
  <2>3. QED
    BY <1>1, <2>1, <2>2 DEF Power
<1>3. /\ By(x, y) \in IntPolys /\ \A i \in Idx : By(x, y)[i] = x * y[i]
      /\ By(z, y) \in IntPolys /\ \A i \in Idx : By(z, y)[i] = z * y[i]
  BY ByType
<1>4. Cong(By(x, y), By(z, y))
  <2>1. ASSUME NEW i \in Idx
        PROVE  Same(By(x, y)[i], By(z, y)[i], Q)
    <3>1. PICK v \in Int : v = y[i]
      BY DEF IntPolys
    <3>2. Same(v, v, Q)
      BY QType, SameReflexive
    <3>3. Same(x * v, z * v, Q)
      BY <1>2, <3>2, QType, SameProduct
    <3>4. QED
      BY <1>3, <3>1, <3>3
  <2>2. QED
    BY <2>1 DEF Cong
<1>5. PICK d, e : d = Digit(c, k) /\ e = Part(c, k)
  OBVIOUS
<1>6. d \in IntPolys /\ e \in IntPolys /\ Part(c, k + 1) = Mix(e, z, d)
  <2>1. k \in 0 .. Digits
    BY GadgetTypes
  <2>2. QED
    BY <1>1, <1>5, <2>1, DigitsCompose
<1>7. Mul(Mix(e, z, d), y) = Mix(Mul(e, y), z, Mul(d, y)) /\ Mul(e, y) \in IntPolys /\ Mul(d, y) \in IntPolys
  BY <1>6, MulMixes, MulType
<1>8. Mul(d, By(z, y)) = By(z, Mul(d, y))
  <2>1. Zero \in IntPolys /\ Mul(d, Zero) = Mul(Zero, d) /\ Mul(Zero, d) = Zero
    BY <1>6, ByType, CarriesZero, MulCommutes
  <2>2. Mul(d, Mix(Zero, z, y)) = Mix(Mul(d, Zero), z, Mul(d, y))
    BY <1>6, <2>1, MulMixes
  <2>3. QED
    BY <2>1, <2>2 DEF By
<1>9. Mix(Mul(e, y), z, Mul(d, y)) = Mix(Mul(e, y), 1, By(z, Mul(d, y)))
  <2>1. PICK f \in IntPolys, g \in IntPolys : f = Mul(e, y) /\ g = Mul(d, y)
    BY <1>7
  <2>2. By(z, g) \in IntPolys /\ \A i \in Idx : By(z, g)[i] = z * g[i]
    BY ByType
  <2>3. \A i \in Idx : f[i] \in Int /\ g[i] \in Int /\ z * g[i] \in Int
    BY DEF IntPolys
  <2>4. \A i \in Idx : f[i] + z * g[i] = f[i] + 1 * By(z, g)[i]
    BY <2>2, <2>3
  <2>5. Mix(f, z, g) = Mix(f, 1, By(z, g))
    BY <2>4 DEF Mix
  <2>6. QED
    BY <2>1, <2>5
<1>10. QED
  BY <1>1, <1>2, <1>3, <1>4, <1>5, <1>6, <1>7, <1>8, <1>9

\* The terms of the sums of key_switch and of external_product, in a and in b.
SwitchA(c, rows) == [k \in DigitIdx |-> Times(Digit(c.a, k), rows[k].a)]
SwitchB(c, rows) == [k \in DigitIdx |-> Times(Digit(c.a, k), rows[k].b)]
ProductA(c, rows) ==
  [k \in DigitIdx |-> Plus(Times(Digit(c.a, k), rows[k].a), Times(Digit(c.b, k), rows[Digits + k].a))]
ProductB(c, rows) ==
  [k \in DigitIdx |-> Plus(Times(Digit(c.a, k), rows[k].b), Times(Digit(c.b, k), rows[Digits + k].b))]

\* key_switch adds up along the digits: the first component.
LEMMA SwitchALoop ==
  ASSUME RingAssumption, GadgetAssumption, NEW c, NEW rows,
         \A k \in DigitIdx : SwitchA(c, rows)[k] \in Elements
  PROVE  \E y : /\ Loop(y, SwitchA(c, rows)) /\ y[Digits] \in Elements
                /\ KeySwitch(c, rows).a = y[Digits]
<1> DEFINE F(g) == [k \in 0 .. Digits |->
                      IF k = 0 THEN Zero
                      ELSE Plus(g[k - 1], Times(Digit(c.a, k - 1), rows[k - 1].a))]
<1>1. PICK x : x = [k \in 0 .. Digits |-> IF k = 0 THEN Zero ELSE Plus(x[k - 1], SwitchA(c, rows)[k - 1])]
  BY LoopExists
<1>2. \A k \in 0 .. Digits : k # 0 => k - 1 \in DigitIdx
  BY GadgetTypes DEF DigitIdx
<1>3. \A k \in 0 .. Digits : k # 0 =>
        SwitchA(c, rows)[k - 1] = Times(Digit(c.a, k - 1), rows[k - 1].a)
  BY <1>2 DEF SwitchA
<1>4. x = F(x)
  <2>1. \A k \in 0 .. Digits : x[k] = F(x)[k]
    BY <1>1, <1>3
  <2>2. x = [k \in 0 .. Digits |-> x[k]]
    BY <1>1
  <2>3. QED
    BY <2>1, <2>2
<1>5. PICK y : y = F(y) /\ KeySwitch(c, rows).a = y[Digits]
  <2>1. KeySwitch(c, rows).a = (CHOOSE s : s = F(s))[Digits]
    BY Zenon DEF DigitSum, KeySwitch, ExternalProduct, Pair
  <2> HIDE DEF F
  <2>2. QED
    BY ONLY <1>4, <2>1, Zenon
<1>6. y = [k \in 0 .. Digits |-> IF k = 0 THEN Zero ELSE Plus(y[k - 1], SwitchA(c, rows)[k - 1])]
  <2>1. \A k \in 0 .. Digits : y[k] = IF k = 0 THEN Zero ELSE Plus(y[k - 1], SwitchA(c, rows)[k - 1])
    BY <1>3, <1>5
  <2>2. y = [k \in 0 .. Digits |-> y[k]]
    BY <1>5
  <2>3. QED
    BY ONLY <2>1, <2>2
<1>7. Loop(y, SwitchA(c, rows)) /\ y[Digits] \in Elements
  BY <1>6, LoopReads
<1>8. QED
  BY <1>5, <1>7

\* The second component of key_switch.
LEMMA SwitchBLoop ==
  ASSUME RingAssumption, GadgetAssumption, NEW c, NEW rows,
         \A k \in DigitIdx : SwitchB(c, rows)[k] \in Elements
  PROVE  \E y : /\ Loop(y, SwitchB(c, rows)) /\ y[Digits] \in Elements
                /\ KeySwitch(c, rows).b = Plus(c.b, y[Digits])
<1> DEFINE F(g) == [k \in 0 .. Digits |->
                      IF k = 0 THEN Zero
                      ELSE Plus(g[k - 1], Times(Digit(c.a, k - 1), rows[k - 1].b))]
<1>1. PICK x : x = [k \in 0 .. Digits |-> IF k = 0 THEN Zero ELSE Plus(x[k - 1], SwitchB(c, rows)[k - 1])]
  BY LoopExists
<1>2. \A k \in 0 .. Digits : k # 0 => k - 1 \in DigitIdx
  BY GadgetTypes DEF DigitIdx
<1>3. \A k \in 0 .. Digits : k # 0 =>
        SwitchB(c, rows)[k - 1] = Times(Digit(c.a, k - 1), rows[k - 1].b)
  BY <1>2 DEF SwitchB
<1>4. x = F(x)
  <2>1. \A k \in 0 .. Digits : x[k] = F(x)[k]
    BY <1>1, <1>3
  <2>2. x = [k \in 0 .. Digits |-> x[k]]
    BY <1>1
  <2>3. QED
    BY <2>1, <2>2
<1>5. PICK y : y = F(y) /\ KeySwitch(c, rows).b = Plus(c.b, y[Digits])
  <2>1. KeySwitch(c, rows).b = Plus(c.b, (CHOOSE s : s = F(s))[Digits])
    BY Zenon DEF DigitSum, KeySwitch, ExternalProduct, Pair
  <2> HIDE DEF F
  <2>2. QED
    BY ONLY <1>4, <2>1, Zenon
<1>6. y = [k \in 0 .. Digits |-> IF k = 0 THEN Zero ELSE Plus(y[k - 1], SwitchB(c, rows)[k - 1])]
  <2>1. \A k \in 0 .. Digits : y[k] = IF k = 0 THEN Zero ELSE Plus(y[k - 1], SwitchB(c, rows)[k - 1])
    BY <1>3, <1>5
  <2>2. y = [k \in 0 .. Digits |-> y[k]]
    BY <1>5
  <2>3. QED
    BY ONLY <2>1, <2>2
<1>7. Loop(y, SwitchB(c, rows)) /\ y[Digits] \in Elements
  BY <1>6, LoopReads
<1>8. QED
  BY <1>5, <1>7

\* external_product adds up along the digits: the first component.
LEMMA ProductALoop ==
  ASSUME RingAssumption, GadgetAssumption, NEW c, NEW rows,
         \A k \in DigitIdx : ProductA(c, rows)[k] \in Elements
  PROVE  \E y : /\ Loop(y, ProductA(c, rows)) /\ y[Digits] \in Elements
                /\ ExternalProduct(c, rows).a = y[Digits]
<1> DEFINE F(g) == [k \in 0 .. Digits |->
                      IF k = 0 THEN Zero
                      ELSE Plus(g[k - 1], Plus(Times(Digit(c.a, k - 1), rows[k - 1].a), Times(Digit(c.b, k - 1), rows[Digits + (k - 1)].a)))]
<1>1. PICK x : x = [k \in 0 .. Digits |-> IF k = 0 THEN Zero ELSE Plus(x[k - 1], ProductA(c, rows)[k - 1])]
  BY LoopExists
<1>2. \A k \in 0 .. Digits : k # 0 => k - 1 \in DigitIdx
  BY GadgetTypes DEF DigitIdx
<1>3. \A k \in 0 .. Digits : k # 0 =>
        ProductA(c, rows)[k - 1] = Plus(Times(Digit(c.a, k - 1), rows[k - 1].a), Times(Digit(c.b, k - 1), rows[Digits + (k - 1)].a))
  BY <1>2 DEF ProductA
<1>4. x = F(x)
  <2>1. \A k \in 0 .. Digits : x[k] = F(x)[k]
    BY <1>1, <1>3
  <2>2. x = [k \in 0 .. Digits |-> x[k]]
    BY <1>1
  <2>3. QED
    BY <2>1, <2>2
<1>5. PICK y : y = F(y) /\ ExternalProduct(c, rows).a = y[Digits]
  <2>1. ExternalProduct(c, rows).a = (CHOOSE s : s = F(s))[Digits]
    BY Zenon DEF DigitSum, KeySwitch, ExternalProduct, Pair
  <2> HIDE DEF F
  <2>2. QED
    BY ONLY <1>4, <2>1, Zenon
<1>6. y = [k \in 0 .. Digits |-> IF k = 0 THEN Zero ELSE Plus(y[k - 1], ProductA(c, rows)[k - 1])]
  <2>1. \A k \in 0 .. Digits : y[k] = IF k = 0 THEN Zero ELSE Plus(y[k - 1], ProductA(c, rows)[k - 1])
    BY <1>3, <1>5
  <2>2. y = [k \in 0 .. Digits |-> y[k]]
    BY <1>5
  <2>3. QED
    BY ONLY <2>1, <2>2
<1>7. Loop(y, ProductA(c, rows)) /\ y[Digits] \in Elements
  BY <1>6, LoopReads
<1>8. QED
  BY <1>5, <1>7

\* The second component of external_product.
LEMMA ProductBLoop ==
  ASSUME RingAssumption, GadgetAssumption, NEW c, NEW rows,
         \A k \in DigitIdx : ProductB(c, rows)[k] \in Elements
  PROVE  \E y : /\ Loop(y, ProductB(c, rows)) /\ y[Digits] \in Elements
                /\ ExternalProduct(c, rows).b = y[Digits]
<1> DEFINE F(g) == [k \in 0 .. Digits |->
                      IF k = 0 THEN Zero
                      ELSE Plus(g[k - 1], Plus(Times(Digit(c.a, k - 1), rows[k - 1].b), Times(Digit(c.b, k - 1), rows[Digits + (k - 1)].b)))]
<1>1. PICK x : x = [k \in 0 .. Digits |-> IF k = 0 THEN Zero ELSE Plus(x[k - 1], ProductB(c, rows)[k - 1])]
  BY LoopExists
<1>2. \A k \in 0 .. Digits : k # 0 => k - 1 \in DigitIdx
  BY GadgetTypes DEF DigitIdx
<1>3. \A k \in 0 .. Digits : k # 0 =>
        ProductB(c, rows)[k - 1] = Plus(Times(Digit(c.a, k - 1), rows[k - 1].b), Times(Digit(c.b, k - 1), rows[Digits + (k - 1)].b))
  BY <1>2 DEF ProductB
<1>4. x = F(x)
  <2>1. \A k \in 0 .. Digits : x[k] = F(x)[k]
    BY <1>1, <1>3
  <2>2. x = [k \in 0 .. Digits |-> x[k]]
    BY <1>1
  <2>3. QED
    BY <2>1, <2>2
<1>5. PICK y : y = F(y) /\ ExternalProduct(c, rows).b = y[Digits]
  <2>1. ExternalProduct(c, rows).b = (CHOOSE s : s = F(s))[Digits]
    BY Zenon DEF DigitSum, KeySwitch, ExternalProduct, Pair
  <2> HIDE DEF F
  <2>2. QED
    BY ONLY <1>4, <2>1, Zenon
<1>6. y = [k \in 0 .. Digits |-> IF k = 0 THEN Zero ELSE Plus(y[k - 1], ProductB(c, rows)[k - 1])]
  <2>1. \A k \in 0 .. Digits : y[k] = IF k = 0 THEN Zero ELSE Plus(y[k - 1], ProductB(c, rows)[k - 1])
    BY <1>3, <1>5
  <2>2. y = [k \in 0 .. Digits |-> y[k]]
    BY <1>5
  <2>3. QED
    BY ONLY <2>1, <2>2
<1>7. Loop(y, ProductB(c, rows)) /\ y[Digits] \in Elements
  BY <1>6, LoopReads
<1>8. QED
  BY <1>5, <1>7

\* Without a mask, a polynomial carries itself under every key.
LEMMA PlainCarries ==
  ASSUME RingAssumption, NEW s \in IntPolys, NEW b \in Elements
  PROVE  Carries(Pair(Zero, b), s, b, 0) /\ b \in IntPolys /\ Zero \in Elements /\ Zero \in IntPolys
<1>1. Mul(Zero, s) = Zero /\ b \in IntPolys /\ Zero \in IntPolys /\ Zero \in Elements
  BY CarriesZero, ElementsAreIntPolys
<1>2. Mix(Zero, 1, b) = b
  BY <1>1 DEF Mix, Zero, IntPolys
<1>3. Near(b, b, 0)
  BY <1>1, CongReflexive, NearCong
<1>4. QED
  BY <1>1, <1>2, <1>3 DEF Carries, Open, Pair

\* The sizes of a sum.
LEMMA CarriesSum ==
  ASSUME RingAssumption, NEW s \in IntPolys, NEW c, NEW d, NEW y \in IntPolys, NEW z \in IntPolys,
         NEW B \in Int, NEW C \in Nat, Carries(c, s, y, B), Carries(d, s, z, C)
  PROVE  Carries(Pair(Plus(c.a, d.a), Plus(c.b, d.b)), s, Mix(y, 1, z), B + C)
<1>1. c.a \in IntPolys /\ c.b \in IntPolys /\ d.a \in IntPolys /\ d.b \in IntPolys
  BY CarriesType
<1>2. PICK p : p = Pair(Plus(c.a, d.a), Plus(c.b, d.b))
  OBVIOUS
<1>3. /\ p.a \in Elements /\ p.b \in Elements
      /\ Cong(p.a, Mix(c.a, 1, d.a)) /\ Cong(p.b, Mix(c.b, 1, d.b))
  BY <1>1, <1>2, PlusReads DEF Pair
<1>4. 1 \in Int /\ -1 <= 1 /\ 1 <= 1 /\ 1 * C = C
  OBVIOUS
<1>5. Carries(p, s, Mix(y, 1, z), B + 1 * C)
  BY ONLY RingAssumption, s \in IntPolys, y \in IntPolys, z \in IntPolys, B \in Int, C \in Nat,
          Carries(c, s, y, B), Carries(d, s, z, C), <1>3, <1>4, CarriesMix
<1>6. QED
  BY <1>2, <1>4, <1>5

\* key_switch: what c carries under one key its result carries under the other.
LEMMA KeySwitchCarries ==
  ASSUME RingAssumption, GadgetAssumption, NEW from \in IntPolys, NEW to \in IntPolys, NEW c,
         NEW y \in IntPolys, NEW B \in Int, Carries(c, from, y, B), NEW rows, NEW E \in Nat,
         \A k \in DigitIdx : Carries(rows[k], to, By(Power(k), from), E)
  PROVE  Carries(KeySwitch(c, rows), to, y, B + Digits * (N * (Base - 1) * E))
<1>0. /\ Digits \in Nat /\ Digits \in 0 .. Digits
      /\ \A i \in DigitIdx : i \in 0 .. Digits /\ i + 1 \in 0 .. Digits /\ i \in Int
  BY GadgetTypes
<1>1. /\ c.a \in Elements /\ c.b \in Elements /\ c.a \in IntPolys /\ c.b \in IntPolys
      /\ Near(Open(c, from), y, B) /\ Open(c, from) \in IntPolys
  BY CarriesType
<1>2. PICK t, u : t = SwitchA(c, rows) /\ u = SwitchB(c, rows)
  OBVIOUS
<1>3. PICK C \in Nat : C = N * (Base - 1) * E
  <2>1. N \in Nat /\ Base - 1 \in Nat
    BY GadgetTypes DEF RingAssumption
  <2>2. N * (Base - 1) * E \in Nat
    BY ONLY <2>1, E \in Nat
  <2>3. QED
    BY <2>2
<1>4. PICK f : f = [k \in 0 .. Digits |-> Mul(Part(c.a, k), from)]
  OBVIOUS
<1>5. f \in [0 .. Digits -> IntPolys] /\ f[0] = Zero /\ f[Digits] = Mul(c.a, from)
  <2>1. /\ \A k \in 0 .. Digits : Part(c.a, k) \in IntPolys
        /\ Part(c.a, 0) = Zero /\ Part(c.a, Digits) = c.a
    BY <1>1, DigitsCompose
  <2>2. \A k \in 0 .. Digits : Mul(Part(c.a, k), from) \in IntPolys
    BY <2>1, MulType
  <2>3. Mul(Zero, from) = Zero
    BY CarriesZero
  <2>4. QED
    BY <1>0, <1>4, <2>1, <2>2, <2>3
<1>6. ASSUME NEW k \in DigitIdx
      PROVE  /\ \E z \in IntPolys : f[k + 1] = Mix(f[k], 1, z) /\ Carries(Pair(t[k], u[k]), to, z, C)
             /\ t[k] \in Elements /\ u[k] \in Elements
  <2>1. PICK v : v = By(Base ^ k, from)
    OBVIOUS
  <2>2. /\ Cong(By(Power(k), from), v) /\ v \in IntPolys /\ By(Power(k), from) \in IntPolys
        /\ Mul(Part(c.a, k + 1), from) = Mix(Mul(Part(c.a, k), from), 1, Mul(Digit(c.a, k), v))
    BY <1>1, <2>1, PowerRow
  <2>3. Carries(rows[k], to, v, E)
    BY <2>2, CongReflexive, CarriesCong
  <2>4. /\ Carries(Pair(Times(Digit(c.a, k), rows[k].a), Times(Digit(c.a, k), rows[k].b)), to,
                   Mul(Digit(c.a, k), v), N * (Base - 1) * E)
        /\ Times(Digit(c.a, k), rows[k].a) \in Elements /\ Times(Digit(c.a, k), rows[k].b) \in Elements
        /\ Mul(Digit(c.a, k), v) \in IntPolys
    BY <1>1, <2>2, <2>3, DigitCarries
  <2>5. t[k] = Times(Digit(c.a, k), rows[k].a) /\ u[k] = Times(Digit(c.a, k), rows[k].b)
    BY <1>2 DEF SwitchA, SwitchB
  <2>6. f[k + 1] = Mix(f[k], 1, Mul(Digit(c.a, k), v))
    BY <1>0, <1>4, <2>2
  <2>7. QED
    BY <1>3, <2>4, <2>5, <2>6
<1>7. PICK A : Loop(A, t) /\ KeySwitch(c, rows).a = A[Digits]
  BY <1>2, <1>6, SwitchALoop
<1>8. PICK D : Loop(D, u) /\ KeySwitch(c, rows).b = Plus(c.b, D[Digits])
  BY <1>2, <1>6, SwitchBLoop
<1>9. Carries(Pair(A[Digits], D[Digits]), to, f[Digits], Digits * C)
  BY ONLY RingAssumption, GadgetAssumption, to \in IntPolys, C \in Nat, <1>5, <1>6, <1>7, <1>8, LoopCarries
<1>10. PICK d, e : d = Pair(A[Digits], D[Digits]) /\ e = Pair(Zero, c.b)
  OBVIOUS
<1>11. /\ Carries(e, to, c.b, 0) /\ Mul(c.a, from) \in IntPolys /\ e.a = Zero /\ e.b = c.b
       /\ d.a = A[Digits] /\ d.b = D[Digits]
  BY <1>1, <1>10, PlainCarries, MulType DEF Pair
<1>12. PICK K \in Nat : K = Digits * C
  BY <1>0
<1>13. Carries(Pair(Plus(e.a, d.a), Plus(e.b, d.b)), to, Mix(c.b, 1, Mul(c.a, from)), 0 + K)
  <2>1. Carries(d, to, Mul(c.a, from), K) /\ 0 \in Int
    BY <1>5, <1>9, <1>10, <1>12
  <2>2. QED
    BY <1>1, <1>11, <2>1, CarriesSum
<1>14. Plus(e.a, d.a) = KeySwitch(c, rows).a
  <2>1. A[Digits] \in Elements
    BY <1>0, <1>7 DEF Loop
  <2>2. \A i \in Idx : A[Digits][i] \in 0 .. Q - 1 /\ 0 + A[Digits][i] = A[Digits][i]
    BY <2>1, QType DEF Elements, Residue
  <2>3. \A i \in Idx : A[Digits][i] % Q = A[Digits][i]
    BY <2>2, QType, ModSmall
  <2>4. Plus(Zero, A[Digits]) = [i \in Idx |-> A[Digits][i]]
    BY <2>2, <2>3 DEF Plus, Zero
  <2>5. A[Digits] = [i \in Idx |-> A[Digits][i]]
    BY <2>1 DEF Elements
  <2>6. QED
    BY <1>7, <1>11, <2>4, <2>5
<1>15. KeySwitch(c, rows) = Pair(Plus(e.a, d.a), Plus(e.b, d.b))
  <2>1. KeySwitch(c, rows) = Pair(KeySwitch(c, rows).a, KeySwitch(c, rows).b)
    BY DEF KeySwitch, Pair
  <2>2. QED
    BY <1>8, <1>11, <1>14, <2>1
<1>16. Mix(c.b, 1, Mul(c.a, from)) = Open(c, from)
  BY <1>1, <1>11 DEF Open, Mix, IntPolys
<1>17. Carries(KeySwitch(c, rows), to, y, K + B)
  <2>1. 0 + K = K /\ K \in Int
    OBVIOUS
  <2>2. Carries(KeySwitch(c, rows), to, Open(c, from), K)
    BY <1>13, <1>15, <1>16, <2>1
  <2>3. QED
    BY <1>1, <2>1, <2>2, CarriesNear
<1>18. K + B = B + Digits * (N * (Base - 1) * E)
  BY <1>3, <1>12
<1>19. QED
  BY <1>17, <1>18

\* external_product: the rows carry the powers of m, in the first half with the key.
LEMMA ExternalCarries ==
  ASSUME RingAssumption, GadgetAssumption, NEW s \in IntPolys, NEW m \in IntPolys, NEW c,
         NEW y, NEW B, Carries(c, s, y, B), NEW rows, NEW E \in Nat,
         \A k \in DigitIdx : /\ Carries(rows[k], s, By(Power(k), Mul(m, s)), E)
                             /\ Carries(rows[Digits + k], s, By(Power(k), m), E)
  PROVE  Carries(ExternalProduct(c, rows), s, Mul(m, Open(c, s)), 2 * (Digits * (N * (Base - 1) * E)))
<1>0. /\ Digits \in Nat /\ Digits \in 0 .. Digits
      /\ \A i \in DigitIdx : i \in 0 .. Digits /\ i + 1 \in 0 .. Digits /\ i \in Int
  BY GadgetTypes
<1>1. c.a \in Elements /\ c.b \in Elements /\ c.a \in IntPolys /\ c.b \in IntPolys
  BY CarriesType
<1>2. PICK t, u : t = ProductA(c, rows) /\ u = ProductB(c, rows)
  OBVIOUS
<1>3. PICK C \in Nat : C = N * (Base - 1) * E
  <2>1. N \in Nat /\ Base - 1 \in Nat
    BY GadgetTypes DEF RingAssumption
  <2>2. N * (Base - 1) * E \in Nat
    BY ONLY <2>1, E \in Nat
  <2>3. QED
    BY <2>2
<1>4. PICK ms \in IntPolys : ms = Mul(m, s)
  BY MulType
<1>5. PICK f : f = [k \in 0 .. Digits |-> Mix(Mul(Part(c.a, k), ms), 1, Mul(Part(c.b, k), m))]
  OBVIOUS
<1>6. /\ f \in [0 .. Digits -> IntPolys] /\ f[0] = Zero
      /\ f[Digits] = Mix(Mul(c.a, ms), 1, Mul(c.b, m))
      /\ \A k \in 0 .. Digits : Mul(Part(c.a, k), ms) \in IntPolys /\ Mul(Part(c.b, k), m) \in IntPolys
  <2>1. /\ \A k \in 0 .. Digits : Part(c.a, k) \in IntPolys /\ Part(c.b, k) \in IntPolys
        /\ Part(c.a, 0) = Zero /\ Part(c.a, Digits) = c.a
        /\ Part(c.b, 0) = Zero /\ Part(c.b, Digits) = c.b
    BY <1>1, DigitsCompose
  <2>2. \A k \in 0 .. Digits : Mul(Part(c.a, k), ms) \in IntPolys /\ Mul(Part(c.b, k), m) \in IntPolys
    BY <2>1, MulType
  <2>3. \A k \in 0 .. Digits : Mix(Mul(Part(c.a, k), ms), 1, Mul(Part(c.b, k), m)) \in IntPolys
    <3>1. 1 \in Int
      OBVIOUS
    <3>2. QED
      BY <2>2, <3>1, MixType
  <2>4. Mul(Zero, ms) = Zero /\ Mul(Zero, m) = Zero /\ Mix(Zero, 1, Zero) = Zero
    BY CarriesZero DEF Mix, Zero
  <2>5. 0 \in 0 .. Digits
    BY <1>0
  <2>6. QED
    BY <1>0, <1>5, <2>1, <2>2, <2>3, <2>4, <2>5
<1>7. ASSUME NEW k \in DigitIdx
      PROVE  /\ \E z \in IntPolys : f[k + 1] = Mix(f[k], 1, z) /\ Carries(Pair(t[k], u[k]), s, z, 2 * C)
             /\ t[k] \in Elements /\ u[k] \in Elements
  <2>1. PICK v, w : v = By(Base ^ k, ms) /\ w = By(Base ^ k, m)
    OBVIOUS
  <2>2. /\ Cong(By(Power(k), ms), v) /\ v \in IntPolys /\ By(Power(k), ms) \in IntPolys
        /\ Mul(Part(c.a, k + 1), ms) = Mix(Mul(Part(c.a, k), ms), 1, Mul(Digit(c.a, k), v))
    BY <1>1, <2>1, PowerRow
  <2>3. /\ Cong(By(Power(k), m), w) /\ w \in IntPolys /\ By(Power(k), m) \in IntPolys
        /\ Mul(Part(c.b, k + 1), m) = Mix(Mul(Part(c.b, k), m), 1, Mul(Digit(c.b, k), w))
    BY <1>1, <2>1, PowerRow
  <2>4. Carries(rows[k], s, v, E) /\ Carries(rows[Digits + k], s, w, E)
    BY <1>4, <2>2, <2>3, CongReflexive, CarriesCong
  <2>5. PICK d, e : /\ d = Pair(Times(Digit(c.a, k), rows[k].a), Times(Digit(c.a, k), rows[k].b))
                    /\ e = Pair(Times(Digit(c.b, k), rows[Digits + k].a),
                                Times(Digit(c.b, k), rows[Digits + k].b))
    OBVIOUS
  <2>6. /\ Carries(d, s, Mul(Digit(c.a, k), v), C) /\ Mul(Digit(c.a, k), v) \in IntPolys
        /\ d.a = Times(Digit(c.a, k), rows[k].a) /\ d.b = Times(Digit(c.a, k), rows[k].b)
    BY <1>1, <1>3, <2>2, <2>4, <2>5, DigitCarries DEF Pair
  <2>7. /\ Carries(e, s, Mul(Digit(c.b, k), w), C) /\ Mul(Digit(c.b, k), w) \in IntPolys
        /\ e.a = Times(Digit(c.b, k), rows[Digits + k].a) /\ e.b = Times(Digit(c.b, k), rows[Digits + k].b)
    BY <1>1, <1>3, <2>3, <2>4, <2>5, DigitCarries DEF Pair
  <2>8. t[k] = Plus(d.a, e.a) /\ u[k] = Plus(d.b, e.b)
    BY <1>2, <2>6, <2>7 DEF ProductA, ProductB
  <2>9. PICK g \in IntPolys, h \in IntPolys : g = Mul(Digit(c.a, k), v) /\ h = Mul(Digit(c.b, k), w)
    BY <2>6, <2>7
  <2>10. Carries(Pair(t[k], u[k]), s, Mix(g, 1, h), C + C) /\ C + C = 2 * C
    BY <2>6, <2>7, <2>8, <2>9, CarriesSum
  <2>11. t[k] \in Elements /\ u[k] \in Elements
    BY <2>10 DEF Carries, Pair
  <2>12. f[k + 1] = Mix(f[k], 1, Mix(g, 1, h)) /\ Mix(g, 1, h) \in IntPolys
    <3>1. PICK x \in IntPolys, z \in IntPolys : x = Mul(Part(c.a, k), ms) /\ z = Mul(Part(c.b, k), m)
      BY <1>0, <1>6
    <3>2. f[k] = Mix(x, 1, z) /\ f[k + 1] = Mix(Mix(x, 1, g), 1, Mix(z, 1, h))
      BY <1>0, <1>5, <2>2, <2>3, <2>9, <3>1
    <3>3. Mix(Mix(x, 1, g), 1, Mix(z, 1, h)) = Mix(Mix(x, 1, z), 1, Mix(g, 1, h))
      BY DEF Mix, IntPolys
    <3>4. Mix(g, 1, h) \in IntPolys
      BY DEF Mix, IntPolys
    <3>5. QED
      BY <3>2, <3>3, <3>4
  <2>13. QED
    BY <2>10, <2>11, <2>12
<1>8. PICK A : Loop(A, t) /\ ExternalProduct(c, rows).a = A[Digits]
  BY <1>2, <1>7, ProductALoop
<1>9. PICK D : Loop(D, u) /\ ExternalProduct(c, rows).b = D[Digits]
  BY <1>2, <1>7, ProductBLoop
<1>10. Carries(Pair(A[Digits], D[Digits]), s, f[Digits], Digits * (2 * C))
  <2>1. 2 * C \in Nat
    OBVIOUS
  <2>2. QED
    BY ONLY RingAssumption, GadgetAssumption, s \in IntPolys, <2>1, <1>6, <1>7, <1>8, <1>9, LoopCarries
<1>11. ExternalProduct(c, rows) = Pair(A[Digits], D[Digits])
  <2>1. ExternalProduct(c, rows) = Pair(ExternalProduct(c, rows).a, ExternalProduct(c, rows).b)
    BY DEF ExternalProduct, Pair
  <2>2. QED
    BY <1>8, <1>9, <2>1
<1>12. Digits * (2 * C) = 2 * (Digits * C)
  BY <1>0
<1>13. Mix(Mul(c.a, ms), 1, Mul(c.b, m)) = Mul(m, Open(c, s))
  <2>1. Mul(c.a, s) \in IntPolys /\ 1 \in Int
    BY <1>1, MulType
  <2>2. Mul(m, Mix(Mul(c.a, s), 1, c.b)) = Mix(Mul(m, Mul(c.a, s)), 1, Mul(m, c.b))
    BY ONLY RingAssumption, m \in IntPolys, <1>1, <2>1, MulMixes
  <2>3. Mul(m, Mul(c.a, s)) = Mul(Mul(c.a, s), m) /\ Mul(m, c.b) = Mul(c.b, m)
    BY <1>1, <2>1, MulCommutes
  <2>4. Mul(Mul(c.a, s), m) = Mul(Mul(c.a, m), s) /\ Mul(Mul(c.a, m), s) = Mul(c.a, Mul(m, s))
    BY <1>1, MulSwaps, MulAssociates
  <2>5. QED
    BY <1>4, <2>2, <2>3, <2>4 DEF Open
<1>14. QED
  BY <1>3, <1>6, <1>10, <1>11, <1>12, <1>13

-----------------------------------------------------------------------------
(* What is encrypted, with a mask and a small error                        *)

\* An error polynomial within E; an encryption of zero, but for its mask.
SmallError(e, E) == e \in Elements /\ \A i \in Idx : Size(e[i]) <= E
Blank(a, s, e) == Plus(Negated(Times(a, s)), e)

\* An error is congruent to its centered coefficients.
LEMMA ErrorCentered ==
  ASSUME RingAssumption, NEW E \in Int, NEW e, SmallError(e, E)
  PROVE  \E f \in IntPolys : Within(f, E) /\ Cong(e, f)
<1>1. PICK f : f = [i \in Idx |-> Centered(e[i])]
  OBVIOUS
<1>2. ASSUME NEW i \in Idx
      PROVE  f[i] \in Int /\ -E <= f[i] /\ f[i] <= E /\ Same(e[i], f[i], Q)
  <2>1. PICK q \in Nat \ {0} : q = Q
    BY QType
  <2>2. PICK v \in 0 .. q - 1 : v = e[i]
    BY <2>1 DEF SmallError, Elements, Residue
  <2>3. PICK h \in Int : h = q \div 2 /\ h >= 0
    BY <2>1
  <2>4. Size(v) <= E /\ Size(v) = (IF v <= h THEN v ELSE q - v)
    BY <2>1, <2>2, <2>3 DEF SmallError, Size
  <2>5. f[i] = (IF v <= h THEN v ELSE v - q)
    BY <1>1, <2>1, <2>2, <2>3 DEF Centered
  <2>6. CASE v <= h
    <3>1. f[i] = v
      BY <2>5, <2>6
    <3>2. Same(v, v, q)
      BY SameReflexive
    <3>3. QED
      BY <2>1, <2>2, <2>4, <2>6, <3>1, <3>2
  <2>7. CASE ~(v <= h)
    <3>1. f[i] = v - q /\ v = (v - q) + q * 1
      BY <2>5, <2>7
    <3>2. Same(v, v - q, q)
      BY <3>1 DEF Same
    <3>3. QED
      BY <2>1, <2>2, <2>4, <2>7, <3>1, <3>2
  <2>8. QED
    BY <2>6, <2>7
<1>3. f \in IntPolys
  BY <1>1, <1>2 DEF IntPolys
<1>4. QED
  BY <1>2, <1>3 DEF Within, Cong

\* An encryption of zero carries its error.
LEMMA BlankCarries ==
  ASSUME RingAssumption, NEW a \in Elements, NEW s \in IntPolys, NEW E \in Int, NEW e, SmallError(e, E)
  PROVE  Carries(Pair(a, Blank(a, s, e)), s, Zero, E) /\ Blank(a, s, e) \in Elements
<1>1. a \in IntPolys /\ e \in IntPolys /\ Zero \in IntPolys
  BY ElementsAreIntPolys DEF SmallError
<1>2. PICK f \in IntPolys : Within(f, E) /\ Cong(e, f)
  BY ErrorCentered
<1>3. PICK t, m : t = Times(a, s) /\ m = Mul(a, s)
  OBVIOUS
<1>4. t \in IntPolys /\ m \in IntPolys /\ Cong(t, m)
  BY <1>1, <1>3, TimesCong
<1>5. PICK n : n = Negated(t)
  OBVIOUS
<1>6. n \in IntPolys /\ Cong(n, By(-1, t)) /\ By(-1, t) \in IntPolys /\ By(-1, m) \in IntPolys
  BY <1>4, <1>5, NegatedReads, ByType
<1>7. Cong(By(-1, t), By(-1, m))
  BY <1>1, <1>4, CongReflexive, MixSame DEF By
<1>8. Cong(n, By(-1, m))
  BY <1>4, <1>6, <1>7, CongTransitive
<1>9. PICK b : b = Blank(a, s, e)
  OBVIOUS
<1>10. b \in Elements /\ b \in IntPolys /\ Cong(b, Mix(n, 1, e))
  BY <1>1, <1>3, <1>5, <1>6, <1>9, PlusReads DEF Blank
<1>11. 1 \in Int
  OBVIOUS
<1>12. /\ Mix(n, 1, e) \in IntPolys /\ Mix(By(-1, m), 1, f) \in IntPolys
       /\ Mix(m, 1, Mix(By(-1, m), 1, f)) \in IntPolys /\ Mix(m, 1, b) \in IntPolys
  BY <1>1, <1>4, <1>6, <1>10, <1>11, MixType
<1>13. Cong(Mix(n, 1, e), Mix(By(-1, m), 1, f))
  BY <1>1, <1>2, <1>6, <1>8, <1>11, MixSame
<1>14. Cong(b, Mix(By(-1, m), 1, f))
  BY <1>10, <1>12, <1>13, CongTransitive
<1>15. Cong(Mix(m, 1, b), Mix(m, 1, Mix(By(-1, m), 1, f)))
  BY <1>4, <1>10, <1>11, <1>12, <1>14, CongReflexive, MixSame
<1>16. Mix(m, 1, Mix(By(-1, m), 1, f)) = Mix(Zero, 1, f)
  <2>1. \A i \in Idx : By(-1, m)[i] = -m[i] /\ m[i] \in Int /\ f[i] \in Int
    BY <1>4 DEF By, Mix, Zero, IntPolys
  <2>2. QED
    BY <2>1 DEF Mix, Zero
<1>17. Open(Pair(a, b), s) = Mix(m, 1, b)
  BY <1>3 DEF Open, Pair
<1>18. Near(Open(Pair(a, b), s), Zero, E)
  BY <1>2, <1>15, <1>16, <1>17 DEF Near
<1>19. QED
  BY <1>9, <1>10, <1>18 DEF Carries, Pair

\* What is added to b is carried, in a ciphertext of no other error.
LEMMA FreshCarries ==
  ASSUME RingAssumption, NEW a \in Elements, NEW s \in IntPolys, NEW E \in Int, NEW e, SmallError(e, E),
         NEW w \in Elements, NEW y \in IntPolys, Cong(w, y)
  PROVE  Carries(Pair(a, Plus(Blank(a, s, e), w)), s, y, E)
<1>1. PICK b : b = Blank(a, s, e) /\ b \in Elements /\ Carries(Pair(a, b), s, Zero, E)
  BY BlankCarries
<1>2. a \in IntPolys /\ b \in IntPolys /\ w \in IntPolys /\ Zero \in IntPolys
  BY <1>1, ElementsAreIntPolys
<1>3. PICK c, d, p : c = Pair(a, b) /\ d = Pair(Zero, w) /\ p = Pair(a, Plus(b, w))
  OBVIOUS
<1>4. Carries(c, s, Zero, E) /\ Carries(d, s, w, 0)
  BY <1>1, <1>3, PlainCarries
<1>5. c.a = a /\ c.b = b /\ d.a = Zero /\ d.b = w /\ p.a = a /\ p.b = Plus(b, w)
  BY <1>3 DEF Pair
<1>6. Mix(a, 1, Zero) = a /\ Mix(Zero, 1, w) = w
  BY <1>2 DEF Mix, Zero, IntPolys
<1>7. p.a \in Elements /\ p.b \in Elements /\ Cong(p.a, Mix(c.a, 1, d.a)) /\ Cong(p.b, Mix(c.b, 1, d.b))
  BY <1>2, <1>5, <1>6, CongReflexive, PlusReads
<1>8. 1 \in Int /\ -1 <= 1 /\ 1 <= 1 /\ 0 \in Nat /\ E + 1 * 0 = E
  OBVIOUS
<1>9. Carries(p, s, Mix(Zero, 1, w), E + 1 * 0)
  BY ONLY RingAssumption, s \in IntPolys, E \in Int, <1>2, <1>4, <1>7, <1>8, CarriesMix
<1>10. Carries(p, s, w, E)
  BY <1>6, <1>8, <1>9
<1>11. QED
  BY <1>1, <1>2, <1>3, <1>10, CongReflexive, CarriesCong

\* What is added to a is carried times the key.
LEMMA MaskedCarries ==
  ASSUME RingAssumption, NEW a \in Elements, NEW s \in IntPolys, NEW E \in Int, NEW e, SmallError(e, E),
         NEW w \in Elements, NEW y \in IntPolys, Cong(Mul(w, s), y)
  PROVE  Carries(Pair(Plus(a, w), Blank(a, s, e)), s, y, E)
<1>1. PICK b : b = Blank(a, s, e) /\ b \in Elements /\ Carries(Pair(a, b), s, Zero, E)
  BY BlankCarries
<1>2. a \in IntPolys /\ b \in IntPolys /\ w \in IntPolys /\ Zero \in IntPolys /\ Zero \in Elements
  BY <1>1, ElementsAreIntPolys
<1>3. PICK c, d, p : c = Pair(a, b) /\ d = Pair(w, Zero) /\ p = Pair(Plus(a, w), b)
  OBVIOUS
<1>4. c.a = a /\ c.b = b /\ d.a = w /\ d.b = Zero /\ p.a = Plus(a, w) /\ p.b = b
  BY <1>3 DEF Pair
<1>5. Mul(w, s) \in IntPolys
  BY <1>2, MulType
<1>6. Carries(c, s, Zero, E) /\ Carries(d, s, y, 0)
  <2>1. Mix(Mul(w, s), 1, Zero) = Mul(w, s)
    BY <1>5 DEF Mix, Zero, IntPolys
  <2>2. Open(d, s) = Mul(w, s)
    BY <1>4, <2>1 DEF Open
  <2>3. Near(Open(d, s), y, 0)
    BY <1>5, <2>2, NearCong
  <2>4. QED
    BY <1>1, <1>2, <1>3, <1>4, <2>3 DEF Carries
<1>7. Mix(b, 1, Zero) = b /\ Mix(Zero, 1, y) = y
  BY <1>2 DEF Mix, Zero, IntPolys
<1>8. p.a \in Elements /\ p.b \in Elements /\ Cong(p.a, Mix(c.a, 1, d.a)) /\ Cong(p.b, Mix(c.b, 1, d.b))
  BY <1>1, <1>2, <1>4, <1>7, CongReflexive, PlusReads
<1>9. 1 \in Int /\ -1 <= 1 /\ 1 <= 1 /\ 0 \in Nat /\ E + 1 * 0 = E
  OBVIOUS
<1>10. Carries(p, s, Mix(Zero, 1, y), E + 1 * 0)
  BY ONLY RingAssumption, s \in IntPolys, y \in IntPolys, E \in Int, <1>2, <1>6, <1>8, <1>9, CarriesMix
<1>11. QED
  BY <1>1, <1>3, <1>7, <1>9, <1>10

\* What a power of the base times a polynomial is congruent to.
LEMMA PowerFacts ==
  ASSUME RingAssumption, GadgetAssumption, NEW k \in DigitIdx, NEW m \in Elements, NEW s \in IntPolys
  PROVE  /\ Power(k) \in Int /\ Scaled(m, Power(k)) \in Elements /\ m \in IntPolys
         /\ Cong(Scaled(m, Power(k)), By(Power(k), m)) /\ By(Power(k), m) \in IntPolys
         /\ Cong(Mul(Scaled(m, Power(k)), s), By(Power(k), Mul(m, s)))
         /\ By(Power(k), Mul(m, s)) \in IntPolys /\ Mul(m, s) \in IntPolys
<1>1. PICK x \in Int : x = Power(k)
  <2>1. PICK z \in Int : z = Base ^ k
    BY GadgetTypes
  <2>2. z % Q \in 0 .. Q - 1
    BY QType, DivMod
  <2>3. QED
    BY <2>1, <2>2, QType DEF Power
<1>2. m \in IntPolys /\ Zero \in IntPolys /\ Mul(m, s) \in IntPolys
  BY ElementsAreIntPolys, MulType
<1>3. /\ Scaled(m, x) \in Elements /\ Scaled(m, x) \in IntPolys /\ Cong(Scaled(m, x), By(x, m))
      /\ By(x, m) \in IntPolys /\ By(x, Mul(m, s)) \in IntPolys
  BY <1>2, ScaledReads, ByType
<1>4. Mul(By(x, m), s) = By(x, Mul(m, s))
  <2>1. Mul(Mix(Zero, x, m), s) = Mix(Mul(Zero, s), x, Mul(m, s))
    BY <1>2, MulMixes
  <2>2. Mul(Zero, s) = Zero
    BY CarriesZero
  <2>3. QED
    BY <2>1, <2>2 DEF By
<1>5. Cong(Mul(Scaled(m, x), s), Mul(By(x, m), s))
  BY <1>3, CongReflexive, MulSame
<1>6. QED
  BY <1>1, <1>2, <1>3, <1>4, <1>5

\* A row of a key switching matrix carries its power of the old key, under the new.
LEMMA KsMatrixCarries ==
  ASSUME RingAssumption, GadgetAssumption, NEW from \in Elements, NEW to \in Elements, NEW E \in Int,
         NEW masks, NEW errors, \A i \in DigitIdx : masks[i] \in Elements /\ SmallError(errors[i], E),
         NEW k \in DigitIdx
  PROVE  Carries(KsMatrix(from, to, masks, errors)[k], to, By(Power(k), from), E)
<1>1. to \in IntPolys
  BY ElementsAreIntPolys
<1>2. PICK w, y : w = Scaled(from, Power(k)) /\ y = By(Power(k), from)
  OBVIOUS
<1>3. w \in Elements /\ y \in IntPolys /\ Cong(w, y)
  BY <1>1, <1>2, PowerFacts
<1>4. KsMatrix(from, to, masks, errors)[k] = Pair(masks[k], Plus(Blank(masks[k], to, errors[k]), w))
  BY <1>2 DEF KsMatrix, Blank
<1>5. Carries(Pair(masks[k], Plus(Blank(masks[k], to, errors[k]), w)), to, y, E)
  BY <1>1, <1>3, FreshCarries
<1>6. QED
  BY <1>2, <1>4, <1>5

\* The rows of an RGSW encryption of m under s.
RowsCarry(rows, s, m, E) ==
  \A k \in DigitIdx : /\ Carries(rows[k], s, By(Power(k), Mul(m, s)), E)
                      /\ Carries(rows[Digits + k], s, By(Power(k), m), E)

\* The rows of an RGSW ciphertext come in two halves.
LEMMA RowIndexes ==
  ASSUME RingAssumption, GadgetAssumption, NEW k \in DigitIdx
  PROVE  /\ k \in 0 .. 2 * Digits - 1 /\ k < Digits
         /\ Digits + k \in 0 .. 2 * Digits - 1 /\ ~(Digits + k < Digits) /\ (Digits + k) - Digits = k
  BY GadgetTypes DEF DigitIdx

\* RgswCiphertext::encrypt: the rows carry the message, in the first half with the key.
LEMMA RgswRowsCarry ==
  ASSUME RingAssumption, GadgetAssumption, NEW s \in Elements, NEW m \in Elements, NEW E \in Int,
         NEW masks, NEW errors,
         \A i \in 0 .. 2 * Digits - 1 : masks[i] \in Elements /\ SmallError(errors[i], E)
  PROVE  RowsCarry(RgswRows(s, m, masks, errors), s, m, E)
<1>1. s \in IntPolys
  BY ElementsAreIntPolys
<1>2. PICK rows : rows = RgswRows(s, m, masks, errors)
  OBVIOUS
<1>3. ASSUME NEW k \in DigitIdx
      PROVE  /\ Carries(rows[k], s, By(Power(k), Mul(m, s)), E)
             /\ Carries(rows[Digits + k], s, By(Power(k), m), E)
  <2>1. PICK w, y, z : w = Scaled(m, Power(k)) /\ y = By(Power(k), Mul(m, s)) /\ z = By(Power(k), m)
    OBVIOUS
  <2>2. w \in Elements /\ y \in IntPolys /\ z \in IntPolys /\ Cong(Mul(w, s), y) /\ Cong(w, z)
    BY <1>1, <2>1, PowerFacts
  <2>3. PICK i, j : i = k /\ j = Digits + k
    OBVIOUS
  <2>4. /\ i \in 0 .. 2 * Digits - 1 /\ i < Digits /\ j \in 0 .. 2 * Digits - 1 /\ ~(j < Digits)
        /\ j - Digits = k
    BY <2>3, RowIndexes
  <2>5. rows[i] = Pair(Plus(masks[i], w), Blank(masks[i], s, errors[i]))
    BY <1>2, <2>1, <2>3, <2>4 DEF RgswRows, Blank
  <2>6. rows[j] = Pair(masks[j], Plus(Blank(masks[j], s, errors[j]), w))
    BY <1>2, <2>1, <2>4 DEF RgswRows, Blank
  <2>7. /\ masks[i] \in Elements /\ SmallError(errors[i], E)
        /\ masks[j] \in Elements /\ SmallError(errors[j], E)
    BY <2>4
  <2>8. Carries(rows[i], s, y, E)
    BY ONLY RingAssumption, <1>1, <2>2, <2>5, <2>7, E \in Int, MaskedCarries
  <2>9. Carries(rows[j], s, z, E)
    BY ONLY RingAssumption, <1>1, <2>2, <2>6, <2>7, E \in Int, FreshCarries
  <2>10. QED
    BY <2>1, <2>3, <2>8, <2>9
<1>4. QED
  BY <1>2, <1>3 DEF RowsCarry

\* SeededRgswCiphertext::encrypt and expand: so do these.
LEMMA SeededRowsCarry ==
  ASSUME RingAssumption, GadgetAssumption, NEW s \in Elements, NEW m \in Elements, NEW E \in Int,
         NEW seeds, NEW mask, NEW errors,
         \A i \in 0 .. 2 * Digits - 1 : mask[seeds[i]] \in Elements /\ SmallError(errors[i], E)
  PROVE  RowsCarry(Expanded(SeededRgsw(s, m, seeds, mask, errors), mask), s, m, E)
<1>1. s \in IntPolys
  BY ElementsAreIntPolys
<1>2. PICK seeded, rows : seeded = SeededRgsw(s, m, seeds, mask, errors) /\ rows = Expanded(seeded, mask)
  OBVIOUS
<1>3. ASSUME NEW k \in DigitIdx
      PROVE  /\ Carries(rows[k], s, By(Power(k), Mul(m, s)), E)
             /\ Carries(rows[Digits + k], s, By(Power(k), m), E)
  <2>1. PICK w, v, y, z : /\ w = Scaled(m, Power(k)) /\ v = Times(w, s)
                          /\ y = By(Power(k), Mul(m, s)) /\ z = By(Power(k), m)
    OBVIOUS
  <2>2. w \in Elements /\ y \in IntPolys /\ z \in IntPolys /\ Cong(Mul(w, s), y) /\ Cong(w, z)
    BY <1>1, <2>1, PowerFacts
  <2>3. v \in Elements /\ Cong(v, y)
    <3>1. w \in IntPolys
      BY <2>2, ElementsAreIntPolys
    <3>2. v \in Elements /\ v \in IntPolys /\ Cong(v, Mul(w, s)) /\ Mul(w, s) \in IntPolys
      BY <1>1, <2>1, <3>1, TimesCong
    <3>3. QED
      BY <2>2, <3>2, CongTransitive
  <2>4. PICK i, j : i = k /\ j = Digits + k
    OBVIOUS
  <2>5. /\ i \in 0 .. 2 * Digits - 1 /\ i < Digits /\ j \in 0 .. 2 * Digits - 1 /\ ~(j < Digits)
        /\ j - Digits = k
    BY <2>4, RowIndexes
  <2>6. DOMAIN seeded = 0 .. 2 * Digits - 1
    BY <1>2 DEF SeededRgsw
  <2>7. rows[i] = Pair(mask[seeds[i]], Plus(Blank(mask[seeds[i]], s, errors[i]), v))
    <3>1. seeded[i] = [seed |-> seeds[i], b |-> Plus(Blank(mask[seeds[i]], s, errors[i]), v)]
      BY <1>2, <2>1, <2>4, <2>5 DEF SeededRgsw, Blank
    <3>2. QED
      BY <1>2, <2>5, <2>6, <3>1 DEF Expanded, Pair
  <2>8. rows[j] = Pair(mask[seeds[j]], Plus(Blank(mask[seeds[j]], s, errors[j]), w))
    <3>1. seeded[j] = [seed |-> seeds[j], b |-> Plus(Blank(mask[seeds[j]], s, errors[j]), w)]
      BY <1>2, <2>1, <2>5 DEF SeededRgsw, Blank
    <3>2. QED
      BY <1>2, <2>5, <2>6, <3>1 DEF Expanded, Pair
  <2>9. /\ mask[seeds[i]] \in Elements /\ SmallError(errors[i], E)
        /\ mask[seeds[j]] \in Elements /\ SmallError(errors[j], E)
    BY <2>5
  <2>10. Carries(rows[i], s, y, E)
    BY ONLY RingAssumption, <1>1, <2>2, <2>3, <2>7, <2>9, E \in Int, FreshCarries
  <2>11. Carries(rows[j], s, z, E)
    BY ONLY RingAssumption, <1>1, <2>2, <2>8, <2>9, E \in Int, FreshCarries
  <2>12. QED
    BY <2>1, <2>4, <2>10, <2>11
<1>4. QED
  BY <1>2, <1>3 DEF RowsCarry

\* encrypt carries the scaled plaintext, trivial_encrypt without an error.
LEMMA EncryptCarries ==
  ASSUME RingAssumption, NEW s \in Elements, NEW m \in IntPolys, NEW a \in Elements, NEW E \in Int, NEW e,
         SmallError(e, E), Delta \in Int
  PROVE  /\ Carries(Encrypt(s, m, a, e), s, By(Delta, m), E)
         /\ Carries(Trivial(m), s, By(Delta, m), 0) /\ By(Delta, m) \in IntPolys
<1>1. s \in IntPolys
  BY ElementsAreIntPolys
<1>2. PICK w, y : w = Scaled(m, Delta) /\ y = By(Delta, m)
  OBVIOUS
<1>3. w \in Elements /\ w \in IntPolys /\ y \in IntPolys /\ Cong(w, y)
  BY <1>2, ScaledReads, ByType
<1>4. Encrypt(s, m, a, e) = Pair(a, Plus(Blank(a, s, e), w)) /\ Trivial(m) = Pair(Zero, w)
  BY <1>2 DEF Encrypt, Trivial, Blank
<1>5. Carries(Pair(a, Plus(Blank(a, s, e), w)), s, y, E)
  BY <1>1, <1>3, FreshCarries
<1>6. Carries(Pair(Zero, w), s, w, 0)
  BY <1>1, <1>3, PlainCarries
<1>7. Carries(Pair(Zero, w), s, y, 0)
  <2>1. Cong(s, s) /\ 0 \in Int
    BY <1>1, CongReflexive
  <2>2. QED
    BY ONLY RingAssumption, <1>1, <1>3, <1>6, <2>1, CarriesCong
<1>8. QED
  BY <1>2, <1>3, <1>4, <1>5, <1>7

-----------------------------------------------------------------------------
(* Plaintexts, that wrap                                                   *)

\* Q is P times Delta and what is left.
LEMMA DeltaFacts ==
  ASSUME RingAssumption, GadgetAssumption
  PROVE  /\ Delta \in Nat \ {0} /\ Wrap \in 0 .. P - 1 /\ Wrap \in Nat /\ Q = P * Delta + Wrap
         /\ P \in Nat \ {0} /\ P > 1
<1>1. P \in Nat \ {0} /\ P > 1 /\ P <= Q /\ Q \in Nat
  BY QType DEF GadgetAssumption
<1>2. PICK d \in Int, r \in 0 .. P - 1 : d = Q \div P /\ r = Q % P /\ Q = P * d + r
  BY <1>1, DivMod
<1>3. d \in Nat \ {0}
  <2>1. CASE d <= 0
    <3>1. PICK x \in Nat : d = -x
      <4>1. -d \in Nat /\ d = -(-d)
        BY <2>1
      <4>2. QED
        BY <4>1
    <3>2. P * (-x) = -(P * x) /\ P * x \in Nat
      BY <1>1
    <3>3. FALSE
      BY <1>1, <1>2, <3>1, <3>2
    <3>4. QED
      BY <3>3
  <2>2. QED
    BY <2>1
<1>4. QED
  BY <1>1, <1>2, <1>3 DEF Delta, Wrap

\* Plaintext polynomials.
PlainElements == [Idx -> 0 .. P - 1]

\* Plaintexts are polynomials of small coefficients.
LEMMA PlainType ==
  ASSUME RingAssumption, GadgetAssumption
  PROVE  /\ Plain!Elements = PlainElements
         /\ \A m \in PlainElements : /\ m \in IntPolys
                                     /\ \A i \in Idx : m[i] \in Int /\ 0 <= m[i] /\ m[i] <= P - 1
<1>1. Plain!Elements = PlainElements
  BY DEF Plain!Elements, Plain!Idx, Plain!Residue, PlainElements, Idx
<1>2. P \in Nat
  BY DeltaFacts
<1>3. QED
  BY <1>1, <1>2 DEF PlainElements, IntPolys

\* A quotient between two multiples.
LEMMA QuotientWithin ==
  ASSUME NEW p \in Nat \ {0}, NEW D \in Nat, NEW x \in Int, -(D * p) <= x, x < D * p + p
  PROVE  \E d \in Int, r \in 0 .. p - 1 : x = p * d + r /\ r = x % p /\ -D <= d /\ d <= D
<1>1. PICK d \in Int, r \in 0 .. p - 1 : x = p * d + r /\ r = x % p
  BY DivMod
<1>2. d <= D
  <2>1. CASE d >= D + 1
    <3>1. p * d >= p * (D + 1)
      BY ONLY <2>1, p \in Nat, D \in Nat, d \in Int
    <3>2. p * (D + 1) = D * p + p
      OBVIOUS
    <3>3. p * d \in Int /\ D * p \in Int
      OBVIOUS
    <3>4. FALSE
      BY ONLY <1>1, <3>1, <3>2, <3>3, x < D * p + p, r \in 0 .. p - 1, p \in Nat
    <3>5. QED
      BY <3>4
  <2>2. QED
    BY <2>1
<1>3. -D <= d
  <2>1. CASE d <= -D - 1
    <3>1. p * d <= p * (-D - 1)
      BY ONLY <2>1, p \in Nat, D \in Nat, d \in Int
    <3>2. p * (-D - 1) = -(D * p) - p
      OBVIOUS
    <3>3. p * d \in Int /\ D * p \in Int
      OBVIOUS
    <3>4. FALSE
      BY ONLY <1>1, <3>1, <3>2, <3>3, -(D * p) <= x, r \in 0 .. p - 1, p \in Nat
    <3>5. QED
      BY <3>4
  <2>2. QED
    BY <2>1
<1>4. QED
  BY <1>1, <1>2, <1>3

\* The plaintext that an integer polynomial wraps to.
Reduced(x) == [i \in Idx |-> x[i] % P]

\* Within so many multiples of the plaintext modulus.
Spans(x, D) == \A i \in Idx : -(D * P) <= x[i] /\ x[i] < D * P + P

\* Each wrap adds the remainder of the moduli to the error.
LEMMA WrapNear ==
  ASSUME RingAssumption, GadgetAssumption, NEW x \in IntPolys, NEW D \in Nat, Spans(x, D)
  PROVE  /\ Reduced(x) \in PlainElements /\ Reduced(x) \in IntPolys
         /\ By(Delta, x) \in IntPolys /\ By(Delta, Reduced(x)) \in IntPolys
         /\ Near(By(Delta, x), By(Delta, Reduced(x)), D * Wrap)
<1>1. PICK p \in Nat \ {0}, de \in Int, w \in Nat, q \in Nat :
        p = P /\ de = Delta /\ w = Wrap /\ q = Q /\ q = p * de + w
  BY DeltaFacts, QType
<1>2. PICK m : m = Reduced(x)
  OBVIOUS
<1>3. PICK f : f = [i \in Idx |-> x[i] \div P]
  OBVIOUS
<1>4. ASSUME NEW i \in Idx
      PROVE  /\ f[i] \in Int /\ m[i] \in 0 .. p - 1 /\ x[i] = p * f[i] + m[i]
             /\ -D <= f[i] /\ f[i] <= D
  <2>1. PICK v \in Int : v = x[i] /\ -(D * p) <= v /\ v < D * p + p
    BY <1>1 DEF IntPolys, Spans
  <2>2. PICK d \in Int, r \in 0 .. p - 1 : v = p * d + r /\ r = v % p /\ -D <= d /\ d <= D
    BY ONLY <2>1, D \in Nat, p \in Nat \ {0}, v \in Int, QuotientWithin
  <2>3. v \div p = d
    BY ONLY <2>2, v \in Int, p \in Nat \ {0}, d \in Int, r \in 0 .. p - 1, DivModUnique
  <2>4. QED
    BY <1>1, <1>2, <1>3, <2>1, <2>2, <2>3 DEF Reduced
<1>5. m \in PlainElements
  BY <1>1, <1>2, <1>4 DEF Reduced, PlainElements
<1>6. m \in IntPolys /\ By(de, x) \in IntPolys /\ By(de, m) \in IntPolys
  BY <1>5, PlainType, ByType
<1>7. PICK e : e = [i \in Idx |-> -(w * f[i])]
  OBVIOUS
<1>8. e \in IntPolys
  <2>1. \A i \in Idx : -(w * f[i]) \in Int
    BY <1>4
  <2>2. QED
    BY <1>7, <2>1 DEF IntPolys
<1>9. Within(e, D * w)
  <2>1. ASSUME NEW i \in Idx
        PROVE  -(D * w) <= e[i] /\ e[i] <= D * w
    <3>1. PICK u \in Int : u = -f[i] /\ -D <= u /\ u <= D /\ f[i] = -u
      BY <1>4
    <3>2. -(D * w) <= u * w /\ u * w <= D * w
      <4>1. D \in Int /\ w \in Int /\ -w <= w /\ w <= w
        OBVIOUS
      <4>2. QED
        BY ONLY <3>1, <4>1, u \in Int, w \in Nat, SizeOfProduct
    <3>3. -(w * (-u)) = u * w
      OBVIOUS
    <3>4. QED
      BY <1>7, <3>1, <3>2, <3>3
  <2>2. QED
    BY <2>1 DEF Within
<1>10. Cong(By(de, x), Mix(By(de, m), 1, e))
  <2>1. ASSUME NEW i \in Idx
        PROVE  Same(By(de, x)[i], Mix(By(de, m), 1, e)[i], q)
    <3>1. PICK d \in Int, r \in Int : d = f[i] /\ r = m[i] /\ x[i] = p * d + r
      BY <1>4
    <3>2. By(de, x)[i] = de * (p * d + r) /\ Mix(By(de, m), 1, e)[i] = de * r + -(w * d)
      <4>1. By(de, m)[i] = de * r /\ By(de, x)[i] = de * (p * d + r)
        <5>1. By(de, m)[i] = de * m[i] /\ By(de, x)[i] = de * x[i]
          BY ONLY RingAssumption, de \in Int, <1>6, x \in IntPolys, i \in Idx, ByType
        <5>2. QED
          BY ONLY <3>1, <5>1, Zenon
      <4>2. Mix(By(de, m), 1, e)[i] = By(de, m)[i] + 1 * e[i] /\ e[i] = -(w * d) /\ 1 * e[i] = e[i]
        BY <1>7, <1>8, <3>1 DEF Mix, IntPolys
      <4>3. QED
        BY <4>1, <4>2
    <3>3. de * (p * d + r) = (de * r + -(w * d)) + q * d
      <4>1. (p * de + w) * d = p * de * d + w * d
        BY ONLY p \in Nat, de \in Int, w \in Nat, d \in Int
      <4>2. de * (p * d + r) = p * de * d + de * r
        BY ONLY p \in Nat, de \in Int, r \in Int, d \in Int
      <4>3. p * de * d \in Int /\ de * r \in Int /\ w * d \in Int
        OBVIOUS
      <4>4. QED
        BY <1>1, <4>1, <4>2, <4>3
    <3>4. QED
      BY <3>2, <3>3 DEF Same
  <2>2. QED
    BY <1>1, <2>1 DEF Cong
<1>11. QED
  BY <1>1, <1>2, <1>5, <1>6, <1>8, <1>9, <1>10 DEF Near

\* A ciphertext of a plaintext before it wraps is one of the plaintext.
LEMMA CarriesReduced ==
  ASSUME RingAssumption, GadgetAssumption, NEW s \in IntPolys, NEW c, NEW B \in Int,
         NEW x \in IntPolys, NEW D \in Nat, Spans(x, D), Carries(c, s, By(Delta, x), B)
  PROVE  Reduced(x) \in PlainElements /\ Carries(c, s, By(Delta, Reduced(x)), B + D * Wrap)
<1>1. /\ Reduced(x) \in PlainElements /\ Reduced(x) \in IntPolys
      /\ By(Delta, x) \in IntPolys /\ By(Delta, Reduced(x)) \in IntPolys
      /\ Near(By(Delta, x), By(Delta, Reduced(x)), D * Wrap)
  BY WrapNear
<1>2. PICK C \in Int : C = D * Wrap
  BY DeltaFacts
<1>3. Carries(c, s, By(Delta, Reduced(x)), B + C)
  BY <1>1, <1>2, CarriesNear
<1>4. QED
  BY <1>1, <1>2, <1>3

\* Scaling a combination.
LEMMA ByMix ==
  ASSUME RingAssumption, NEW de \in Int, NEW m \in IntPolys, NEW n \in IntPolys, NEW x \in Int
  PROVE  /\ Mix(By(de, m), x, By(de, n)) = By(de, Mix(m, x, n))
         /\ Mix(m, x, n) \in IntPolys /\ By(de, m) \in IntPolys /\ By(de, n) \in IntPolys
<1>1. Mix(m, x, n) \in IntPolys /\ By(de, m) \in IntPolys /\ By(de, n) \in IntPolys
  BY MixType, ByType
<1>2. ASSUME NEW i \in Idx
      PROVE  Mix(By(de, m), x, By(de, n))[i] = By(de, Mix(m, x, n))[i]
  <2>1. PICK u \in Int, v \in Int : u = m[i] /\ v = n[i]
    BY DEF IntPolys
  <2>2. By(de, m)[i] = de * u /\ By(de, n)[i] = de * v
    <3>1. By(de, m)[i] = de * m[i] /\ By(de, n)[i] = de * n[i]
      BY ONLY RingAssumption, de \in Int, m \in IntPolys, n \in IntPolys, i \in Idx, ByType
    <3>2. QED
      BY <2>1, <3>1
  <2>3. Mix(m, x, n)[i] = u + x * v
    BY <2>1 DEF Mix
  <2>4. By(de, Mix(m, x, n))[i] = de * (u + x * v)
    <3>1. By(de, Mix(m, x, n))[i] = de * Mix(m, x, n)[i]
      BY ONLY RingAssumption, de \in Int, <1>1, i \in Idx, ByType
    <3>2. QED
      BY <2>3, <3>1
  <2>5. de * u + x * (de * v) = de * (u + x * v)
    OBVIOUS
  <2>6. Mix(By(de, m), x, By(de, n))[i] = By(de, m)[i] + x * By(de, n)[i]
    BY DEF Mix
  <2>7. QED
    BY <2>2, <2>4, <2>5, <2>6
<1>3. /\ Mix(By(de, m), x, By(de, n)) = [i \in Idx |-> Mix(By(de, m), x, By(de, n))[i]]
      /\ By(de, Mix(m, x, n)) = [i \in Idx |-> By(de, Mix(m, x, n))[i]]
  BY DEF By, Mix
<1>4. QED
  BY <1>1, <1>2, <1>3

\* Scaling a product.
LEMMA ByMul ==
  ASSUME RingAssumption, NEW de \in Int, NEW m \in IntPolys, NEW t \in IntPolys
  PROVE  Mul(t, By(de, m)) = By(de, Mul(t, m)) /\ Mul(t, m) \in IntPolys /\ By(de, m) \in IntPolys
<1>1. Mul(t, Zero) = Zero /\ Zero \in IntPolys
  BY CarriesZero, MulCommutes
<1>2. Mul(t, Mix(Zero, de, m)) = Mix(Mul(t, Zero), de, Mul(t, m))
  BY <1>1, MulMixes
<1>3. Mul(t, m) \in IntPolys /\ By(de, m) \in IntPolys
  BY MulType, ByType
<1>4. QED
  BY <1>1, <1>2, <1>3 DEF By

\* Scaling an image.
LEMMA ByImage ==
  ASSUME RingAssumption, NEW de \in Int, NEW m \in IntPolys, NEW g, Invertible(g)
  PROVE  Image(By(de, m), g) = By(de, Image(m, g)) /\ Image(m, g) \in IntPolys
<1>1. Zero \in IntPolys
  BY CarriesZero
<1>2. Image(Mix(Zero, de, m), g) = Mix(Image(Zero, g), de, Image(m, g)) /\ Image(m, g) \in IntPolys
  BY <1>1, ImageMix
<1>3. Image(Zero, g) = Zero
  <2>1. ASSUME NEW i \in Idx
        PROVE  Image(Zero, g)[i] = 0
    <3>1. PICK j \in Idx : Image(Zero, g)[i] = Sign((j * g) \div N) * Zero[j]
      BY <1>1, ImagePlace
    <3>2. PICK u \in {1, -1} : u = Sign((j * g) \div N)
      BY DEF Sign
    <3>3. QED
      BY <3>1, <3>2 DEF Zero
  <2>2. QED
    BY <2>1 DEF Image, Zero
<1>4. QED
  BY <1>2, <1>3 DEF By

\* A register: a ciphertext that carries a scaled plaintext.
Holds(c, s, m, B) == m \in PlainElements /\ B \in Nat /\ Carries(c, s, By(Delta, m), B)

\* What holding a plaintext gives.
LEMMA HoldsFacts ==
  ASSUME RingAssumption, GadgetAssumption, NEW c, NEW s \in IntPolys, NEW m, NEW B, Holds(c, s, m, B)
  PROVE  /\ m \in PlainElements /\ m \in IntPolys /\ B \in Nat /\ B \in Int /\ By(Delta, m) \in IntPolys
         /\ Carries(c, s, By(Delta, m), B) /\ Delta \in Int /\ Wrap \in Nat /\ P \in Nat
         /\ c.a \in Elements /\ c.b \in Elements /\ c.a \in IntPolys /\ c.b \in IntPolys
         /\ \A i \in Idx : m[i] \in Int /\ 0 <= m[i] /\ m[i] <= P - 1
<1>1. m \in PlainElements /\ B \in Nat /\ B \in Int /\ Carries(c, s, By(Delta, m), B)
  BY DEF Holds
<1>2. m \in IntPolys /\ \A i \in Idx : m[i] \in Int /\ 0 <= m[i] /\ m[i] <= P - 1
  BY <1>1, PlainType
<1>3. Delta \in Int /\ Wrap \in Nat /\ P \in Nat
  BY DeltaFacts
<1>4. By(Delta, m) \in IntPolys
  BY <1>2, <1>3, ByType
<1>5. c.a \in Elements /\ c.b \in Elements /\ c.a \in IntPolys /\ c.b \in IntPolys
  BY <1>1, CarriesType
<1>6. QED
  BY <1>1, <1>2, <1>3, <1>4, <1>5

\* A plaintext that wraps around D times adds D remainders of Q to the error.
LEMMA HoldsReduced ==
  ASSUME RingAssumption, GadgetAssumption, NEW s \in IntPolys, NEW c, NEW B \in Nat,
         NEW x \in IntPolys, NEW D \in Nat, Spans(x, D), Carries(c, s, By(Delta, x), B)
  PROVE  Holds(c, s, Reduced(x), B + D * Wrap)
<1>1. Reduced(x) \in PlainElements /\ Carries(c, s, By(Delta, Reduced(x)), B + D * Wrap)
  BY CarriesReduced
<1>2. Wrap \in Nat
  BY DeltaFacts
<1>3. B + D * Wrap \in Nat
  BY <1>2
<1>4. QED
  BY <1>1, <1>3 DEF Holds

\* CtPlus and CtMinus: plaintexts are added, and wrap once at most.
LEMMA HoldsPlus ==
  ASSUME RingAssumption, GadgetAssumption, NEW s \in IntPolys, NEW c, NEW m, NEW B, Holds(c, s, m, B),
         NEW d, NEW n, NEW C, Holds(d, s, n, C)
  PROVE  /\ Holds(CtPlus(c, d), s, Plain!Plus(m, n), B + C + Wrap)
         /\ Holds(CtMinus(c, d), s, Plain!Minus(m, n), B + C + Wrap)
<1>1. /\ m \in IntPolys /\ B \in Nat /\ B \in Int /\ By(Delta, m) \in IntPolys
      /\ Carries(c, s, By(Delta, m), B) /\ Delta \in Int /\ Wrap \in Nat /\ P \in Nat
      /\ c.a \in IntPolys /\ c.b \in IntPolys
      /\ \A i \in Idx : m[i] \in Int /\ 0 <= m[i] /\ m[i] <= P - 1
  BY HoldsFacts
<1>2. /\ n \in IntPolys /\ C \in Nat /\ C \in Int /\ By(Delta, n) \in IntPolys
      /\ Carries(d, s, By(Delta, n), C) /\ d.a \in IntPolys /\ d.b \in IntPolys
      /\ \A i \in Idx : n[i] \in Int /\ 0 <= n[i] /\ n[i] <= P - 1
  BY HoldsFacts
<1>3. Idx = Plain!Idx
  BY DEF Idx, Plain!Idx
<1>4. ASSUME NEW x \in {1, -1}, NEW p, p.a \in Elements, p.b \in Elements,
             Cong(p.a, Mix(c.a, x, d.a)), Cong(p.b, Mix(c.b, x, d.b))
      PROVE  Holds(p, s, Reduced(Mix(m, x, n)), B + C + Wrap)
  <2>1. x \in Int /\ -1 <= x /\ x <= 1 /\ 1 \in Int /\ B + 1 * C = B + C /\ B + C \in Nat /\ 1 \in Nat
    BY <1>1, <1>2
  <2>2. Carries(p, s, Mix(By(Delta, m), x, By(Delta, n)), B + 1 * C)
    BY ONLY RingAssumption, s \in IntPolys, <1>1, <1>2, <1>4, <2>1, CarriesMix
  <2>3. Mix(By(Delta, m), x, By(Delta, n)) = By(Delta, Mix(m, x, n)) /\ Mix(m, x, n) \in IntPolys
    <3>1. PICK de \in Int, y \in Int : de = Delta /\ y = x
      BY <1>1, <2>1
    <3>2. m \in IntPolys /\ n \in IntPolys
      BY <1>1, <1>2
    <3>3. Mix(By(de, m), y, By(de, n)) = By(de, Mix(m, y, n)) /\ Mix(m, y, n) \in IntPolys
      BY ONLY RingAssumption, de \in Int, y \in Int, <3>2, ByMix
    <3>4. QED
      BY <3>1, <3>3
  <2>4. Spans(Mix(m, x, n), 1)
    <3>1. \A i \in Idx : Mix(m, x, n)[i] = m[i] + x * n[i]
      BY DEF Mix
    <3>2. \A i \in Idx : -P <= m[i] + x * n[i] /\ m[i] + x * n[i] < P + P
      BY <1>1, <1>2
    <3>3. 1 * P = P
      BY <1>1
    <3>4. QED
      BY <3>1, <3>2, <3>3 DEF Spans
  <2>5. Holds(p, s, Reduced(Mix(m, x, n)), (B + C) + 1 * Wrap)
    BY <2>1, <2>2, <2>3, <2>4, HoldsReduced
  <2>6. (B + C) + 1 * Wrap = B + C + Wrap
    BY <1>1, <1>2
  <2>7. QED
    BY <2>5, <2>6
<1>5. Holds(CtPlus(c, d), s, Plain!Plus(m, n), B + C + Wrap)
  <2>1. PICK p : p = CtPlus(c, d)
    OBVIOUS
  <2>2. p.a = Plus(c.a, d.a) /\ p.b = Plus(c.b, d.b)
    BY <2>1 DEF CtPlus, Pair
  <2>3. p.a \in Elements /\ p.b \in Elements /\ Cong(p.a, Mix(c.a, 1, d.a)) /\ Cong(p.b, Mix(c.b, 1, d.b))
    BY <1>1, <1>2, <2>2, PlusReads
  <2>4. Plain!Plus(m, n) = Reduced(Mix(m, 1, n))
    <3>1. \A i \in Idx : Mix(m, 1, n)[i] = m[i] + n[i]
      BY <1>1, <1>2 DEF Mix
    <3>2. QED
      BY <1>3, <3>1 DEF Reduced, Plain!Plus
  <2>5. QED
    BY <1>4, <2>1, <2>3, <2>4
<1>6. Holds(CtMinus(c, d), s, Plain!Minus(m, n), B + C + Wrap)
  <2>1. PICK p : p = CtMinus(c, d)
    OBVIOUS
  <2>2. p.a = Minus(c.a, d.a) /\ p.b = Minus(c.b, d.b)
    BY <2>1 DEF CtMinus, Pair
  <2>3. p.a \in Elements /\ p.b \in Elements /\ Cong(p.a, Mix(c.a, -1, d.a)) /\ Cong(p.b, Mix(c.b, -1, d.b))
    BY <1>1, <1>2, <2>2, MinusReads
  <2>4. Plain!Minus(m, n) = Reduced(Mix(m, -1, n))
    <3>1. \A i \in Idx : Mix(m, -1, n)[i] = m[i] - n[i]
      BY <1>1, <1>2 DEF Mix
    <3>2. QED
      BY <1>3, <3>1 DEF Reduced, Plain!Minus
  <2>5. QED
    BY <1>4, <2>1, <2>3, <2>4
<1>7. QED
  BY <1>5, <1>6

\* CtScaled: a multiple of k wraps k times at most.
LEMMA HoldsScaled ==
  ASSUME RingAssumption, GadgetAssumption, NEW s \in IntPolys, NEW c, NEW m, NEW B, Holds(c, s, m, B),
         NEW k \in Nat
  PROVE  Holds(CtScaled(c, k), s, Plain!Scaled(m, k), k * (B + Wrap))
<1>1. /\ m \in IntPolys /\ B \in Nat /\ B \in Int /\ By(Delta, m) \in IntPolys
      /\ Carries(c, s, By(Delta, m), B) /\ Delta \in Int /\ Wrap \in Nat /\ P \in Nat
      /\ c.a \in IntPolys /\ c.b \in IntPolys
      /\ \A i \in Idx : m[i] \in Int /\ 0 <= m[i] /\ m[i] <= P - 1
  BY HoldsFacts
<1>2. PICK p, z : p = CtScaled(c, k) /\ z = Pair(Zero, Zero)
  OBVIOUS
<1>3. k \in Int /\ -k <= k /\ k <= k /\ 0 \in Int /\ 0 + k * B = k * B /\ k * B \in Nat
  BY <1>1
<1>4. p.a = Scaled(c.a, k) /\ p.b = Scaled(c.b, k) /\ z.a = Zero /\ z.b = Zero
  BY <1>2 DEF CtScaled, Pair
<1>5. p.a \in Elements /\ p.b \in Elements /\ Cong(p.a, Mix(z.a, k, c.a)) /\ Cong(p.b, Mix(z.b, k, c.b))
  BY <1>1, <1>3, <1>4, ScaledReads DEF By
<1>6. Carries(z, s, Zero, 0) /\ Zero \in IntPolys
  BY <1>2, CarriesZero
<1>7. Carries(p, s, Mix(Zero, k, By(Delta, m)), 0 + k * B)
  BY ONLY RingAssumption, s \in IntPolys, <1>1, <1>3, <1>5, <1>6, CarriesMix
<1>8. Mix(Zero, k, By(Delta, m)) = By(Delta, By(k, m)) /\ By(k, m) \in IntPolys
  <2>1. Mix(By(Delta, Zero), k, By(Delta, m)) = By(Delta, Mix(Zero, k, m))
    BY <1>1, <1>3, <1>6, ByMix
  <2>2. By(Delta, Zero) = Zero
    BY <1>1 DEF By, Mix, Zero
  <2>3. By(k, m) \in IntPolys
    BY <1>1, <1>3, ByType
  <2>4. QED
    BY <2>1, <2>2, <2>3 DEF By
<1>9. \A i \in Idx : By(k, m)[i] = k * m[i]
  BY <1>1, <1>3, ByType
<1>10. Spans(By(k, m), k)
  <2>1. ASSUME NEW i \in Idx
        PROVE  -(k * P) <= By(k, m)[i] /\ By(k, m)[i] < k * P + P
    <3>1. PICK u \in Nat, v \in Nat : u = m[i] /\ v = P /\ u <= v /\ v # 0
      BY <1>1, DeltaFacts
    <3>2. k * u <= k * v /\ k * u \in Nat /\ k * v \in Nat
      BY ONLY <3>1, k \in Nat, u \in Nat, v \in Nat
    <3>3. By(k, m)[i] = k * u
      BY <1>9, <3>1
    <3>4. -(k * v) <= k * u /\ k * u < k * v + v
      BY ONLY <3>1, <3>2, v \in Nat
    <3>5. QED
      BY <3>1, <3>3, <3>4
  <2>2. QED
    BY <2>1 DEF Spans
<1>11. Holds(p, s, Reduced(By(k, m)), k * B + k * Wrap)
  BY <1>3, <1>7, <1>8, <1>10, HoldsReduced
<1>12. Plain!Scaled(m, k) = Reduced(By(k, m))
  <2>1. ASSUME NEW i \in Idx
        PROVE  (m[i] * (k % P)) % P = By(k, m)[i] % P
    <3>1. PICK u \in Nat, v \in Nat \ {0} : u = m[i] /\ v = P
      BY <1>1, DeltaFacts
    <3>2. ((k % v) * u) % v = (k * u) % v /\ k % v \in Nat
      <4>1. ((k % v) * u) % v = (k * u) % v
        BY ONLY k \in Nat, u \in Nat, v \in Nat \ {0}, ReducedFactors
      <4>2. k % v \in Nat
        BY ONLY k \in Nat, v \in Nat \ {0}, ResidueOf
      <4>3. QED
        BY <4>1, <4>2
    <3>3. u * (k % v) = (k % v) * u
      BY <3>2
    <3>4. QED
      BY <1>9, <3>1, <3>2, <3>3
  <2>2. Plain!Idx = Idx
    BY DEF Idx, Plain!Idx
  <2>3. QED
    BY <2>1, <2>2 DEF Plain!Scaled, Reduced
<1>13. k * B + k * Wrap = k * (B + Wrap)
  BY <1>1
<1>14. QED
  BY <1>2, <1>11, <1>12, <1>13

\* A product with a plaintext is no larger than what its weight allows.
LEMMA MulSpans ==
  ASSUME RingAssumption, GadgetAssumption, NEW m \in PlainElements, NEW t \in IntPolys,
         NEW w, Terms(w, N), NoLarger(t, w, N), NEW W \in Nat, SumTo(w, N) = W
  PROVE  Spans(Mul(t, m), W) /\ Mul(t, m) \in IntPolys
<1>1. PICK p \in Nat, B \in Nat : p = P /\ B = P - 1 /\ p = B + 1
  BY DeltaFacts
<1>2. m \in IntPolys /\ \A i \in Idx : m[i] \in Int /\ 0 <= m[i] /\ m[i] <= P - 1
  BY PlainType
<1>3. Within(m, B)
  BY <1>1, <1>2 DEF Within
<1>4. Within(Mul(t, m), W * B) /\ Mul(t, m) \in IntPolys
  BY <1>2, <1>3, MulSmall, MulType
<1>5. ASSUME NEW i \in Idx
      PROVE  -(W * P) <= Mul(t, m)[i] /\ Mul(t, m)[i] < W * P + P
  <2>1. PICK v \in Int : v = Mul(t, m)[i] /\ -(W * B) <= v /\ v <= W * B
    BY <1>4 DEF Within, IntPolys
  <2>2. W * (B + 1) = W * B + W /\ W * B \in Nat
    OBVIOUS
  <2>3. W * p = W * B + W
    BY <1>1, <2>2
  <2>4. -(W * p) <= v /\ v < W * p + p
    BY ONLY <1>1, <2>1, <2>2, <2>3, W \in Nat, v \in Int, p \in Nat, B \in Nat
  <2>5. QED
    BY <1>1, <2>1, <2>4
<1>6. QED
  BY <1>4, <1>5 DEF Spans

\* CtTimes: a product wraps as often as the weight of the multiplier says.
LEMMA HoldsTimes ==
  ASSUME RingAssumption, GadgetAssumption, NEW s \in IntPolys, NEW c, NEW m, NEW B, Holds(c, s, m, B),
         NEW t \in PlainElements
  PROVE  Holds(CtTimes(c, t), s, Plain!Times(m, t), SumTo(t, N) * (B + Wrap))
<1>1. /\ m \in PlainElements /\ m \in IntPolys /\ B \in Nat /\ Carries(c, s, By(Delta, m), B)
      /\ By(Delta, m) \in IntPolys /\ Delta \in Int /\ Wrap \in Nat
      /\ c.a \in IntPolys /\ c.b \in IntPolys
  BY HoldsFacts
<1>2. t \in IntPolys /\ \A i \in Idx : t[i] \in Int /\ 0 <= t[i]
  BY PlainType
<1>3. Terms(t, N) /\ NoLarger(t, t, N) /\ N \in Nat
  BY <1>2, IdxTerms DEF NoLarger
<1>4. PICK W \in Nat : W = SumTo(t, N)
  <2>1. -SumTo(t, N) <= SumTo(t, N)
    BY ONLY <1>3, SumNoLarger
  <2>2. N \in 0 .. N
    BY <1>3
  <2>3. SumTo(t, N) \in Int
    BY ONLY <1>3, <2>2, SumLaw
  <2>4. QED
    BY <2>1, <2>3
<1>5. PICK p : p = CtTimes(c, t)
  OBVIOUS
<1>6. /\ p.a \in Elements /\ p.b \in Elements
      /\ Cong(p.a, Mul(t, c.a)) /\ Cong(p.b, Mul(t, c.b))
  <2>1. p.a = Times(c.a, t) /\ p.b = Times(c.b, t)
    BY <1>5 DEF CtTimes, Pair
  <2>2. Mul(t, c.a) = Mul(c.a, t) /\ Mul(t, c.b) = Mul(c.b, t)
    BY <1>1, <1>2, MulCommutes
  <2>3. QED
    BY <1>1, <1>2, <2>1, <2>2, TimesCong
<1>7. Carries(p, s, Mul(t, By(Delta, m)), W * B)
  BY ONLY RingAssumption, s \in IntPolys, <1>1, <1>2, <1>3, <1>4, <1>6, CarriesTimes
<1>8. Mul(t, By(Delta, m)) = By(Delta, Mul(t, m))
  BY <1>1, <1>2, ByMul
<1>9. Spans(Mul(t, m), W) /\ Mul(t, m) \in IntPolys
  BY <1>1, <1>2, <1>3, <1>4, MulSpans
<1>10. W * B \in Nat
  BY <1>1
<1>11. Holds(p, s, Reduced(Mul(t, m)), W * B + W * Wrap)
  BY <1>7, <1>8, <1>9, <1>10, HoldsReduced
<1>12. Plain!Times(m, t) = Reduced(Mul(t, m))
  <2>1. Mul(t, m) = Mul(m, t)
    BY <1>1, <1>2, MulCommutes
  <2>2. QED
    BY <1>1, <1>2, <2>1, PlainTimesReads DEF Reduced
<1>13. W * B + W * Wrap = W * (B + Wrap)
  BY <1>1
<1>14. QED
  BY <1>4, <1>5, <1>11, <1>12, <1>13

\* X^k, with a coefficient of one or minus one.
Unit(k) == [i \in Idx |-> IF i = k % N THEN Sign(k \div N) ELSE 0]

\* A power of X, in the ring and among plaintexts; its weight is 1.
LEMMA UnitFacts ==
  ASSUME RingAssumption, GadgetAssumption, NEW k \in 0 .. 2 * N - 1
  PROVE  /\ Unit(k) \in IntPolys /\ Monomial(k) \in Elements /\ Monomial(k) \in IntPolys
         /\ Cong(Monomial(k), Unit(k))
         /\ \E l \in IntPolys : Plain!Monomial(k) = Mix(Unit(k), P, l)
         /\ \E w : Terms(w, N) /\ NoLarger(Unit(k), w, N) /\ SumTo(w, N) = 1
<1>1. k \in Int /\ N \in Nat \ {0} /\ Idx = 0 .. N - 1
  BY DEF RingAssumption, Idx
<1>2. PICK r \in Idx : r = k % N
  BY <1>1, DimensionFacts
<1>3. PICK sg \in {1, -1} : sg = Sign(k \div N) /\ (sg = 1 <=> (k \div N) % 2 = 0)
  BY DEF Sign
<1>4. \A i \in Idx : Unit(k)[i] = IF i = r THEN sg ELSE 0
  BY <1>2, <1>3 DEF Unit
<1>5. Unit(k) \in IntPolys
  BY <1>3, <1>4 DEF Unit, IntPolys
<1>6. PICK q \in Nat \ {0} : q = Q /\ q > 1
  BY QType
<1>7. \A i \in Idx : Monomial(k)[i] = IF i = r THEN (IF sg = 1 THEN 1 ELSE q - 1) ELSE 0
  BY <1>2, <1>3, <1>6 DEF Monomial
<1>8. Monomial(k) \in Elements
  BY <1>6, <1>7 DEF Monomial, Elements, Residue
<1>9. Cong(Monomial(k), Unit(k))
  <2>1. ASSUME NEW i \in Idx
        PROVE  Same(Monomial(k)[i], Unit(k)[i], q)
    <3>1. PICK x \in Int : Monomial(k)[i] = Unit(k)[i] + q * x
      <4>1. CASE i = r /\ sg = -1
        <5>1. Monomial(k)[i] = -1 + q * 1 /\ Unit(k)[i] = -1
          BY <1>4, <1>6, <1>7, <4>1
        <5>2. Monomial(k)[i] = Unit(k)[i] + q * 1 /\ 1 \in Int
          BY <5>1
        <5>3. QED
          BY ONLY <5>2
      <4>2. CASE ~(i = r /\ sg = -1)
        <5>1. Monomial(k)[i] = Unit(k)[i] /\ Unit(k)[i] \in Int
          BY <1>3, <1>4, <1>7, <4>2
        <5>2. Monomial(k)[i] = Unit(k)[i] + q * 0 /\ 0 \in Int
          BY <5>1
        <5>3. QED
          BY ONLY <5>2
      <4>3. QED
        BY <4>1, <4>2
    <3>2. QED
      BY <3>1 DEF Same
  <2>2. QED
    BY <1>6, <2>1 DEF Cong
<1>10. \E l \in IntPolys : Plain!Monomial(k) = Mix(Unit(k), P, l)
  <2>1. PICK p \in Nat \ {0} : p = P
    BY DeltaFacts
  <2>2. PICK l : l = [i \in Idx |-> IF i = r /\ sg = -1 THEN 1 ELSE 0]
    OBVIOUS
  <2>3. l \in IntPolys
    BY <2>2 DEF IntPolys
  <2>4. Plain!Idx = Idx
    BY DEF Plain!Idx, Idx
  <2>5. \A i \in Idx : Plain!Monomial(k)[i] = IF i = r THEN (IF sg = 1 THEN 1 ELSE p - 1) ELSE 0
    BY <1>2, <1>3, <2>1, <2>4 DEF Plain!Monomial
  <2>6. ASSUME NEW i \in Idx
        PROVE  Plain!Monomial(k)[i] = Unit(k)[i] + p * l[i]
    <3>1. CASE i = r /\ sg = -1
      <4>1. Plain!Monomial(k)[i] = p - 1 /\ Unit(k)[i] = -1 /\ l[i] = 1
        BY <1>4, <2>2, <2>5, <3>1
      <4>2. QED
        BY <4>1
    <3>2. CASE ~(i = r /\ sg = -1)
      <4>1. Plain!Monomial(k)[i] = Unit(k)[i] /\ Unit(k)[i] \in Int /\ l[i] = 0
        BY <1>3, <1>4, <2>2, <2>5, <3>2
      <4>2. QED
        BY <4>1
    <3>3. QED
      BY <3>1, <3>2
  <2>7. Plain!Monomial(k) = [i \in Idx |-> Plain!Monomial(k)[i]]
    BY <2>4 DEF Plain!Monomial
  <2>8. Plain!Monomial(k) = Mix(Unit(k), P, l)
    BY <2>1, <2>6, <2>7 DEF Mix
  <2>9. QED
    BY <2>3, <2>8
<1>11. \E w : Terms(w, N) /\ NoLarger(Unit(k), w, N) /\ SumTo(w, N) = 1
  <2>1. PICK w : w = [i \in Idx |-> IF i = r THEN 1 ELSE 0]
    OBVIOUS
  <2>2. Terms(w, N)
    BY <1>1, <2>1 DEF Terms
  <2>3. NoLarger(Unit(k), w, N)
    <3>1. ASSUME NEW i \in 0 .. N - 1
          PROVE  -w[i] <= Unit(k)[i] /\ Unit(k)[i] <= w[i]
      <4>1. i \in Idx
        BY <1>1
      <4>2. w[i] = (IF i = r THEN 1 ELSE 0) /\ Unit(k)[i] = (IF i = r THEN sg ELSE 0)
        BY <1>4, <2>1, <4>1
      <4>3. QED
        BY <1>3, <4>2
    <3>2. QED
      BY <3>1 DEF NoLarger
  <2>4. SumTo(w, N) = w[r]
    <3>1. \A i \in 0 .. N - 1 : i # r => w[i] = 0
      BY <1>1, <2>1
    <3>2. r \in 0 .. N - 1 /\ N \in Nat
      BY <1>1
    <3>3. QED
      BY ONLY <2>2, <3>1, <3>2, SumSingle
  <2>5. QED
    BY <2>1, <2>2, <2>3, <2>4
<1>12. QED
  BY <1>5, <1>8, <1>9, <1>10, <1>11, ElementsAreIntPolys

\* external_product with an encryption of X^k.
LEMMA HoldsRotated ==
  ASSUME RingAssumption, GadgetAssumption, NEW s \in IntPolys, NEW c, NEW m, NEW B, Holds(c, s, m, B),
         NEW k \in 0 .. 2 * N - 1, NEW rows, NEW E \in Nat, RowsCarry(rows, s, Monomial(k), E)
  PROVE  Holds(ExternalProduct(c, rows), s, Plain!Times(m, Plain!Monomial(k)),
               B + Wrap + 2 * (Digits * (N * (Base - 1) * E)))
<1>1. /\ m \in PlainElements /\ m \in IntPolys /\ B \in Nat /\ Carries(c, s, By(Delta, m), B)
      /\ By(Delta, m) \in IntPolys /\ Delta \in Int /\ Wrap \in Nat
  BY HoldsFacts
<1>2. PICK u, x : u = Unit(k) /\ x = Monomial(k)
  OBVIOUS
<1>3. u \in IntPolys /\ x \in IntPolys /\ Cong(x, u)
  BY <1>2, UnitFacts
<1>4. PICK w : Terms(w, N) /\ NoLarger(u, w, N) /\ SumTo(w, N) = 1
  BY <1>2, UnitFacts
<1>5. PICK R \in Nat : R = 2 * (Digits * (N * (Base - 1) * E))
  <2>1. N \in Nat /\ Base - 1 \in Nat /\ Digits \in Nat
    BY GadgetTypes DEF RingAssumption
  <2>2. N * (Base - 1) * E \in Nat
    BY ONLY <2>1, E \in Nat
  <2>3. 2 * (Digits * (N * (Base - 1) * E)) \in Nat
    BY ONLY <2>1, <2>2
  <2>4. QED
    BY <2>3
<1>6. PICK d, o : d = ExternalProduct(c, rows) /\ o = Open(c, s)
  OBVIOUS
<1>7. o \in IntPolys /\ Near(o, By(Delta, m), B)
  BY <1>1, <1>6, CarriesType
<1>8. Carries(d, s, Mul(x, o), R)
  <2>1. \A j \in DigitIdx : /\ Carries(rows[j], s, By(Power(j), Mul(x, s)), E)
                            /\ Carries(rows[Digits + j], s, By(Power(j), x), E)
    BY <1>2 DEF RowsCarry
  <2>2. QED
    BY ONLY RingAssumption, GadgetAssumption, s \in IntPolys, E \in Nat, <1>1, <1>3, <1>5, <1>6, <2>1,
            ExternalCarries
<1>9. Mul(x, o) \in IntPolys /\ Mul(u, o) \in IntPolys /\ Mul(u, By(Delta, m)) \in IntPolys
  BY <1>1, <1>3, <1>7, MulType
<1>10. Cong(Mul(x, o), Mul(u, o))
  BY <1>3, <1>7, CongReflexive, MulSame
<1>11. Near(Mul(u, o), Mul(u, By(Delta, m)), 1 * B)
  BY ONLY RingAssumption, <1>1, <1>3, <1>4, <1>7, NearMul
<1>12. Near(Mul(x, o), Mul(u, By(Delta, m)), B)
  <2>1. 1 * B = B /\ B \in Int
    BY <1>1
  <2>2. QED
    BY <1>9, <1>10, <1>11, <2>1, NearCongLeft
<1>13. Mul(u, By(Delta, m)) = By(Delta, Mul(u, m)) /\ Mul(u, m) \in IntPolys
  BY <1>1, <1>3, ByMul
<1>14. Carries(d, s, By(Delta, Mul(u, m)), R + B)
  <2>1. R \in Int /\ B \in Int
    BY <1>1
  <2>2. QED
    BY <1>8, <1>9, <1>12, <1>13, <2>1, CarriesNear
<1>15. Spans(Mul(u, m), 1)
  <2>1. 1 \in Nat
    OBVIOUS
  <2>2. QED
    BY <1>1, <1>3, <1>4, <2>1, MulSpans
<1>16. Holds(d, s, Reduced(Mul(u, m)), (R + B) + 1 * Wrap)
  <2>1. R + B \in Nat /\ 1 \in Nat
    BY <1>1
  <2>2. QED
    BY <1>13, <1>14, <1>15, <2>1, HoldsReduced
<1>17. Reduced(Mul(u, m)) = Plain!Times(m, Plain!Monomial(k))
  <2>1. PICK l \in IntPolys : Plain!Monomial(k) = Mix(u, P, l)
    BY <1>2, UnitFacts
  <2>2. PICK p \in Nat \ {0} : p = P /\ p \in Int
    BY DeltaFacts
  <2>3. Mix(u, p, l) \in IntPolys
    BY <1>3, <2>2, MixType
  <2>4. Plain!Times(m, Mix(u, p, l)) = [i \in Idx |-> Mul(m, Mix(u, p, l))[i] % P]
    BY <1>1, <2>3, PlainTimesReads
  <2>5. Mul(m, Mix(u, p, l)) = Mix(Mul(m, u), p, Mul(m, l)) /\ Mul(m, u) = Mul(u, m)
        /\ Mul(u, m) \in IntPolys /\ Mul(m, l) \in IntPolys
    BY <1>1, <1>3, <2>2, MulMixes, MulCommutes, MulType
  <2>6. ASSUME NEW i \in Idx
        PROVE  Mix(Mul(u, m), p, Mul(m, l))[i] % p = Mul(u, m)[i] % p
    <3>1. PICK y \in Int, z \in Int : y = Mul(u, m)[i] /\ z = Mul(m, l)[i]
      BY <2>5 DEF IntPolys
    <3>2. y + p * z \in Int /\ Same(y + p * z, y, p)
      BY DEF Same
    <3>3. (y + p * z) % p = y % p
      BY ONLY <3>2, p \in Nat \ {0}, y \in Int, SameRemainders
    <3>4. QED
      BY <3>1, <3>3 DEF Mix
  <2>7. QED
    BY <2>1, <2>2, <2>4, <2>5, <2>6 DEF Reduced
<1>18. (R + B) + 1 * Wrap = B + Wrap + R
  BY <1>1
<1>19. QED
  BY <1>5, <1>6, <1>16, <1>17, <1>18

\* automorphism_ciphertext, under the image of the key.
LEMMA HoldsImage ==
  ASSUME RingAssumption, GadgetAssumption, NEW s \in Elements, NEW c, NEW m, NEW B, Holds(c, s, m, B),
         NEW g, Invertible(g)
  PROVE  Holds(CtAutomorphism(c, g), ImageKey(s, g), Plain!Automorphism(m, g), B + Wrap)
<1>0. s \in IntPolys
  BY ElementsAreIntPolys
<1>1. /\ m \in PlainElements /\ m \in IntPolys /\ B \in Nat /\ B \in Int /\ Carries(c, s, By(Delta, m), B)
      /\ By(Delta, m) \in IntPolys /\ Delta \in Int /\ Wrap \in Nat
      /\ \A i \in Idx : m[i] \in Int /\ 0 <= m[i] /\ m[i] <= P - 1
  BY <1>0, HoldsFacts
<1>2. PICK d, x : d = CtAutomorphism(c, g) /\ x = Image(m, g)
  OBVIOUS
<1>3. /\ ImageKey(s, g) \in IntPolys /\ Cong(Image(s, g), ImageKey(s, g)) /\ Image(s, g) \in IntPolys
  <2>1. /\ Automorphism(s, g) \in IntPolys /\ Cong(Automorphism(s, g), Image(s, g))
        /\ Image(s, g) \in IntPolys
    BY AutomorphismReads
  <2>2. QED
    BY <2>1, CongSymmetric DEF ImageKey
<1>4. Image(By(Delta, m), g) = By(Delta, x) /\ x \in IntPolys /\ By(Delta, x) \in IntPolys
  BY <1>1, <1>2, ByImage, ByType
<1>5. Carries(d, Image(s, g), By(Delta, x), B)
  BY <1>0, <1>1, <1>2, <1>4, CarriesImage
<1>6. Carries(d, ImageKey(s, g), By(Delta, x), B)
  BY <1>1, <1>3, <1>4, <1>5, CongReflexive, CarriesCong
<1>7. PICK p \in Nat \ {0} : p = P
  BY DeltaFacts
<1>8. ASSUME NEW i \in Idx
      PROVE  /\ -(1 * P) <= x[i] /\ x[i] < 1 * P + P
             /\ Plain!Automorphism(m, g)[i] = x[i] % P
  <2>1. PICK j \in Idx : x[i] = Sign((j * g) \div N) * m[j] /\ j = CHOOSE k \in Idx : (k * g) % N = i
    <3>1. PICK j \in Idx : /\ Image(m, g)[i] = Sign((j * g) \div N) * m[j]
                           /\ j = CHOOSE k \in Idx : (k * g) % N = i
      BY <1>1, ImagePlace
    <3>2. QED
      BY ONLY <1>2, <3>1, Zenon
  <2>2. PICK v \in 0 .. p - 1 : v = m[j]
    BY <1>1, <1>7
  <2>3. Plain!Automorphism(m, g)[i] = IF ((j * g) \div N) % 2 = 0 THEN m[j] ELSE (-m[j]) % P
    <3>1. Plain!Automorphism(m, g)[i] =
            (LET k == CHOOSE k \in Idx : (k * g) % N = i
             IN  IF ((k * g) \div N) % 2 = 0 THEN m[k] ELSE (-m[k]) % P)
      BY Zenon DEF Plain!Automorphism, Plain!Idx, Idx
    <3>2. QED
      BY ONLY <2>1, <3>1, Zenon
  <2>4. v % p = v /\ 1 * v = v /\ -1 * v = -v
    BY ModSmall
  <2>5. CASE ((j * g) \div N) % 2 = 0
    <3>1. x[i] = v
      BY <2>1, <2>2, <2>4, <2>5 DEF Sign
    <3>2. QED
      BY <1>7, <2>2, <2>3, <2>4, <2>5, <3>1
  <2>6. CASE ((j * g) \div N) % 2 # 0
    <3>1. x[i] = -v
      BY <2>1, <2>2, <2>4, <2>6 DEF Sign
    <3>2. QED
      BY <1>7, <2>2, <2>3, <2>4, <2>6, <3>1
  <2>7. QED
    BY <2>5, <2>6
<1>9. Spans(x, 1)
  BY <1>8 DEF Spans
<1>10. Plain!Automorphism(m, g) = Reduced(x)
  <2>1. Plain!Idx = Idx
    BY DEF Plain!Idx, Idx
  <2>2. QED
    BY <1>8, <2>1 DEF Reduced, Plain!Automorphism
<1>11. Holds(d, ImageKey(s, g), Reduced(x), B + 1 * Wrap)
  <2>1. 1 \in Nat
    OBVIOUS
  <2>2. QED
    BY <1>1, <1>3, <1>4, <1>6, <1>9, <2>1, HoldsReduced
<1>12. B + 1 * Wrap = B + Wrap
  BY <1>1
<1>13. QED
  BY <1>2, <1>10, <1>11, <1>12

\* key_switch keeps the plaintext, within the noise of its rows.
LEMMA HoldsSwitched ==
  ASSUME RingAssumption, GadgetAssumption, NEW from \in IntPolys, NEW to \in IntPolys, NEW c, NEW m,
         NEW B, Holds(c, from, m, B), NEW rows, NEW E \in Nat,
         \A k \in DigitIdx : Carries(rows[k], to, By(Power(k), from), E)
  PROVE  Holds(KeySwitch(c, rows), to, m, B + Digits * (N * (Base - 1) * E))
<1>1. /\ m \in PlainElements /\ B \in Nat /\ B \in Int /\ Carries(c, from, By(Delta, m), B)
      /\ By(Delta, m) \in IntPolys
  BY HoldsFacts
<1>2. Carries(KeySwitch(c, rows), to, By(Delta, m), B + Digits * (N * (Base - 1) * E))
  BY <1>1, KeySwitchCarries
<1>3. B + Digits * (N * (Base - 1) * E) \in Nat
  <2>1. N \in Nat /\ Base - 1 \in Nat /\ Digits \in Nat
    BY GadgetTypes DEF RingAssumption
  <2>2. N * (Base - 1) * E \in Nat
    BY ONLY <2>1, E \in Nat
  <2>3. QED
    BY ONLY <1>1, <2>1, <2>2
<1>4. QED
  BY <1>1, <1>2, <1>3 DEF Holds

\* encrypt and trivial_encrypt.
LEMMA HoldsEncrypted ==
  ASSUME RingAssumption, GadgetAssumption, NEW s \in Elements, NEW m \in PlainElements,
         NEW a \in Elements, NEW E \in Nat, NEW e, SmallError(e, E)
  PROVE  Holds(Encrypt(s, m, a, e), s, m, E) /\ Holds(Trivial(m), s, m, 0)
<1>1. m \in IntPolys /\ Delta \in Int /\ E \in Int
  BY PlainType, DeltaFacts
<1>2. QED
  BY <1>1, EncryptCarries DEF Holds

-----------------------------------------------------------------------------
(* LWE ciphertexts                                                         *)

\* The terms of an inner product; the phase of an LWE ciphertext before it is reduced; what
\* it carries, and the plaintext it holds within a bound.
Terms2(a, s) == [i \in Idx |-> a[i] * s[i]]
LweOpen(c, s) == c.b + SumTo(Terms2(c.a, s), N)
LweCarries(c, s, y, B) ==
  /\ c.a \in IntPolys /\ c.b \in Int
  /\ \E e \in Int : -B <= e /\ e <= B /\ Same(LweOpen(c, s), y + e, Q)
LweHolds(c, s, m, B) == m \in 0 .. P - 1 /\ B \in Nat /\ LweCarries(c, s, Delta * m, B)

\* The terms of an inner product are integers.
LEMMA InnerTerms ==
  ASSUME RingAssumption, NEW a \in IntPolys, NEW s \in IntPolys
  PROVE  Terms(Terms2(a, s), N) /\ SumTo(Terms2(a, s), N) \in Int /\ N \in Nat
<1>1. \A i \in Idx : a[i] \in Int /\ s[i] \in Int
  BY DEF IntPolys
<1>2. \A i \in Idx : Terms2(a, s)[i] \in Int
  BY <1>1 DEF Terms2
<1>3. Terms(Terms2(a, s), N) /\ N \in Nat /\ N \in 0 .. N
  BY <1>2, IdxTerms
<1>4. SumTo(Terms2(a, s), N) \in Int
  BY ONLY <1>3, SumLaw
<1>5. QED
  BY <1>3, <1>4

\* Inner is the reduced sum of the products.
LEMMA InnerReads ==
  ASSUME RingAssumption, NEW a \in IntPolys, NEW s \in IntPolys
  PROVE  Inner(a, s) = SumTo(Terms2(a, s), N) % Q
<1>1. N \in Nat /\ Idx = 0 .. N - 1 /\ Q \in Nat \ {0} /\ N \in 0 .. N /\ 0 \in 0 .. N
  BY DEF RingAssumption, Idx
<1>2. PICK f : f = Terms2(a, s)
  OBVIOUS
<1>3. Terms(f, N)
  BY <1>2, InnerTerms
<1> DEFINE F(g) == [k \in 0 .. N |-> IF k = 0 THEN 0 ELSE (g[k - 1] + (a[k - 1] * s[k - 1])) % Q]
<1>4. ASSUME NEW k \in 0 .. N, k # 0
      PROVE  f[k - 1] = a[k - 1] * s[k - 1]
  <2>1. k - 1 \in Idx
    BY <1>1, <1>4
  <2>2. QED
    BY <1>2, <2>1 DEF Terms2
<1>5. PICK y : y = [k \in 0 .. N |-> IF k = 0 THEN 0 ELSE (y[k - 1] + f[k - 1]) % Q]
  BY <1>1, <1>3, ReducedLoop
<1>6. y = F(y)
  <2>1. \A k \in 0 .. N : y[k] = IF k = 0 THEN 0 ELSE (y[k - 1] + f[k - 1]) % Q
    BY <1>5
  <2>2. \A k \in 0 .. N : y[k] = F(y)[k]
    BY <1>4, <2>1
  <2>3. y = [k \in 0 .. N |-> y[k]]
    BY <1>5
  <2>4. QED
    BY <2>2, <2>3
<1>7. PICK z : z = F(z) /\ Inner(a, s) = z[N]
  <2>1. Inner(a, s) = (CHOOSE x : x = F(x))[N]
    BY Zenon DEF Inner, SumBelow
  <2> HIDE DEF F
  <2>2. QED
    BY ONLY <1>6, <2>1, Zenon
<1>8. z[0] = 0
  BY <1>1, <1>7
<1>9. ASSUME NEW k \in 0 .. N, k # 0
      PROVE  z[k] = (z[k - 1] + f[k - 1]) % Q
  BY <1>4, <1>7, <1>9
<1>10. z[N] = SumTo(f, N) % Q
  BY ONLY <1>1, <1>3, <1>8, <1>9, ReducedReads
<1>11. QED
  BY <1>2, <1>7, <1>10

\* The phase is the reduced opening.
LEMMA LwePhaseReads ==
  ASSUME RingAssumption, NEW c, c.a \in IntPolys, c.b \in Int, NEW s \in IntPolys
  PROVE  /\ LweOpen(c, s) \in Int /\ LwePhase(c, s) \in 0 .. Q - 1
         /\ Same(LwePhase(c, s), LweOpen(c, s), Q)
<1>1. PICK x \in Int : x = SumTo(Terms2(c.a, s), N)
  BY InnerTerms
<1>2. PICK y \in Int : y = Inner(c.a, s) /\ Same(y, x, Q)
  <2>1. Inner(c.a, s) = x % Q
    BY <1>1, InnerReads
  <2>2. x % Q \in 0 .. Q - 1 /\ Same(x % Q, x, Q)
    BY QType, DivMod, SameMod
  <2>3. x % Q \in Int
    BY <2>2, QType
  <2>4. QED
    BY <2>1, <2>2, <2>3
<1>3. PICK b \in Int, z \in Int, u \in Int : b = c.b /\ z = b + y /\ u = b + x
  OBVIOUS
<1>4. LwePhase(c, s) = z % Q /\ LweOpen(c, s) = u
  BY <1>1, <1>2, <1>3 DEF LwePhase, LweOpen
<1>5. z % Q \in 0 .. Q - 1 /\ Same(z % Q, z, Q)
  BY QType, DivMod, SameMod
<1>6. Same(z, u, Q)
  <2>1. Same(b, b, Q)
    BY QType, SameReflexive
  <2>2. QED
    BY <1>2, <1>3, <2>1, QType, SameSum
<1>7. z % Q \in Int
  BY <1>5, QType
<1>8. Same(z % Q, u, Q)
  BY <1>5, <1>6, <1>7, QType, SameTransitive
<1>9. QED
  BY <1>4, <1>5, <1>8

\* The sum of a combination over all places.
LEMMA SumMixed ==
  ASSUME NEW f, NEW g, NEW h, N \in Nat, Terms(f, N), Terms(g, N), NEW x \in Int, Combines(h, f, x, g, N)
  PROVE  Terms(h, N) /\ SumTo(h, N) = SumTo(f, N) + x * SumTo(g, N)
  BY SumLinear

\* Openings of combinations.
LEMMA LweMix ==
  ASSUME RingAssumption, NEW s \in IntPolys, NEW c, c.a \in IntPolys, c.b \in Int,
         NEW d, d.a \in IntPolys, d.b \in Int, NEW x \in Int,
         NEW p, p.a \in IntPolys, p.b \in Int, Cong(p.a, Mix(c.a, x, d.a)), Same(p.b, c.b + x * d.b, Q)
  PROVE  Same(LweOpen(p, s), LweOpen(c, s) + x * LweOpen(d, s), Q)
<1>1. PICK k \in IntPolys : p.a = Mix(Mix(c.a, x, d.a), Q, k)
  BY MixType, CongPicks
<1>2. PICK l \in Int : p.b = (c.b + x * d.b) + Q * l
  BY DEF Same
<1>3. PICK q \in Int : q = Q
  BY QType
<1>4. /\ Terms(Terms2(c.a, s), N) /\ Terms(Terms2(d.a, s), N) /\ Terms(Terms2(k, s), N) /\ N \in Nat
      /\ Mix(c.a, x, d.a) \in IntPolys
  BY InnerTerms, MixType
<1>5. Combines(Terms2(Mix(c.a, x, d.a), s), Terms2(c.a, s), x, Terms2(d.a, s), N)
  <2>1. ASSUME NEW i \in Idx
        PROVE  Terms2(Mix(c.a, x, d.a), s)[i] = Terms2(c.a, s)[i] + x * Terms2(d.a, s)[i]
    <3>1. PICK u \in Int, v \in Int, w \in Int : u = c.a[i] /\ v = d.a[i] /\ w = s[i]
      BY DEF IntPolys
    <3>2. (u + x * v) * w = u * w + x * (v * w)
      OBVIOUS
    <3>3. QED
      BY <3>1, <3>2 DEF Terms2, Mix
  <2>2. QED
    BY <2>1 DEF Combines, Idx
<1>6. Combines(Terms2(p.a, s), Terms2(Mix(c.a, x, d.a), s), q, Terms2(k, s), N)
  <2>1. ASSUME NEW i \in Idx
        PROVE  Terms2(p.a, s)[i] = Terms2(Mix(c.a, x, d.a), s)[i] + q * Terms2(k, s)[i]
    <3>1. PICK u \in Int, v \in Int, w \in Int : u = Mix(c.a, x, d.a)[i] /\ v = k[i] /\ w = s[i]
      BY <1>4 DEF IntPolys
    <3>2. (u + q * v) * w = u * w + q * (v * w)
      OBVIOUS
    <3>3. p.a[i] = u + q * v
      BY <1>1, <1>3, <3>1 DEF Mix
    <3>4. QED
      BY <3>1, <3>2, <3>3 DEF Terms2
  <2>2. QED
    BY <2>1 DEF Combines, Idx
<1>7. PICK e \in Int, f \in Int : e = SumTo(Terms2(c.a, s), N) /\ f = SumTo(Terms2(d.a, s), N)
  BY InnerTerms
<1>8. PICK g \in Int : g = SumTo(Terms2(k, s), N)
  BY InnerTerms
<1>9. /\ Terms(Terms2(Mix(c.a, x, d.a), s), N)
      /\ SumTo(Terms2(Mix(c.a, x, d.a), s), N) = e + x * f
  <2>1. PICK t, u, v : t = Terms2(c.a, s) /\ u = Terms2(d.a, s) /\ v = Terms2(Mix(c.a, x, d.a), s)
    OBVIOUS
  <2>2. N \in Nat /\ Terms(t, N) /\ Terms(u, N)
    BY <1>4, <2>1
  <2>3. Combines(v, t, x, u, N)
    BY <1>5, <2>1
  <2>4. Terms(v, N) /\ SumTo(v, N) = SumTo(t, N) + x * SumTo(u, N)
    BY ONLY <2>2, <2>3, x \in Int, SumMixed
  <2>5. QED
    BY <1>7, <2>1, <2>4
<1>10. SumTo(Terms2(p.a, s), N) = SumTo(Terms2(Mix(c.a, x, d.a), s), N) + q * g
  <2>1. PICK t, u, v : t = Terms2(Mix(c.a, x, d.a), s) /\ u = Terms2(k, s) /\ v = Terms2(p.a, s)
    OBVIOUS
  <2>2. N \in Nat /\ Terms(t, N) /\ Terms(u, N)
    BY <1>4, <1>9, <2>1
  <2>3. Combines(v, t, q, u, N)
    BY <1>6, <2>1
  <2>4. SumTo(v, N) = SumTo(t, N) + q * SumTo(u, N)
    BY ONLY <2>2, <2>3, q \in Int, SumMixed
  <2>5. QED
    BY <1>8, <2>1, <2>4
<1>11. PICK a \in Int, b \in Int : a = c.b /\ b = d.b
  OBVIOUS
<1>12. LweOpen(c, s) = a + e /\ LweOpen(d, s) = b + f
  BY <1>7, <1>11 DEF LweOpen
<1>13. LweOpen(p, s) = ((a + x * b) + q * l) + ((e + x * f) + q * g)
  BY <1>2, <1>3, <1>9, <1>10, <1>11 DEF LweOpen
<1>14. ((a + x * b) + q * l) + ((e + x * f) + q * g) = ((a + e) + x * (b + f)) + q * (l + g)
  OBVIOUS
<1>15. l + g \in Int
  OBVIOUS
<1>16. QED
  BY <1>3, <1>12, <1>13, <1>14, <1>15 DEF Same

\* The error of a combination of LWE ciphertexts.
LEMMA LweMixed ==
  ASSUME RingAssumption, NEW s \in IntPolys, NEW c, NEW d, NEW y \in Int, NEW z \in Int,
         NEW B \in Int, NEW C \in Nat, LweCarries(c, s, y, B), LweCarries(d, s, z, C),
         NEW x \in Int, NEW X \in Int, -X <= x, x <= X,
         NEW p, p.a \in IntPolys, p.b \in Int, Cong(p.a, Mix(c.a, x, d.a)), Same(p.b, c.b + x * d.b, Q)
  PROVE  LweCarries(p, s, y + x * z, B + X * C)
<1>1. c.a \in IntPolys /\ c.b \in Int /\ d.a \in IntPolys /\ d.b \in Int
  BY DEF LweCarries
<1>2. PICK u \in Int, v \in Int, w \in Int : u = LweOpen(c, s) /\ v = LweOpen(d, s) /\ w = LweOpen(p, s)
  BY <1>1, LwePhaseReads
<1>3. PICK q \in Nat : q = Q
  BY QType
<1>4. PICK e \in Int, k \in Int : -B <= e /\ e <= B /\ u = (y + e) + q * k
  BY <1>2, <1>3 DEF LweCarries, Same
<1>5. PICK f \in Int, l \in Int : -C <= f /\ f <= C /\ v = (z + f) + q * l
  BY <1>2, <1>3 DEF LweCarries, Same
<1>6. PICK j \in Int : w = (u + x * v) + q * j
  <2>1. Same(w, u + x * v, Q)
    BY <1>1, <1>2, LweMix
  <2>2. QED
    BY <1>3, <2>1 DEF Same
<1>7. -(X * C) <= x * f /\ x * f <= X * C
  BY ONLY -X <= x, x <= X, x \in Int, X \in Int, C \in Nat, f \in Int, <1>5, SizeOfProduct
<1>8. PICK g \in Int, h \in Int : g = e + x * f /\ h = (k + x * l) + j
  OBVIOUS
<1>9. -(B + X * C) <= g /\ g <= B + X * C
  <2>1. PICK r \in Int, t \in Int : r = x * f /\ t = X * C
    OBVIOUS
  <2>2. QED
    BY <1>4, <1>7, <1>8, <2>1
<1>10. w = ((y + x * z) + g) + q * h
  <2>1. x * v = (x * z + x * f) + q * (x * l)
    BY <1>5
  <2>2. q * h = (q * k + q * (x * l)) + q * j
    BY <1>8
  <2>3. PICK r1 \in Int, r2 \in Int, r3 \in Int, r4 \in Int, r5 \in Int :
          r1 = x * z /\ r2 = x * f /\ r3 = q * (x * l) /\ r4 = q * k /\ r5 = q * j
    OBVIOUS
  <2>4. QED
    BY <1>4, <1>6, <1>8, <2>1, <2>2, <2>3
<1>11. Same(LweOpen(p, s), (y + x * z) + g, Q)
  BY <1>2, <1>3, <1>10 DEF Same
<1>12. QED
  BY <1>9, <1>11 DEF LweCarries

\* Nothing carries nothing.
LEMMA LweNothing ==
  ASSUME RingAssumption, GadgetAssumption, NEW s \in IntPolys
  PROVE  /\ LweCarries(Pair(Zero, 0), s, 0, 0) /\ LweHolds(Pair(Zero, 0), s, 0, 0)
         /\ Pair(Zero, 0).a = Zero /\ Pair(Zero, 0).b = 0 /\ Zero \in IntPolys
<1>1. Zero \in IntPolys /\ N \in Nat
  BY CarriesZero, DimensionFacts
<1>2. PICK f : f = Terms2(Zero, s)
  OBVIOUS
<1>3. Terms(f, N) /\ SumTo(f, N) \in Int
  BY <1>1, <1>2, InnerTerms
<1>4. Combines(f, f, -1, f, N)
  <2>1. ASSUME NEW i \in Idx
        PROVE  f[i] = f[i] + (-1) * f[i]
    <3>1. s[i] \in Int
      BY DEF IntPolys
    <3>2. f[i] = 0
      BY <1>2, <3>1 DEF Terms2, Zero
    <3>3. QED
      BY <3>2
  <2>2. QED
    BY <2>1 DEF Combines, Idx
<1>5. -1 \in Int
  OBVIOUS
<1>6. SumTo(f, N) = SumTo(f, N) + (-1) * SumTo(f, N)
  BY ONLY <1>1, <1>3, <1>4, <1>5, SumMixed
<1>7. SumTo(f, N) = 0
  BY <1>3, <1>6
<1>8. Pair(Zero, 0).a = Zero /\ Pair(Zero, 0).b = 0
  BY DEF Pair
<1>9. LweOpen(Pair(Zero, 0), s) = 0
  BY <1>2, <1>7, <1>8 DEF LweOpen
<1>10. Same(0, 0 + 0, Q)
  BY QType, SameReflexive
<1>11. LweCarries(Pair(Zero, 0), s, 0, 0)
  BY <1>1, <1>8, <1>9, <1>10 DEF LweCarries
<1>12. Delta * 0 = 0 /\ 0 \in 0 .. P - 1
  BY DeltaFacts
<1>13. QED
  BY <1>1, <1>8, <1>11, <1>12 DEF LweHolds

\* What holding a plaintext gives.
LEMMA LweHoldsFacts ==
  ASSUME RingAssumption, GadgetAssumption, NEW c, NEW s, NEW m, NEW B, LweHolds(c, s, m, B)
  PROVE  /\ m \in 0 .. P - 1 /\ m \in Int /\ B \in Nat /\ B \in Int /\ LweCarries(c, s, Delta * m, B)
         /\ Delta * m \in Int /\ c.a \in IntPolys /\ c.b \in Int
<1>1. m \in 0 .. P - 1 /\ B \in Nat /\ LweCarries(c, s, Delta * m, B)
  BY DEF LweHolds
<1>2. c.a \in IntPolys /\ c.b \in Int
  BY <1>1 DEF LweCarries
<1>3. m \in Int /\ Delta * m \in Int
  BY <1>1, DeltaFacts
<1>4. QED
  BY <1>1, <1>2, <1>3

\* A plaintext that wraps.
LEMMA LweReduced ==
  ASSUME RingAssumption, GadgetAssumption, NEW s, NEW c, NEW B \in Nat, NEW x \in Int, NEW D \in Nat,
         -(D * P) <= x, x < D * P + P, LweCarries(c, s, Delta * x, B)
  PROVE  LweHolds(c, s, x % P, B + D * Wrap)
<1>1. PICK p \in Nat \ {0}, de \in Int, w \in Nat, q \in Nat :
        p = P /\ de = Delta /\ w = Wrap /\ q = Q /\ q = p * de + w
  BY DeltaFacts, QType
<1>2. PICK d \in Int, r \in 0 .. p - 1 : x = p * d + r /\ r = x % p /\ -D <= d /\ d <= D
  BY <1>1, QuotientWithin
<1>3. PICK e \in Int : -B <= e /\ e <= B /\ Same(LweOpen(c, s), Delta * x + e, Q)
  BY DEF LweCarries
<1>4. PICK k \in Int : LweOpen(c, s) = (de * x + e) + q * k
  BY <1>1, <1>3 DEF Same
<1>5. PICK u \in Int : u = -d /\ -D <= u /\ u <= D /\ d = -u
  BY <1>2
<1>6. -(D * w) <= u * w /\ u * w <= D * w
  <2>1. D \in Int /\ w \in Int /\ -w <= w /\ w <= w
    OBVIOUS
  <2>2. QED
    BY ONLY <1>5, <2>1, u \in Int, w \in Nat, SizeOfProduct
<1>7. PICK g \in Int, t \in Int, v \in Int : g = e + u * w /\ t = D * w /\ v = u * w
  OBVIOUS
<1>8. -(B + t) <= g /\ g <= B + t
  BY <1>3, <1>6, <1>7
<1>9. (de * x + e) + q * k = (de * r + g) + q * (k + d)
  <2>1. de * x = p * de * d + de * r
    <3>1. r \in Int
      OBVIOUS
    <3>2. de * (p * d + r) = p * de * d + de * r
      BY ONLY <3>1, p \in Nat, de \in Int, d \in Int
    <3>3. QED
      BY ONLY <1>2, <3>1, <3>2, Zenon
  <2>2. q * d = p * de * d + w * d
    BY <1>1
  <2>3. u * w = -(w * d)
    BY <1>5
  <2>4. q * (k + d) = q * k + q * d
    OBVIOUS
  <2>5. PICK r1 \in Int, r2 \in Int, r3 \in Int, r4 \in Int :
          r1 = p * de * d /\ r2 = de * r /\ r3 = w * d /\ r4 = q * k
    OBVIOUS
  <2>6. QED
    BY <1>7, <2>1, <2>2, <2>3, <2>4, <2>5
<1>10. Same(LweOpen(c, s), de * r + g, q)
  BY <1>4, <1>9 DEF Same
<1>11. c.a \in IntPolys /\ c.b \in Int
  BY DEF LweCarries
<1>12. LweCarries(c, s, Delta * r, B + t)
  BY <1>1, <1>8, <1>10, <1>11 DEF LweCarries
<1>13. B + t \in Nat
  BY <1>1, <1>7
<1>14. QED
  BY <1>1, <1>2, <1>7, <1>12, <1>13 DEF LweHolds

\* A residue of an integer is congruent to it.
LEMMA ReducedSame ==
  ASSUME RingAssumption, NEW x \in Int
  PROVE  x % Q \in 0 .. Q - 1 /\ x % Q \in Int /\ Same(x % Q, x, Q)
<1>1. x % Q \in 0 .. Q - 1 /\ Same(x % Q, x, Q)
  BY QType, DivMod, SameMod
<1>2. QED
  BY <1>1, QType

\* LwePlus and LweMinus: plaintexts are added, and wrap once at most.
LEMMA LweHoldsPlus ==
  ASSUME RingAssumption, GadgetAssumption, NEW s \in IntPolys, NEW c, NEW m, NEW B, LweHolds(c, s, m, B),
         NEW d, NEW n, NEW C, LweHolds(d, s, n, C)
  PROVE  /\ LweHolds(LwePlus(c, d), s, (m + n) % P, B + C + Wrap)
         /\ LweHolds(LweMinus(c, d), s, (m - n) % P, B + C + Wrap)
<1>1. /\ m \in 0 .. P - 1 /\ m \in Int /\ B \in Nat /\ B \in Int /\ LweCarries(c, s, Delta * m, B)
      /\ Delta * m \in Int /\ c.a \in IntPolys /\ c.b \in Int
  BY LweHoldsFacts
<1>2. /\ n \in 0 .. P - 1 /\ n \in Int /\ C \in Nat /\ C \in Int /\ LweCarries(d, s, Delta * n, C)
      /\ Delta * n \in Int /\ d.a \in IntPolys /\ d.b \in Int
  BY LweHoldsFacts
<1>3. PICK a \in Int, b \in Int, y \in Int, z \in Int, de \in Int :
        a = c.b /\ b = d.b /\ y = Delta * m /\ z = Delta * n /\ de = Delta
  <2>1. c.b \in Int /\ d.b \in Int
    BY <1>1, <1>2
  <2>2. Delta * m \in Int /\ Delta * n \in Int
    BY <1>1, <1>2
  <2>3. Delta \in Int
    BY DeltaFacts
  <2>4. QED
    BY ONLY <2>1, <2>2, <2>3, Zenon
<1>4. ASSUME NEW x \in {1, -1}, NEW p, p.a \in IntPolys, p.b \in Int,
             Cong(p.a, Mix(c.a, x, d.a)), Same(p.b, c.b + x * d.b, Q)
      PROVE  LweHolds(p, s, (m + x * n) % P, B + C + Wrap)
  <2>1. x \in Int /\ 1 \in Int /\ -1 <= x /\ x <= 1
    OBVIOUS
  <2>2. LweCarries(c, s, y, B) /\ LweCarries(d, s, z, C) /\ B \in Int /\ C \in Nat
    BY <1>1, <1>2, <1>3
  <2>3. LweCarries(p, s, y + x * z, B + 1 * C)
    BY ONLY RingAssumption, s \in IntPolys, y \in Int, z \in Int, <2>1, <2>2, <1>4, LweMixed
  <2>4. PICK u \in Int : u = m + x * n
    BY <1>1, <1>2, <2>1
  <2>5. y + x * z = Delta * u
    <3>1. de * (m + x * n) = de * m + x * (de * n)
      BY <1>1, <1>2, <2>1
    <3>2. QED
      BY <1>3, <2>4, <3>1
  <2>6. B + 1 * C = B + C /\ B + C \in Nat /\ 1 \in Nat
    BY <1>1, <1>2
  <2>7. -(1 * P) <= u /\ u < 1 * P + P
    <3>1. P \in Nat
      BY DeltaFacts
    <3>2. QED
      BY <1>1, <1>2, <2>4, <3>1
  <2>8. LweHolds(p, s, u % P, (B + C) + 1 * Wrap)
    <3>1. LweCarries(p, s, Delta * u, B + C)
      BY <2>3, <2>5, <2>6
    <3>2. QED
      BY <2>6, <2>7, <3>1, LweReduced
  <2>9. (B + C) + 1 * Wrap = B + C + Wrap
    BY <2>6, DeltaFacts
  <2>10. QED
    BY <2>4, <2>8, <2>9
<1>5. LweHolds(LwePlus(c, d), s, (m + n) % P, B + C + Wrap)
  <2>1. PICK p : p = LwePlus(c, d)
    OBVIOUS
  <2>2. p.a = Plus(c.a, d.a) /\ p.b = (a + b) % Q
    BY <1>3, <2>1 DEF LwePlus, Pair
  <2>3. p.a \in IntPolys /\ Cong(p.a, Mix(c.a, 1, d.a))
    BY <1>1, <1>2, <2>2, PlusReads
  <2>4. a + b = a + 1 * b /\ a + b \in Int /\ m + n = m + 1 * n
    BY <1>1, <1>2
  <2>5. p.b \in Int /\ Same(p.b, c.b + 1 * d.b, Q)
    BY <1>3, <2>2, <2>4, ReducedSame
  <2>6. QED
    BY <1>4, <2>1, <2>3, <2>4, <2>5
<1>6. LweHolds(LweMinus(c, d), s, (m - n) % P, B + C + Wrap)
  <2>1. PICK p : p = LweMinus(c, d)
    OBVIOUS
  <2>2. p.a = Minus(c.a, d.a) /\ p.b = (a - b) % Q
    BY <1>3, <2>1 DEF LweMinus, Pair
  <2>3. p.a \in IntPolys /\ Cong(p.a, Mix(c.a, -1, d.a))
    BY <1>1, <1>2, <2>2, MinusReads
  <2>4. a - b = a + (-1) * b /\ a - b \in Int /\ m - n = m + (-1) * n
    BY <1>1, <1>2
  <2>5. p.b \in Int /\ Same(p.b, c.b + (-1) * d.b, Q)
    BY <1>3, <2>2, <2>4, ReducedSame
  <2>6. QED
    BY <1>4, <2>1, <2>3, <2>4, <2>5
<1>7. QED
  BY <1>5, <1>6

\* LweScaled: a multiple of k wraps k times at most.
LEMMA LweHoldsScaled ==
  ASSUME RingAssumption, GadgetAssumption, NEW s \in IntPolys, NEW c, NEW m, NEW B, LweHolds(c, s, m, B),
         NEW k \in Nat
  PROVE  LweHolds(LweScaled(c, k), s, (m * k) % P, k * (B + Wrap))
<1>1. /\ m \in 0 .. P - 1 /\ m \in Int /\ B \in Nat /\ B \in Int /\ LweCarries(c, s, Delta * m, B)
      /\ Delta * m \in Int /\ c.a \in IntPolys /\ c.b \in Int
  BY LweHoldsFacts
<1>2. PICK o, p : o = Pair(Zero, 0) /\ p = LweScaled(c, k)
  OBVIOUS
<1>3. LweCarries(o, s, 0, 0) /\ o.a = Zero /\ o.b = 0
  BY <1>2, LweNothing
<1>4. p.a = Scaled(c.a, k) /\ p.b = (c.b * k) % Q
  BY <1>2 DEF LweScaled, Pair
<1>5. k \in Int /\ -k <= k /\ k <= k /\ 0 \in Int
  OBVIOUS
<1>6. p.a \in IntPolys /\ Cong(p.a, Mix(o.a, k, c.a))
  BY <1>1, <1>3, <1>4, <1>5, ScaledReads DEF By
<1>7. p.b \in Int /\ Same(p.b, o.b + k * c.b, Q)
  <2>1. PICK b \in Int : b = c.b
    BY <1>1
  <2>2. b * k \in Int /\ b * k = 0 + k * b
    OBVIOUS
  <2>3. QED
    BY <1>3, <1>4, <2>1, <2>2, ReducedSame
<1>8. PICK y \in Int, de \in Int, w \in Nat : y = Delta * m /\ de = Delta /\ w = Wrap
  BY <1>1, DeltaFacts
<1>9. LweCarries(p, s, 0 + k * y, 0 + k * B)
  <2>1. LweCarries(c, s, y, B) /\ B \in Nat
    BY <1>1, <1>8
  <2>2. QED
    BY ONLY RingAssumption, s \in IntPolys, y \in Int, <2>1, <1>3, <1>5, <1>6, <1>7, LweMixed
<1>10. PICK u \in Int : u = m * k
  BY <1>1
<1>11. 0 + k * y = Delta * u /\ 0 + k * B = k * B /\ k * B \in Nat
  <2>1. 0 + k * (de * m) = de * (m * k)
    BY <1>1
  <2>2. QED
    BY <1>1, <1>8, <1>10, <2>1
<1>12. -(k * P) <= u /\ u < k * P + P
  <2>1. PICK p1 \in Nat \ {0} : p1 = P
    BY DeltaFacts
  <2>2. m \in Nat /\ m <= p1
    BY <1>1, <2>1
  <2>3. 0 <= m * k /\ m * k <= k * p1
    <3>1. m * k <= p1 * k
      BY ONLY <2>2, p1 \in Nat, k \in Nat
    <3>2. m * k \in Nat
      BY <2>2
    <3>3. QED
      BY <3>1, <3>2
  <2>4. PICK r1 \in Nat : r1 = k * p1
    OBVIOUS
  <2>5. QED
    BY <1>10, <2>1, <2>3, <2>4
<1>13. LweHolds(p, s, u % P, k * B + k * Wrap)
  BY <1>9, <1>11, <1>12, LweReduced
<1>14. k * B + k * w = k * (B + w)
  BY <1>1
<1>15. QED
  BY <1>2, <1>8, <1>10, <1>13, <1>14

\* LweEncrypt: the mask cancels.
LEMMA LweHoldsEncrypted ==
  ASSUME RingAssumption, GadgetAssumption, NEW s \in IntPolys, NEW m \in 0 .. P - 1, NEW a \in Elements,
         NEW e \in Int, NEW B \in Nat, -B <= e, e <= B
  PROVE  LweHolds(LweEncrypt(s, m, a, e), s, m, B)
<1>1. a \in IntPolys
  BY ElementsAreIntPolys
<1>2. PICK x \in Int : x = SumTo(Terms2(a, s), N)
  BY <1>1, InnerTerms
<1>3. PICK y \in Int, k \in Int, q \in Nat : q = Q /\ y = Inner(a, s) /\ y = x + q * k
  <2>1. Inner(a, s) = x % Q
    BY <1>1, <1>2, InnerReads
  <2>2. PICK q \in Nat : q = Q
    BY QType
  <2>3. x % Q \in Int /\ \E k \in Int : x % Q = x + q * k
    BY <2>2, ReducedSame DEF Same
  <2>4. QED
    BY <2>1, <2>2, <2>3
<1>4. PICK d \in Int : d = Delta * m
  BY DeltaFacts
<1>5. PICK z \in Int : z = -y + e + d
  OBVIOUS
<1>6. PICK b \in Int, l \in Int : b = z % Q /\ b = z + q * l
  BY <1>3, ReducedSame DEF Same
<1>7. PICK p : p = LweEncrypt(s, m, a, e)
  OBVIOUS
<1>8. p.a = a /\ p.b = b
  BY <1>3, <1>4, <1>5, <1>6, <1>7 DEF LweEncrypt, Pair
<1>9. LweOpen(p, s) = b + x
  BY <1>2, <1>8 DEF LweOpen
<1>10. b + x = (d + e) + q * (l - k) /\ l - k \in Int
  <2>1. q * (l - k) = q * l - q * k
    OBVIOUS
  <2>2. PICK r1 \in Int, r2 \in Int : r1 = q * l /\ r2 = q * k
    OBVIOUS
  <2>3. QED
    BY <1>3, <1>5, <1>6, <2>1, <2>2
<1>11. Same(LweOpen(p, s), d + e, Q)
  BY <1>3, <1>9, <1>10 DEF Same
<1>12. QED
  BY <1>1, <1>4, <1>7, <1>8, <1>11 DEF LweHolds, LweCarries

\* from_rlwe with its signs, before it is reduced.
SignedKey(s) == [i \in Idx |-> IF i = 0 THEN s[0] ELSE -s[i]]

\* from_rlwe is congruent to the key with its signs.
LEMMA FromRlweReads ==
  ASSUME RingAssumption, NEW s \in Elements
  PROVE  /\ FromRlwe(s) \in Elements /\ FromRlwe(s) \in IntPolys /\ SignedKey(s) \in IntPolys
         /\ Cong(FromRlwe(s), SignedKey(s))
<1>1. s \in IntPolys /\ (\A i \in Idx : s[i] \in Int) /\ s \in [Idx -> 0 .. Q - 1] /\ 0 \in Idx
  BY ElementsAreIntPolys DEF IntPolys, Elements, Residue, RingAssumption, Idx
<1>2. SignedKey(s) \in IntPolys
  BY <1>1 DEF SignedKey, IntPolys
<1>3. ASSUME NEW i \in Idx
      PROVE  /\ FromRlwe(s)[i] \in 0 .. Q - 1
             /\ Same(FromRlwe(s)[i], SignedKey(s)[i], Q)
  <2>1. CASE i = 0
    <3>1. FromRlwe(s)[i] = s[0] /\ SignedKey(s)[i] = s[0] /\ s[0] \in 0 .. Q - 1 /\ s[0] \in Int
      BY <1>1, <2>1 DEF FromRlwe, SignedKey
    <3>2. Same(s[0], s[0], Q)
      BY <3>1, QType, SameReflexive
    <3>3. QED
      BY <3>1, <3>2
  <2>2. CASE i # 0
    <3>1. PICK x \in Int : x = -s[i]
      BY <1>1
    <3>2. FromRlwe(s)[i] = x % Q /\ SignedKey(s)[i] = x
      BY <2>2, <3>1 DEF FromRlwe, SignedKey
    <3>3. QED
      BY <3>2, ReducedSame
  <2>3. QED
    BY <2>1, <2>2
<1>4. FromRlwe(s) \in Elements
  <2>1. FromRlwe(s) = [i \in Idx |-> FromRlwe(s)[i]]
    BY DEF FromRlwe
  <2>2. QED
    BY <1>3, <2>1 DEF Elements, Residue
<1>5. QED
  BY <1>2, <1>3, <1>4, ElementsAreIntPolys DEF Cong

\* sample_extract_coeff0: the reversal of the mask.
Turned(a) == [i \in Idx |-> a[(N - i) % N]]

\* sample_extract_coeff0 reads the mask backwards, and does so twice to no effect.
LEMMA TurnedPlaces ==
  ASSUME RingAssumption, NEW a \in IntPolys
  PROVE  /\ Turned(a) \in IntPolys
         /\ \A i \in Idx : /\ (N - i) % N \in Idx /\ (N - ((N - i) % N)) % N = i
                           /\ Turned(a)[i] = a[(N - i) % N]
<1>1. PICK n \in Nat \ {0} : n = N
  BY DEF RingAssumption
<1>2. Idx = 0 .. n - 1 /\ 0 \in Idx /\ \A i \in Idx : i \in Int
  BY <1>1 DEF Idx
<1>3. ASSUME NEW i \in Idx
      PROVE  (n - i) % n \in Idx /\ (n - ((n - i) % n)) % n = i
  <2>0. n % n = 0
    <3>1. n = n * 1 + 0 /\ 0 \in 0 .. n - 1 /\ 1 \in Int /\ n \in Int
      OBVIOUS
    <3>2. QED
      BY ONLY <3>1, n \in Nat \ {0}, DivModUnique
  <2>1. CASE i = 0
    <3>1. n - i = n /\ n - 0 = n
      BY <2>1
    <3>2. QED
      BY <1>2, <2>0, <2>1, <3>1
  <2>2. CASE i # 0
    <3>1. PICK j \in Int : j = n - i /\ j \in 0 .. n - 1 /\ n - j = i
      BY <1>2, <2>2
    <3>2. j = n * 0 + j /\ i = n * 0 + i /\ i \in 0 .. n - 1 /\ 0 \in Int /\ i \in Int
      BY <1>2
    <3>3. j % n = j
      BY ONLY <3>1, <3>2, j \in Int, n \in Nat \ {0}, DivModUnique
    <3>4. i % n = i
      BY ONLY <3>2, n \in Nat \ {0}, DivModUnique
    <3>5. QED
      BY <1>2, <3>1, <3>3, <3>4
  <2>3. QED
    BY <2>1, <2>2
<1>4. ASSUME NEW i \in Idx
      PROVE  a[(N - i) % N] \in Int
  BY <1>1, <1>3 DEF IntPolys
<1>5. QED
  BY <1>1, <1>3, <1>4 DEF Turned, IntPolys

\* The inner product of the extracted vectors is coefficient 0 of the product.
LEMMA ExtractedInner ==
  ASSUME RingAssumption, NEW a \in IntPolys, NEW s \in IntPolys
  PROVE  SumTo(Terms2(Turned(a), SignedKey(s)), N) = Mul(a, s)[0]
<1>1. PICK n \in Nat \ {0} : n = N /\ Idx = 0 .. n - 1 /\ 0 \in Idx
  BY DEF RingAssumption, Idx
<1>2. PICK f : f = [j \in Idx |-> a[j] * Around(s, 0 - j)]
  OBVIOUS
<1>3. Terms(f, n) /\ Mul(a, s)[0] = SumTo(f, n)
  <2>1. 0 \in Int
    OBVIOUS
  <2>2. Terms([j \in Idx |-> a[j] * Around(s, 0 - j)], N)
    BY <2>1, MulType
  <2>3. Mul(a, s)[0] = SumTo([j \in Idx |-> a[j] * Around(s, 0 - j)], N)
    BY <1>1, Zenon DEF Mul
  <2>4. QED
    BY <1>1, <1>2, <2>2, <2>3
<1>4. PICK g : g = Terms2(Turned(a), SignedKey(s))
  OBVIOUS
<1>5. PICK p : p = [i \in Idx |-> (n - i) % n]
  OBVIOUS
<1>6. ASSUME NEW i \in Idx
      PROVE  p[i] \in Idx /\ p[p[i]] = i /\ Turned(a)[i] = a[p[i]]
  <2>1. (n - i) % n \in Idx /\ (n - ((n - i) % n)) % n = i /\ Turned(a)[i] = a[(n - i) % n]
    BY <1>1, TurnedPlaces
  <2>2. p[i] = (n - i) % n
    BY <1>5
  <2>3. p[p[i]] = (n - p[i]) % n
    BY <1>5, <2>1, <2>2
  <2>4. QED
    BY <2>1, <2>2, <2>3
<1>7. ASSUME NEW i \in Idx
      PROVE  g[i] = f[p[i]]
  <2>1. PICK j \in Idx : j = p[i] /\ p[j] = i
    BY <1>6
  <2>2. SignedKey(s)[i] = Around(s, 0 - j)
    <3>1. CASE i = 0
      <4>1. j = 0
        <5>1. p[0] = n % n /\ n % n = 0
          <6>1. n = n * 1 + 0 /\ 0 \in 0 .. n - 1 /\ 1 \in Int /\ n \in Int
            OBVIOUS
          <6>2. n % n = 0
            BY ONLY <6>1, n \in Nat \ {0}, DivModUnique
          <6>3. n - 0 = n
            OBVIOUS
          <6>4. QED
            BY <1>1, <1>5, <6>2, <6>3
        <5>2. QED
          BY <2>1, <3>1, <5>1
      <4>2. 0 - 0 = 0 /\ Around(s, 0) = s[0]
        BY <1>1, AroundPlaces
      <4>3. QED
        BY <1>1, <3>1, <4>1, <4>2 DEF SignedKey
    <3>2. CASE i # 0
      <4>1. j = n - i
        <5>1. PICK k \in Int : k = n - i /\ k \in 0 .. n - 1 /\ k = n * 0 + k /\ 0 \in Int
          BY <1>1, <3>2
        <5>2. k % n = k
          BY ONLY <5>1, k \in Int, n \in Nat \ {0}, DivModUnique
        <5>3. QED
          BY <1>5, <2>1, <5>1, <5>2
      <4>2. 0 - j = i - N
        BY <1>1, <4>1
      <4>3. Around(s, i - N) = -s[i]
        BY AroundPlaces
      <4>4. QED
        BY <3>2, <4>2, <4>3 DEF SignedKey
    <3>3. QED
      BY <3>1, <3>2
  <2>3. g[i] = Turned(a)[i] * SignedKey(s)[i]
    BY <1>4 DEF Terms2
  <2>4. f[j] = a[j] * Around(s, 0 - j)
    BY <1>2
  <2>5. QED
    BY <1>6, <2>1, <2>2, <2>3, <2>4
<1>8. Reorders(p, g, f, n)
  <2>1. p = [i \in Idx |-> p[i]]
    BY <1>5
  <2>2. p \in [Idx -> Idx]
    BY <1>6, <2>1
  <2>3. \A j \in Idx : \E i \in Idx : p[i] = j
    BY <1>6
  <2>4. \A i, j \in Idx : p[i] = p[j] => i = j
    BY <1>6
  <2>5. \A i \in Idx : g[i] = f[p[i]]
    BY <1>7
  <2>6. QED
    BY <1>1, <2>2, <2>3, <2>4, <2>5, Zenon DEF Reorders
<1>9. SumTo(g, n) = SumTo(f, n)
  BY ONLY <1>3, <1>8, n \in Nat \ {0}, SumPermuted
<1>10. QED
  BY <1>1, <1>3, <1>4, <1>9

\* sample_extract_coeff0 with from_rlwe: coefficient 0 with its error.
LEMMA ExtractHolds ==
  ASSUME RingAssumption, GadgetAssumption, NEW s \in Elements, NEW c, NEW m, NEW B, Holds(c, s, m, B)
  PROVE  LweHolds(SampleExtract(c), FromRlwe(s), m[0], B)
<1>1. s \in IntPolys /\ FromRlwe(s) \in IntPolys /\ SignedKey(s) \in IntPolys /\ 0 \in Idx /\ N \in Nat
  BY ElementsAreIntPolys, FromRlweReads DEF RingAssumption, Idx
<1>2. /\ m \in PlainElements /\ B \in Nat /\ By(Delta, m) \in IntPolys /\ m \in IntPolys /\ Delta \in Int
      /\ Carries(c, s, By(Delta, m), B) /\ c.a \in IntPolys /\ c.b \in IntPolys
  BY <1>1, HoldsFacts
<1>3. PICK q \in Int : q = Q
  BY QType
<1>4. PICK p : p = SampleExtract(c)
  OBVIOUS
<1>5. p.a = Turned(c.a) /\ p.b = c.b[0] /\ p.a \in IntPolys /\ p.b \in Int
  <2>1. p.a = Turned(c.a) /\ p.b = c.b[0]
    BY <1>4 DEF SampleExtract, Pair, Turned
  <2>2. QED
    BY <1>1, <1>2, <2>1, TurnedPlaces DEF IntPolys
<1>6. PICK k \in IntPolys : FromRlwe(s) = Mix(SignedKey(s), Q, k)
  BY <1>1, FromRlweReads, CongPicks
<1>7. PICK f, g, h : /\ f = Terms2(p.a, SignedKey(s)) /\ g = Terms2(p.a, k)
                     /\ h = Terms2(p.a, FromRlwe(s))
  OBVIOUS
<1>8. Terms(f, N) /\ Terms(g, N) /\ SumTo(g, N) \in Int
  BY <1>1, <1>5, <1>7, InnerTerms
<1>9. Combines(h, f, q, g, N)
  <2>1. ASSUME NEW i \in Idx
        PROVE  h[i] = f[i] + q * g[i]
    <3>1. PICK u \in Int, v \in Int, w \in Int : u = SignedKey(s)[i] /\ v = k[i] /\ w = p.a[i]
      BY <1>1, <1>5 DEF IntPolys
    <3>2. w * (u + q * v) = w * u + q * (w * v)
      OBVIOUS
    <3>3. FromRlwe(s)[i] = u + q * v
      BY <1>3, <1>6, <3>1 DEF Mix
    <3>4. QED
      BY <1>7, <3>1, <3>2, <3>3 DEF Terms2
  <2>2. QED
    BY <2>1 DEF Combines, Idx
<1>10. SumTo(h, N) = SumTo(f, N) + q * SumTo(g, N)
  BY ONLY <1>1, <1>8, <1>9, q \in Int, SumMixed
<1>11. SumTo(f, N) = Mul(c.a, s)[0] /\ Mul(c.a, s)[0] \in Int
  <2>1. SumTo(f, N) = Mul(c.a, s)[0]
    BY <1>1, <1>2, <1>5, <1>7, ExtractedInner
  <2>2. Mul(c.a, s) \in IntPolys
    BY <1>1, <1>2, MulType
  <2>3. QED
    BY <1>1, <2>1, <2>2 DEF IntPolys
<1>12. PICK e \in IntPolys : Within(e, B) /\ Cong(Open(c, s), Mix(By(Delta, m), 1, e))
  BY <1>2 DEF Carries, Near
<1>13. PICK x \in Int : x = e[0] /\ -B <= x /\ x <= B
  BY <1>1, <1>12 DEF Within, IntPolys
<1>14. PICK y \in Int, b \in Int, z \in Int, l \in Int, n \in Int :
         /\ y = Mul(c.a, s)[0] /\ b = p.b /\ z = Delta * m[0] /\ l = SumTo(g, N) /\ n = m[0]
  <2>1. m[0] \in Int
    BY <1>1, <1>2 DEF IntPolys
  <2>2. Delta * m[0] \in Int
    BY <1>2, <2>1
  <2>3. QED
    BY <1>5, <1>8, <1>11, <2>1, <2>2
<1>15. PICK j \in Int : y + b = (z + x) + q * j
  <2>1. Same(Open(c, s)[0], Mix(By(Delta, m), 1, e)[0], Q)
    BY <1>1, <1>12 DEF Cong
  <2>2. Open(c, s)[0] = y + 1 * b
    BY <1>1, <1>5, <1>14 DEF Open, Mix
  <2>3. By(Delta, m)[0] = z
    <3>1. By(Delta, m)[0] = Delta * m[0]
      BY <1>1, <1>2, ByType
    <3>2. QED
      BY <1>14, <3>1
  <2>4. Mix(By(Delta, m), 1, e)[0] = z + 1 * x
    BY <1>1, <1>13, <2>3 DEF Mix
  <2>5. y + 1 * b = y + b /\ z + 1 * x = z + x
    OBVIOUS
  <2>6. QED
    BY <1>3, <2>1, <2>2, <2>4, <2>5 DEF Same
<1>16. LweOpen(p, FromRlwe(s)) = b + (y + q * l)
  BY <1>7, <1>10, <1>11, <1>14 DEF LweOpen
<1>17. b + (y + q * l) = (z + x) + q * (j + l) /\ j + l \in Int
  <2>1. q * (j + l) = q * j + q * l
    OBVIOUS
  <2>2. PICK r1 \in Int, r2 \in Int : r1 = q * j /\ r2 = q * l
    OBVIOUS
  <2>3. QED
    BY <1>15, <2>1, <2>2
<1>18. Same(LweOpen(p, FromRlwe(s)), Delta * m[0] + x, Q)
  BY <1>3, <1>14, <1>16, <1>17 DEF Same
<1>19. m[0] \in 0 .. P - 1
  BY <1>1, <1>2 DEF PlainElements
<1>20. QED
  BY <1>2, <1>4, <1>5, <1>13, <1>18, <1>19 DEF LweHolds, LweCarries

\* No error is larger than a bound that all are within.
LEMMA SizeBounded ==
  ASSUME RingAssumption, NEW v \in 0 .. Q - 1, NEW e \in Int, NEW B \in Nat, -B <= e, e <= B,
         Same(v, e, Q)
  PROVE  Size(v) <= B /\ Size(v) \in Nat
<1>1. PICK q \in Nat \ {0} : q = Q
  BY QType
<1>2. PICK k \in Int : v = e + q * k /\ v \in Int /\ 0 <= v /\ v < q
  BY <1>1 DEF Same
<1>3. PICK h \in Int : h = q \div 2 /\ 2 * h <= q /\ q <= 2 * h + 1
  BY <1>1
<1>4. Size(v) = IF v <= h THEN v ELSE q - v
  BY <1>1, <1>3 DEF Size
<1>5. CASE k = 0
  <2>1. v = e
    BY <1>2, <1>5
  <2>2. QED
    BY <1>2, <1>3, <1>4, <2>1
<1>6. CASE k >= 1
  <2>1. q * k >= q
    BY <1>6
  <2>2. PICK r \in Int : r = q * k
    OBVIOUS
  <2>3. e <= v - q
    BY <1>2, <2>1, <2>2
  <2>4. q - v <= B
    BY <1>2, <2>3
  <2>5. QED
    BY <1>2, <1>3, <1>4, <2>4
<1>7. CASE k <= -1
  <2>1. q * k <= -q
    BY <1>7
  <2>2. PICK r \in Int : r = q * k
    OBVIOUS
  <2>3. e >= v + q
    BY <1>2, <2>1, <2>2
  <2>4. v <= B /\ q - v <= B
    BY <1>2, <2>3
  <2>5. QED
    BY <1>2, <1>3, <1>4, <2>4
<1>8. QED
  BY <1>5, <1>6, <1>7

\* A function on an initial segment has a largest value.
LEMMA LargestExists ==
  ASSUME NEW n \in Nat \ {0}, NEW f, \A i \in 0 .. n - 1 : f[i] \in Int
  PROVE  \E j \in 0 .. n - 1 : \A i \in 0 .. n - 1 : f[i] <= f[j]
<1> DEFINE T == {m \in 0 .. n : m = 0 \/ \E j \in 0 .. m - 1 : \A i \in 0 .. m - 1 : f[i] <= f[j]}
<1>1. 0 \in T
  OBVIOUS
<1>2. ASSUME NEW m \in 0 .. n, m # n, m \in T
      PROVE  m + 1 \in T
  <2>1. CASE m = 0
    <3>1. f[0] <= f[0]
      OBVIOUS
    <3>2. QED
      BY <2>1, <3>1
  <2>2. CASE m # 0
    <3>1. PICK j \in 0 .. m - 1 : \A i \in 0 .. m - 1 : f[i] <= f[j]
      BY <1>2, <2>2
    <3>2. f[j] \in Int /\ f[m] \in Int /\ j \in 0 .. n - 1 /\ m \in 0 .. n - 1
      BY <1>2
    <3>3. CASE f[m] <= f[j]
      <4>1. \A i \in 0 .. (m + 1) - 1 : f[i] <= f[j]
        BY <3>1, <3>3
      <4>2. QED
        BY <1>2, <4>1
    <3>4. CASE f[j] <= f[m]
      <4>1. \A i \in 0 .. (m + 1) - 1 : f[i] <= f[m]
        <5>1. ASSUME NEW i \in 0 .. m - 1
              PROVE  f[i] <= f[m]
          <6>1. f[i] \in Int /\ f[i] <= f[j]
            BY <3>1
          <6>2. QED
            BY <3>2, <3>4, <6>1
        <5>2. f[m] <= f[m]
          BY <3>2
        <5>3. QED
          BY <5>1, <5>2
      <4>2. QED
        BY <1>2, <4>1
    <3>5. QED
      BY <3>2, <3>3, <3>4
  <2>3. QED
    BY <2>1, <2>2
<1> HIDE DEF T
<1>3. n \in T
  BY <1>1, <1>2, Induction
<1>4. QED
  BY <1>3 DEF T

-----------------------------------------------------------------------------
(* Decryption                                                              *)

\* The phase is the scaled plaintext and an error.
LEMMA PhaseReads ==
  ASSUME RingAssumption, GadgetAssumption, NEW s \in IntPolys, NEW c, NEW m, NEW B, Holds(c, s, m, B)
  PROVE  /\ Phase(c, s) \in Elements /\ B \in Nat /\ m \in PlainElements
         /\ \A i \in Idx : \E e \in Int : /\ -B <= e /\ e <= B
                                          /\ Same(Phase(c, s)[i], Delta * m[i] + e, Q)
<1>1. /\ m \in PlainElements /\ B \in Nat /\ By(Delta, m) \in IntPolys /\ m \in IntPolys /\ Delta \in Int
      /\ Carries(c, s, By(Delta, m), B) /\ c.a \in IntPolys /\ c.b \in IntPolys
  BY HoldsFacts
<1>2. /\ Times(c.a, s) \in IntPolys /\ Cong(Times(c.a, s), Mul(c.a, s)) /\ Mul(c.a, s) \in IntPolys
      /\ 1 \in Int
  BY <1>1, TimesCong
<1>3. PICK v : v = Phase(c, s)
  OBVIOUS
<1>4. v \in Elements /\ v \in IntPolys /\ Cong(v, Mix(Times(c.a, s), 1, c.b))
  BY <1>1, <1>2, <1>3, PlusReads DEF Phase
<1>5. PICK e \in IntPolys : Within(e, B) /\ Cong(Open(c, s), Mix(By(Delta, m), 1, e))
  BY <1>1 DEF Carries, Near
<1>6. Cong(v, Mix(By(Delta, m), 1, e)) /\ Mix(By(Delta, m), 1, e) \in IntPolys
  <2>1. Cong(Mix(Times(c.a, s), 1, c.b), Open(c, s))
    <3>1. Cong(c.b, c.b)
      BY <1>1, CongReflexive
    <3>2. QED
      BY <1>1, <1>2, <3>1, MixSame DEF Open
  <2>2. /\ Mix(Times(c.a, s), 1, c.b) \in IntPolys /\ Open(c, s) \in IntPolys
        /\ Mix(By(Delta, m), 1, e) \in IntPolys
    BY <1>1, <1>2, MixType DEF Open
  <2>3. Cong(v, Open(c, s))
    BY <1>4, <2>1, <2>2, CongTransitive
  <2>4. QED
    BY <1>4, <1>5, <2>2, <2>3, CongTransitive
<1>7. ASSUME NEW i \in Idx
      PROVE  \E x \in Int : -B <= x /\ x <= B /\ Same(v[i], Delta * m[i] + x, Q)
  <2>1. PICK x \in Int : x = e[i] /\ -B <= x /\ x <= B
    BY <1>5 DEF Within, IntPolys
  <2>2. By(Delta, m)[i] = Delta * m[i]
    BY <1>1, ByType
  <2>3. Mix(By(Delta, m), 1, e)[i] = Delta * m[i] + 1 * x
    BY <2>1, <2>2 DEF Mix
  <2>4. Same(v[i], Delta * m[i] + 1 * x, Q) /\ 1 * x = x
    BY <1>6, <2>3 DEF Cong
  <2>5. QED
    BY <2>1, <2>4
<1>8. QED
  BY <1>1, <1>3, <1>4, <1>7

\* The largest error of a register is within what it holds.
LEMMA HoldsWithin ==
  ASSUME RingAssumption, GadgetAssumption, NEW s \in IntPolys, NEW c, NEW m, NEW B, Holds(c, s, m, B)
  PROVE  LargestSize(Minus(Phase(c, s), Scaled(m, Delta))) <= B
<1>1. /\ Phase(c, s) \in Elements /\ B \in Nat /\ m \in PlainElements /\ m \in IntPolys /\ Delta \in Int
      /\ Phase(c, s) \in IntPolys
  BY PhaseReads, HoldsFacts, ElementsAreIntPolys
<1>2. PICK w : w = Scaled(m, Delta)
  OBVIOUS
<1>3. w \in IntPolys /\ Cong(w, By(Delta, m)) /\ \A i \in Idx : By(Delta, m)[i] = Delta * m[i]
  BY <1>1, <1>2, ScaledReads, ByType
<1>4. PICK v : v = Minus(Phase(c, s), w)
  OBVIOUS
<1>5. v \in Elements /\ Cong(v, Mix(Phase(c, s), -1, w))
  BY <1>1, <1>3, <1>4, MinusReads
<1>6. ASSUME NEW i \in Idx
      PROVE  Size(v[i]) <= B /\ Size(v[i]) \in Nat
  <2>1. PICK e \in Int : -B <= e /\ e <= B /\ Same(Phase(c, s)[i], Delta * m[i] + e, Q)
    BY PhaseReads
  <2>2. PICK q \in Nat, x \in Int, y \in Int, z \in Int, d \in Int :
          q = Q /\ x = Phase(c, s)[i] /\ y = w[i] /\ z = v[i] /\ d = Delta * m[i]
    <3>1. Phase(c, s)[i] \in Int /\ w[i] \in Int /\ v[i] \in Int /\ m[i] \in Int
      BY <1>1, <1>3, <1>5, ElementsAreIntPolys DEF IntPolys
    <3>2. Q \in Nat /\ Delta * m[i] \in Int
      BY <1>1, <3>1, QType
    <3>3. QED
      BY <3>1, <3>2
  <2>3. PICK k \in Int : x = (d + e) + q * k
    BY <2>1, <2>2 DEF Same
  <2>4. PICK l \in Int : y = d + q * l
    BY <1>3, <2>2 DEF Cong, Same
  <2>5. PICK j \in Int : z = (x + (-1) * y) + q * j
    <3>1. Mix(Phase(c, s), -1, w)[i] = x + (-1) * y
      BY <2>2 DEF Mix
    <3>2. QED
      BY <1>5, <2>2, <3>1 DEF Cong, Same
  <2>6. z = e + q * ((k - l) + j) /\ (k - l) + j \in Int
    <3>1. q * ((k - l) + j) = (q * k - q * l) + q * j
      OBVIOUS
    <3>2. PICK r1 \in Int, r2 \in Int, r3 \in Int : r1 = q * k /\ r2 = q * l /\ r3 = q * j
      OBVIOUS
    <3>3. QED
      BY <2>3, <2>4, <2>5, <3>1, <3>2
  <2>7. Same(z, e, Q)
    BY <2>2, <2>6 DEF Same
  <2>8. z \in 0 .. Q - 1
    BY <1>5, <2>2 DEF Elements, Residue
  <2>9. QED
    BY <1>1, <2>1, <2>2, <2>7, <2>8, SizeBounded
<1>7. PICK f : f = [i \in Idx |-> Size(v[i])]
  OBVIOUS
<1>8. PICK n \in Nat \ {0} : n = N /\ Idx = 0 .. n - 1
  BY DEF RingAssumption, Idx
<1>9. PICK j \in Idx : \A i \in Idx : f[i] <= f[j]
  <2>1. \A i \in 0 .. n - 1 : f[i] \in Int
    BY <1>6, <1>7, <1>8
  <2>2. \E j \in 0 .. n - 1 : \A i \in 0 .. n - 1 : f[i] <= f[j]
    BY ONLY <2>1, n \in Nat \ {0}, LargestExists
  <2>3. QED
    BY <1>8, <2>2
<1>10. \E m1 \in {Size(v[i]) : i \in Idx} : \A i \in Idx : Size(v[i]) <= m1
  BY <1>7, <1>9
<1>11. LargestSize(v) \in {Size(v[i]) : i \in Idx}
  BY <1>10 DEF LargestSize
<1>12. QED
  BY <1>2, <1>4, <1>6, <1>11

\* Rounding to the nearest multiple of Delta, next to the wrap.
LEMMA RoundsRight ==
  ASSUME NEW p \in Nat \ {0}, NEW de \in Nat \ {0}, NEW w \in Nat, NEW q \in Nat, q = p * de + w,
         NEW h \in Nat, 2 * h <= de, de <= 2 * h + 1,
         NEW v \in Nat, v < q, NEW m \in 0 .. p - 1, NEW e \in Int, NEW B \in Nat, -B <= e, e <= B,
         2 * (B + w) < de, NEW k \in Int, v = (de * m + e) + q * k
  PROVE  ((v + h) \div de) % p = m
<1>1. m \in Nat /\ m <= p - 1 /\ p \in Nat
  OBVIOUS
<1>2. PICK x \in Int, y \in Int, z \in Int : x = de * m /\ y = q * k /\ z = p * de
  BY <1>1
<1>3. v = (x + e) + y /\ q = z + w
  BY <1>2
<1>4. 0 <= x /\ x <= z - de
  <2>1. de * m \in Nat
    BY <1>1
  <2>2. de * m <= de * (p - 1)
    BY ONLY <1>1, de \in Nat \ {0}
  <2>3. de * (p - 1) = p * de - de
    BY <1>1
  <2>4. QED
    BY <1>2, <2>1, <2>2, <2>3
<1>5. CASE k = 0
  <2>1. y = 0
    BY <1>2, <1>5
  <2>2. PICK r \in 0 .. de - 1 : r = e + h
    <3>1. e + h \in 0 .. de - 1
      OBVIOUS
    <3>2. QED
      BY <3>1
  <2>3. v + h = de * m + r /\ m \in Int /\ v + h \in Int
    BY <1>2, <1>3, <2>1, <2>2
  <2>4. (v + h) \div de = m
    BY ONLY <2>3, de \in Nat \ {0}, r \in 0 .. de - 1, DivModUnique
  <2>5. m = p * 0 + m /\ 0 \in Int /\ m \in Int
    BY <1>1
  <2>6. m % p = m
    BY ONLY <2>5, m \in 0 .. p - 1, p \in Nat \ {0}, DivModUnique
  <2>7. QED
    BY <2>4, <2>6
<1>6. CASE k >= 1
  <2>1. y >= q
    <3>1. q * k >= q
      BY ONLY <1>6, q \in Nat, k \in Int
    <3>2. QED
      BY <1>2, <3>1
  <2>2. x < de
    BY <1>3, <2>1
  <2>3. m = 0
    <3>1. CASE m >= 1
      <4>1. de * m >= de
        BY ONLY <3>1, m \in 0 .. p - 1, p \in Nat, de \in Nat
      <4>2. QED
        BY <1>2, <2>2, <4>1
    <3>2. QED
      BY <1>1, <3>1
  <2>4. x = 0
    BY <1>2, <2>3
  <2>5. k = 1
    <3>1. CASE k >= 2
      <4>1. q * k >= q * 2 /\ q * 2 = q + q
        BY ONLY <3>1, q \in Nat, k \in Int
      <4>2. y >= q + q
        BY <1>2, <4>1
      <4>3. de <= z
        BY <1>4
      <4>4. QED
        BY <1>3, <1>4, <2>4, <4>2, <4>3
    <3>2. QED
      BY <1>6, <3>1
  <2>6. y = q
    BY <1>2, <2>5
  <2>7. PICK r \in 0 .. de - 1 : r = (w + e) + h
    <3>1. e < 0
      BY <1>3, <2>4, <2>6
    <3>2. (w + e) + h \in 0 .. de - 1
      BY <3>1
    <3>3. QED
      BY <3>2
  <2>8. v + h = de * p + r /\ p \in Int /\ v + h \in Int
    <3>1. de * p = z
      BY <1>1, <1>2
    <3>2. QED
      BY <1>1, <1>3, <2>4, <2>6, <2>7, <3>1
  <2>9. (v + h) \div de = p
    BY ONLY <2>8, de \in Nat \ {0}, r \in 0 .. de - 1, DivModUnique
  <2>10. p = p * 1 + 0 /\ 1 \in Int /\ p \in Int /\ 0 \in 0 .. p - 1
    BY <1>1
  <2>11. p % p = 0
    BY ONLY <2>10, p \in Nat \ {0}, DivModUnique
  <2>12. QED
    BY <2>3, <2>9, <2>11
<1>7. CASE k <= -1
  <2>1. q * k <= -q
    BY ONLY <1>7, q \in Nat, k \in Int
  <2>2. y <= -q
    BY <1>2, <2>1
  <2>3. v < 0
    BY <1>3, <1>4, <2>2
  <2>4. QED
    BY <2>3
<1>8. QED
  BY <1>5, <1>6, <1>7

\* decrypt of a register with room for the wrap.
LEMMA HoldsDecrypts ==
  ASSUME RingAssumption, GadgetAssumption, NEW s \in IntPolys, NEW c, NEW m, NEW B, Holds(c, s, m, B),
         2 * (B + Wrap) < Delta
  PROVE  Decrypt(c, s) = m
<1>1. Phase(c, s) \in Elements /\ B \in Nat /\ m \in PlainElements
  BY PhaseReads
<1>2. PICK p \in Nat \ {0}, de \in Nat \ {0}, w \in Nat, q \in Nat :
        p = P /\ de = Delta /\ w = Wrap /\ q = Q /\ q = p * de + w
  BY DeltaFacts, QType
<1>3. PICK h \in Nat : h = de \div 2 /\ 2 * h <= de /\ de <= 2 * h + 1
  <2>1. de \div 2 \in Nat /\ 2 * (de \div 2) <= de /\ de <= 2 * (de \div 2) + 1
    OBVIOUS
  <2>2. QED
    BY <2>1
<1>4. ASSUME NEW i \in Idx
      PROVE  ((Phase(c, s)[i] + Delta \div 2) \div Delta) % P = m[i]
  <2>1. PICK e \in Int : -B <= e /\ e <= B /\ Same(Phase(c, s)[i], Delta * m[i] + e, Q)
    BY PhaseReads
  <2>2. PICK v \in Nat : v = Phase(c, s)[i] /\ v < q
    BY <1>1, <1>2 DEF Elements, Residue
  <2>3. PICK n \in 0 .. p - 1 : n = m[i]
    BY <1>1, <1>2 DEF PlainElements
  <2>4. PICK k \in Int : v = (de * n + e) + q * k
    BY <1>2, <2>1, <2>2, <2>3 DEF Same
  <2>5. 2 * (B + w) < de
    BY <1>2
  <2>6. ((v + h) \div de) % p = n
    BY ONLY <1>1, <1>2, <1>3, <2>1, <2>2, <2>4, <2>5, p \in Nat \ {0}, de \in Nat \ {0}, w \in Nat, q \in Nat,
            h \in Nat, v \in Nat, n \in 0 .. p - 1, e \in Int, k \in Int, RoundsRight
  <2>7. QED
    BY <1>2, <1>3, <2>2, <2>3, <2>6
<1>5. m = [i \in Idx |-> m[i]]
  BY <1>1 DEF PlainElements
<1>6. QED
  BY <1>4, <1>5, Zenon DEF Decrypt

\* What round_decode reads; a phase it can be asked to read.
Decoded(p, q, h, v) == ((v * p) \div q + (IF (v * p) % q >= h THEN 1 ELSE 0)) % p
Decodable(p, de, w, q, h, v, m, e, B, k) ==
  /\ p \in Nat \ {0} /\ de \in Nat /\ w \in Nat /\ q \in Nat \ {0} /\ q = p * de + w
  /\ h \in Nat /\ 2 * h <= q
  /\ v \in Nat /\ m \in 0 .. p - 1 /\ e \in Int /\ B \in Nat /\ -B <= e /\ e <= B
  /\ B * p + (p - 1) * w < h
  /\ k \in Int /\ v = (de * m + e) + q * k

\* round_decode: the nearest of the multiples of q / p.
LEMMA DecodesRight ==
  ASSUME NEW p, NEW de, NEW w, NEW q, NEW h, NEW v, NEW m, NEW e, NEW B, NEW k,
         Decodable(p, de, w, q, h, v, m, e, B, k)
  PROVE  Decoded(p, q, h, v) = m
<1> SUFFICES ASSUME p \in Nat \ {0}, de \in Nat, w \in Nat, q \in Nat \ {0}, q = p * de + w,
                      h \in Nat, 2 * h <= q,
                      v \in Nat, m \in 0 .. p - 1, e \in Int, B \in Nat, -B <= e, e <= B,
                      B * p + (p - 1) * w < h,
                      k \in Int, v = (de * m + e) + q * k
               PROVE  ((v * p) \div q + (IF (v * p) % q >= h THEN 1 ELSE 0)) % p = m
  BY Zenon DEF Decodable, Decoded
<1>1. p \in Nat /\ m \in Nat /\ m <= p - 1 /\ p - 1 \in Nat
  OBVIOUS
<1>2. PICK x \in Int, y \in Int, t \in Int : x = p * e /\ y = w * m /\ t = x - y
  BY <1>1
<1>3. -(B * p) <= x /\ x <= B * p
  <2>1. -p <= p /\ p <= p /\ p \in Int
    BY <1>1
  <2>2. -(p * B) <= p * e /\ p * e <= p * B
    BY ONLY <2>1, -B <= e, e <= B, e \in Int, B \in Nat, SizeOfProduct
  <2>3. p * B = B * p
    BY <1>1
  <2>4. QED
    BY <1>2, <2>2, <2>3
<1>4. 0 <= y /\ y <= (p - 1) * w
  <2>1. w * m <= w * (p - 1)
    BY ONLY <1>1, w \in Nat
  <2>2. w * m \in Nat /\ w * (p - 1) = (p - 1) * w
    BY <1>1
  <2>3. QED
    BY <1>2, <2>1, <2>2
<1>5. -h < t /\ t < h
  <2>1. PICK r1 \in Int, r2 \in Int : r1 = B * p /\ r2 = (p - 1) * w
    BY <1>1
  <2>2. r1 + r2 < h /\ -r1 <= x /\ x <= r1 /\ 0 <= y /\ y <= r2
    BY <1>3, <1>4, <2>1
  <2>3. r2 >= 0 /\ r1 + r2 \in Int
    BY <2>2
  <2>4. QED
    BY <1>2, <2>2, <2>3
<1>6. PICK u \in Int, z \in Int : u = m + p * k /\ z = v * p
  BY <1>1
<1>7. z = q * u + t
  <2>1. ((de * m + e) + q * k) * p = ((p * de) * m + p * e) + q * (p * k)
    <3>1. m \in Int /\ de \in Int /\ e \in Int /\ q \in Int /\ k \in Int /\ p \in Int
      BY <1>1
    <3>2. (de * m + e + q * k) * p = p * de * m + p * e + q * k * p
      BY ONLY <3>1
    <3>3. q * (p * k) = q * k * p
      BY ONLY <3>1
    <3>4. QED
      BY ONLY <3>1, <3>2, <3>3
  <2>2. q * u = q * m + q * (p * k)
    BY <1>1, <1>6
  <2>3. q * m = (p * de) * m + w * m
    BY <1>1
  <2>4. PICK r1 \in Int, r2 \in Int : r1 = (p * de) * m /\ r2 = q * (p * k)
    BY <1>1
  <2>5. z = (r1 + x) + r2
    BY <1>2, <1>6, <2>1, <2>4
  <2>6. q * u = (r1 + y) + r2
    BY <1>2, <2>2, <2>3, <2>4
  <2>7. QED
    BY <1>2, <2>4, <2>5, <2>6
<1>8. u % p = m
  <2>1. u = p * k + m /\ m \in Int
    BY <1>1, <1>6
  <2>2. QED
    BY ONLY <2>1, u \in Int, k \in Int, m \in 0 .. p - 1, p \in Nat \ {0}, DivModUnique
<1>9. CASE t >= 0
  <2>1. PICK r \in 0 .. q - 1 : r = t
    <3>1. t \in 0 .. q - 1
      BY <1>5, <1>9
    <3>2. QED
      BY <3>1
  <2>2. z = q * u + r
    BY <1>7, <2>1
  <2>3. z % q = r /\ z \div q = u
    BY ONLY <2>2, z \in Int, u \in Int, q \in Nat \ {0}, r \in 0 .. q - 1, DivModUnique
  <2>4. ~(z % q >= h)
    BY <1>5, <2>1, <2>3
  <2>5. z \div q + (IF z % q >= h THEN 1 ELSE 0) = u
    BY <2>3, <2>4
  <2>6. QED
    BY <1>6, <1>8, <2>5
<1>10. CASE t < 0
  <2>1. PICK r \in 0 .. q - 1 : r = q + t
    <3>1. q + t \in 0 .. q - 1
      BY <1>5, <1>10
    <3>2. QED
      BY <3>1
  <2>2. z = q * (u - 1) + r /\ u - 1 \in Int
    <3>1. q * (u - 1) = q * u - q
      OBVIOUS
    <3>2. PICK r1 \in Int : r1 = q * u
      OBVIOUS
    <3>3. QED
      BY <1>7, <2>1, <3>1, <3>2
  <2>3. z % q = r /\ z \div q = u - 1
    BY ONLY <2>2, z \in Int, q \in Nat \ {0}, r \in 0 .. q - 1, DivModUnique
  <2>4. z % q >= h
    BY <1>5, <2>1, <2>3
  <2>5. z \div q + (IF z % q >= h THEN 1 ELSE 0) = u
    BY <2>3, <2>4
  <2>6. QED
    BY <1>6, <1>8, <2>5
<1>11. QED
  BY <1>9, <1>10

\* LweDecrypt gives the plaintext that is held.
LEMMA LweHoldsDecrypts ==
  ASSUME RingAssumption, GadgetAssumption, NEW s \in IntPolys, NEW c, NEW m, NEW B, LweHolds(c, s, m, B),
         B * P + (P - 1) * Wrap < Q \div 2
  PROVE  LweDecrypt(c, s) = m
<1>1. m \in 0 .. P - 1 /\ B \in Nat /\ c.a \in IntPolys /\ c.b \in Int /\ LweCarries(c, s, Delta * m, B)
  BY LweHoldsFacts
<1>2. PICK p \in Nat \ {0}, de \in Nat, w \in Nat, q \in Nat \ {0} :
        p = P /\ de = Delta /\ w = Wrap /\ q = Q /\ q = p * de + w
  BY DeltaFacts, QType
<1>3. PICK h \in Nat : h = q \div 2 /\ 2 * h <= q
  <2>1. q \div 2 \in Nat /\ 2 * (q \div 2) <= q
    OBVIOUS
  <2>2. QED
    BY <2>1
<1>4. PICK e \in Int : -B <= e /\ e <= B /\ Same(LweOpen(c, s), Delta * m + e, Q)
  BY <1>1 DEF LweCarries
<1>5. PICK v \in Nat, x \in Int : v = LwePhase(c, s) /\ x = LweOpen(c, s) /\ Same(v, x, q)
  <2>1. LweOpen(c, s) \in Int /\ LwePhase(c, s) \in 0 .. Q - 1 /\ Same(LwePhase(c, s), LweOpen(c, s), Q)
    BY <1>1, LwePhaseReads
  <2>2. QED
    BY <1>2, <2>1
<1>6. PICK y \in Int : y = de * m + e
  BY <1>1
<1>7. Same(x, y, q)
  BY <1>2, <1>4, <1>5, <1>6
<1>8. Same(v, y, q)
  <2>1. q \in Nat /\ v \in Int
    OBVIOUS
  <2>2. QED
    BY ONLY <1>5, <1>7, <2>1, x \in Int, y \in Int, SameTransitive
<1>9. PICK k \in Int : v = (de * m + e) + q * k
  BY <1>6, <1>8 DEF Same
<1>10. B * p + (p - 1) * w < h /\ m \in 0 .. p - 1
  BY <1>1, <1>2, <1>3
<1>11. Decodable(p, de, w, q, h, v, m, e, B, k)
  BY <1>1, <1>2, <1>3, <1>4, <1>9, <1>10 DEF Decodable
<1>12. RoundDecode(v) = ((v * p) \div q + (IF (v * p) % q >= h THEN 1 ELSE 0)) % p
  BY <1>2, <1>3 DEF RoundDecode
<1>13. Decoded(p, q, h, v) = m
  BY <1>11, DecodesRight
<1>14. QED
  BY <1>5, <1>12, <1>13 DEF LweDecrypt, Decoded

-----------------------------------------------------------------------------
(* The invariant                                                           *)

\* The names of the keys that a register may be under.
KeyNames == {1, 2} \cup Galois

\* The rows carry what they were made for.
KeysHold ==
  /\ secret[1] \in Elements /\ secret[2] \in Elements
  /\ \A k \in DigitIdx : Carries(matrix[ToOther][k], secret[2], By(Power(k), secret[1]), NoiseSize)
  /\ \A g \in Galois : \A k \in DigitIdx :
       Carries(matrix[g][k], secret[1], By(Power(k), ImageKey(secret[1], g)), NoiseSize)
  /\ \A k \in Rotations : RowsCarry(rgsw[k], secret[1], Monomial(k), NoiseSize)

\* A register holds its plaintext within its bound, under the key it names.
RegisterHolds(r) == under[r] \in KeyNames /\ Holds(ct[r], KeyOf(under[r]), plain[r], bound[r])

\* So do all of them.
RegistersHold ==
  /\ DOMAIN ct = Regs /\ DOMAIN under = Regs /\ DOMAIN plain = Regs /\ DOMAIN bound = Regs
  /\ \A r \in Regs : RegisterHolds(r)

\* The LWE register does, under from_rlwe of the key it names.
LweRegisterHolds ==
  /\ lwe.under \in KeyNames
  /\ LweHolds(lwe.c, FromRlwe(KeyOf(lwe.under)), lwe.plain, lwe.bound)

\* The inductive invariant: matrices and RGSW rows carry what they were made for, and
\* every register holds what its history says.
IInv == KeysHold /\ RegistersHold /\ LweRegisterHolds

\* What StepsAssumption says of the inputs of operations.
LEMMA StepFacts ==
  ASSUME RingAssumption, GadgetAssumption, StepsAssumption
  PROVE  /\ NoiseSize \in Nat /\ Seeds \in Nat \ {0}
         /\ \A g \in Galois : Invertible(g) /\ g \notin {0, 1, 2}
         /\ \A k \in Rotations : k \in 0 .. 2 * N - 1 /\ Monomial(k) \in Elements
         /\ \A m \in Messages : m \in PlainElements
         /\ \A m \in Multipliers : m \in PlainElements
         /\ \A e \in Noise : SmallError(e, NoiseSize)
         /\ \A seed \in 0 .. Seeds - 1 : Mask[seed] \in Elements
         /\ \A k \in Scalars : k \in Nat
         /\ \A e \in LweNoise : e \in Int
<1>1. N \in Nat \ {0}
  BY DEF RingAssumption
<1>2. \A g \in Galois : Invertible(g) /\ g \notin {0, 1, 2}
  <2>1. \A g \in Galois : g \in 3 .. 2 * N - 1 /\ \E h \in 1 .. 2 * N - 1 : (g * h) % (2 * N) = 1
    BY DEF StepsAssumption
  <2>2. 2 * N - 1 \in Int
    BY <1>1
  <2>3. \A g \in 3 .. 2 * N - 1 : g \in Nat /\ g \notin {0, 1, 2}
    BY <2>2
  <2>4. \A h \in 1 .. 2 * N - 1 : h \in Nat
    BY <2>2
  <2>5. QED
    BY <2>1, <2>3, <2>4 DEF Invertible
<1>3. \A k \in Rotations : k \in 0 .. 2 * N - 1 /\ Monomial(k) \in Elements
  <2>1. \A k \in Rotations : k \in 0 .. 2 * N - 1
    BY DEF StepsAssumption
  <2>2. QED
    BY <2>1, UnitFacts
<1>4. (\A m \in Messages : m \in PlainElements) /\ (\A m \in Multipliers : m \in PlainElements)
  BY PlainType DEF StepsAssumption
<1>5. \A e \in Noise : SmallError(e, NoiseSize)
  BY DEF StepsAssumption, SmallError
<1>6. \A seed \in 0 .. Seeds - 1 : Mask[seed] \in Elements
  BY DEF StepsAssumption
<1>7. QED
  BY <1>2, <1>3, <1>4, <1>5, <1>6 DEF StepsAssumption

\* Every named key is a polynomial of residues.
LEMMA KeyOfType ==
  ASSUME RingAssumption, GadgetAssumption, StepsAssumption, KeysHold, NEW u \in KeyNames
  PROVE  KeyOf(u) \in Elements /\ KeyOf(u) \in IntPolys
         /\ FromRlwe(KeyOf(u)) \in Elements /\ FromRlwe(KeyOf(u)) \in IntPolys
<1>1. KeyOf(u) \in Elements
  <2>1. CASE u = 1
    BY <2>1 DEF KeyOf, KeysHold
  <2>2. CASE u = 2
    BY <2>2 DEF KeyOf, KeysHold
  <2>3. CASE u \in Galois
    <3>1. Invertible(u) /\ u \notin {1, 2}
      BY <2>3, StepFacts
    <3>2. PICK s \in Elements : s = secret[1]
      BY DEF KeysHold
    <3>3. Automorphism(s, u) \in Elements
      BY <3>1, AutomorphismReads
    <3>4. QED
      BY <3>1, <3>2, <3>3 DEF KeyOf, ImageKey
  <2>4. QED
    BY <2>1, <2>2, <2>3 DEF KeyNames
<1>2. KeyOf(u) \in IntPolys
  BY <1>1, ElementsAreIntPolys
<1>3. PICK s \in Elements : s = KeyOf(u)
  BY <1>1
<1>4. FromRlwe(s) \in Elements /\ FromRlwe(s) \in IntPolys
  BY FromRlweReads
<1>5. QED
  BY <1>1, <1>2, <1>3, <1>4

\* The keys do not change.
LEMMA KeysStay ==
  ASSUME UNCHANGED keys
  PROVE  (KeysHold <=> KeysHold') /\ \A u : KeyOf(u)' = KeyOf(u)
BY DEF keys, KeysHold, KeyOf

\* What Leave leaves.
LEMMA LeaveKeeps ==
  ASSUME IInv, NEW r \in Regs, NEW c, NEW u \in KeyNames, NEW m, NEW b, Holds(c, KeyOf(u), m, b),
         Leave(r, c, u, m, b)
  PROVE  IInv'
<1>1. /\ ct' = [ct EXCEPT ![r] = c] /\ under' = [under EXCEPT ![r] = u]
      /\ plain' = [plain EXCEPT ![r] = m] /\ bound' = [bound EXCEPT ![r] = b]
      /\ UNCHANGED keys /\ lwe' = lwe
  BY DEF Leave
<1>2. KeysHold' /\ \A v : KeyOf(v)' = KeyOf(v)
  BY <1>1, KeysStay DEF IInv
<1>3. RegistersHold'
  <2>1. /\ DOMAIN ct = Regs /\ DOMAIN under = Regs /\ DOMAIN plain = Regs /\ DOMAIN bound = Regs
        /\ \A x \in Regs : under[x] \in KeyNames /\ Holds(ct[x], KeyOf(under[x]), plain[x], bound[x])
    BY DEF IInv, RegistersHold, RegisterHolds
  <2>2. DOMAIN ct' = Regs /\ DOMAIN under' = Regs /\ DOMAIN plain' = Regs /\ DOMAIN bound' = Regs
    BY <1>1, <2>1
  <2>3. ASSUME NEW x \in Regs
        PROVE  under'[x] \in KeyNames /\ Holds(ct'[x], KeyOf(under[x])', plain'[x], bound'[x])
    <3>1. CASE x = r
      <4>1. ct'[x] = c /\ under'[x] = u /\ plain'[x] = m /\ bound'[x] = b
        BY <1>1, <2>1, <3>1
      <4>2. KeyOf(under[x])' = KeyOf(u)
        BY <1>1, <4>1 DEF KeyOf, keys
      <4>3. QED
        BY <4>1, <4>2
    <3>2. CASE x # r
      <4>1. ct'[x] = ct[x] /\ under'[x] = under[x] /\ plain'[x] = plain[x] /\ bound'[x] = bound[x]
        BY <1>1, <2>1, <3>2
      <4>2. KeyOf(under[x])' = KeyOf(under[x])
        BY <1>1, <4>1 DEF KeyOf, keys
      <4>3. QED
        BY <2>1, <4>1, <4>2
    <3>3. QED
      BY <3>1, <3>2
  <2>4. QED
    BY <2>2, <2>3 DEF RegistersHold, RegisterHolds
<1>4. LweRegisterHolds'
  BY <1>1, <1>2 DEF IInv, LweRegisterHolds
<1>5. QED
  BY <1>2, <1>3, <1>4 DEF IInv

\* An operation that leaves the LWE register with what holds keeps the invariant.
LEMMA LeaveLweKeeps ==
  ASSUME IInv, NEW c, NEW u \in KeyNames, NEW m, NEW b,
         LweHolds(c, FromRlwe(KeyOf(u)), m % P, b), LeaveLwe(c, u, m, b)
  PROVE  IInv'
<1>1. /\ lwe' = [c |-> c, under |-> u, plain |-> m % P, bound |-> b]
      /\ UNCHANGED keys /\ ct' = ct /\ under' = under /\ plain' = plain /\ bound' = bound
  BY DEF LeaveLwe
<1>2. KeysHold' /\ \A v : KeyOf(v)' = KeyOf(v)
  BY <1>1, KeysStay DEF IInv
<1>3. RegistersHold'
  BY <1>1 DEF IInv, RegistersHold, RegisterHolds, KeyOf, keys
<1>4. LweRegisterHolds'
  <2>1. lwe'.c = c /\ lwe'.under = u /\ lwe'.plain = m % P /\ lwe'.bound = b
    BY <1>1
  <2>2. KeyOf(lwe.under)' = KeyOf(u)
    BY <1>1, <2>1 DEF KeyOf, keys
  <2>3. QED
    BY <2>1, <2>2 DEF LweRegisterHolds
<1>5. QED
  BY <1>2, <1>3, <1>4 DEF IInv

\* The noise of a product with rows, as the lemmas on the gadget have it.
LEMMA NoiseReads ==
  ASSUME RingAssumption, GadgetAssumption, StepsAssumption
  PROVE  Digits * (N * (Base - 1) * NoiseSize) = SwitchNoise /\ SwitchNoise \in Int
<1>1. N \in Nat /\ Digits \in Nat /\ Base \in Nat /\ Base - 1 \in Int /\ NoiseSize \in Nat
  BY StepFacts DEF RingAssumption, GadgetAssumption
<1>2. PICK n \in Int, d \in Int, b \in Int, e \in Int : n = N /\ d = Digits /\ b = Base - 1 /\ e = NoiseSize
  BY <1>1
<1>3. d * (n * b * e) = d * n * b * e /\ d * n * b * e \in Int
  OBVIOUS
<1>4. QED
  BY <1>2, <1>3 DEF SwitchNoise

\* The masks and errors of every row.
LEMMA RowDraws ==
  ASSUME RingAssumption, GadgetAssumption, StepsAssumption, NEW seed \in 0 .. Seeds - 1, NEW e \in Noise
  PROVE  /\ \A i \in 0 .. 2 * Digits - 1 : /\ RowMasks(seed)[i] \in Elements
                                          /\ SmallError(RowErrors(e)[i], NoiseSize)
                                          /\ Mask[RowSeeds(seed)[i]] \in Elements
         /\ \A i \in DigitIdx : /\ RowMasks(seed)[i] \in Elements
                                /\ SmallError(RowErrors(e)[i], NoiseSize)
<1>1. Seeds \in Nat \ {0} /\ SmallError(e, NoiseSize) /\ \A x \in 0 .. Seeds - 1 : Mask[x] \in Elements
  BY StepFacts
<1>2. ASSUME NEW i \in 0 .. 2 * Digits - 1
      PROVE  /\ RowMasks(seed)[i] \in Elements /\ SmallError(RowErrors(e)[i], NoiseSize)
             /\ Mask[RowSeeds(seed)[i]] \in Elements
  <2>1. seed + i \in Int
    BY <1>1
  <2>2. (seed + i) % Seeds \in 0 .. Seeds - 1
    BY <1>1, <2>1, DivMod
  <2>3. QED
    BY <1>1, <2>2 DEF RowMasks, RowErrors, RowSeeds
<1>3. \A i \in DigitIdx : i \in 0 .. 2 * Digits - 1
  BY RowIndexes
<1>4. QED
  BY <1>2, <1>3

\* Initial states satisfy the invariant.
LEMMA InitHolds ==
  ASSUME RingAssumption, GadgetAssumption, StepsAssumption, Init
  PROVE  IInv
<1>1. secret[1] \in Elements /\ secret[2] \in Elements
  BY DEF Init, StepsAssumption
<1>2. PICK a \in Elements, b \in Elements : a = secret[1] /\ b = secret[2]
  BY <1>1
<1>3. PICK seed \in 0 .. Seeds - 1, e \in Noise, seeded \in BOOLEAN :
        /\ matrix = [g \in Galois \cup {ToOther} |->
             IF g = ToOther THEN KsMatrix(secret[1], secret[2], RowMasks(seed), RowErrors(e))
             ELSE AutomorphismKs(secret[1], g, RowMasks(seed), RowErrors(e))]
        /\ rgsw = [k \in Rotations |->
             IF seeded
             THEN Expanded(SeededRgsw(secret[1], Monomial(k), RowSeeds(seed), Mask, RowErrors(e)), Mask)
             ELSE RgswRows(secret[1], Monomial(k), RowMasks(seed), RowErrors(e))]
  BY DEF Init
<1>4. NoiseSize \in Int
  BY StepFacts
<1>5. ASSUME NEW k \in DigitIdx
      PROVE  Carries(matrix[ToOther][k], secret[2], By(Power(k), secret[1]), NoiseSize)
  <2>1. matrix[ToOther] = KsMatrix(a, b, RowMasks(seed), RowErrors(e))
    BY <1>2, <1>3 DEF ToOther
  <2>2. Carries(KsMatrix(a, b, RowMasks(seed), RowErrors(e))[k], b, By(Power(k), a), NoiseSize)
    BY <1>4, RowDraws, KsMatrixCarries
  <2>3. QED
    BY <1>2, <2>1, <2>2
<1>6. ASSUME NEW g \in Galois, NEW k \in DigitIdx
      PROVE  Carries(matrix[g][k], secret[1], By(Power(k), ImageKey(secret[1], g)), NoiseSize)
  <2>1. g # ToOther /\ Invertible(g)
    BY StepFacts DEF ToOther
  <2>2. PICK d \in Elements : d = ImageKey(a, g)
    BY <2>1, AutomorphismReads DEF ImageKey
  <2>3. matrix[g] = KsMatrix(d, a, RowMasks(seed), RowErrors(e))
    BY <1>2, <1>3, <2>1, <2>2 DEF AutomorphismKs
  <2>4. Carries(KsMatrix(d, a, RowMasks(seed), RowErrors(e))[k], a, By(Power(k), d), NoiseSize)
    BY <1>4, RowDraws, KsMatrixCarries
  <2>5. QED
    BY <1>2, <2>2, <2>3, <2>4
<1>7. ASSUME NEW k \in Rotations
      PROVE  RowsCarry(rgsw[k], secret[1], Monomial(k), NoiseSize)
  <2>1. PICK m \in Elements : m = Monomial(k)
    BY StepFacts
  <2>2. RowsCarry(Expanded(SeededRgsw(a, m, RowSeeds(seed), Mask, RowErrors(e)), Mask), a, m, NoiseSize)
    BY <1>4, RowDraws, SeededRowsCarry
  <2>3. RowsCarry(RgswRows(a, m, RowMasks(seed), RowErrors(e)), a, m, NoiseSize)
    BY <1>4, RowDraws, RgswRowsCarry
  <2>4. QED
    BY <1>2, <1>3, <2>1, <2>2, <2>3
<1>8. KeysHold
  BY <1>1, <1>5, <1>6, <1>7 DEF KeysHold
<1>9. KeyOf(1) = a /\ 1 \in KeyNames
  BY <1>2 DEF KeyOf, KeyNames
<1>10. RegistersHold
  <2>1. /\ ct = [r \in Regs |-> Trivial(Zero)] /\ under = [r \in Regs |-> 1]
        /\ plain = [r \in Regs |-> Zero] /\ bound = [r \in Regs |-> 0]
    BY DEF Init
  <2>2. Holds(Trivial(Zero), a, Zero, 0)
    <3>1. PICK z \in PlainElements : z = Zero
      <4>1. 0 \in 0 .. P - 1
        BY DeltaFacts
      <4>2. Zero \in PlainElements
        BY <4>1 DEF Zero, PlainElements
      <4>3. QED
        BY <4>2
    <3>2. SmallError(Zero, 0) /\ Zero \in Elements
      BY CarriesZero, QType DEF SmallError, Size, Zero, Elements, Residue
    <3>3. Holds(Trivial(z), a, z, 0)
      BY <3>2, HoldsEncrypted
    <3>4. QED
      BY <3>1, <3>3
  <2>3. ASSUME NEW r \in Regs
        PROVE  RegisterHolds(r)
    <3>1. ct[r] = Trivial(Zero) /\ under[r] = 1 /\ plain[r] = Zero /\ bound[r] = 0
      BY <2>1
    <3>2. QED
      BY <1>9, <2>2, <3>1 DEF RegisterHolds
  <2>4. QED
    BY <2>1, <2>3 DEF RegistersHold
<1>11. LweRegisterHolds
  <2>1. lwe = [c |-> Pair(Zero, 0), under |-> 1, plain |-> 0, bound |-> 0]
    BY DEF Init
  <2>2. LweHolds(Pair(Zero, 0), FromRlwe(a), 0, 0)
    BY FromRlweReads, LweNothing
  <2>3. lwe.c = Pair(Zero, 0) /\ lwe.under = 1 /\ lwe.plain = 0 /\ lwe.bound = 0
    BY <2>1
  <2>4. QED
    BY <1>9, <2>2, <2>3 DEF LweRegisterHolds
<1>12. QED
  BY <1>8, <1>10, <1>11 DEF IInv

-----------------------------------------------------------------------------
(* Each step leaves a register that holds                                  *)

\* What the invariant says of a register.
LEMMA RegisterReads ==
  ASSUME RingAssumption, GadgetAssumption, StepsAssumption, IInv, NEW r \in Regs
  PROVE  \E s \in Elements, u \in KeyNames :
           /\ s = KeyOf(u) /\ u = under[r] /\ s \in IntPolys /\ Holds(ct[r], s, plain[r], bound[r])
           /\ KeysHold /\ NoiseSize \in Nat
<1>1. KeysHold /\ under[r] \in KeyNames /\ Holds(ct[r], KeyOf(under[r]), plain[r], bound[r])
  BY DEF IInv, RegistersHold, RegisterHolds
<1>2. PICK u \in KeyNames : u = under[r]
  BY <1>1
<1>3. PICK s \in Elements : s = KeyOf(u) /\ s \in IntPolys
  BY <1>1, KeyOfType
<1>4. QED
  BY <1>1, <1>2, <1>3, StepFacts

\* One lemma for each operation on registers: it keeps the invariant.
LEMMA EncryptFreshKeeps ==
  ASSUME RingAssumption, GadgetAssumption, StepsAssumption, IInv,
         NEW r \in Regs, EncryptFresh(r)
  PROVE  IInv'
<1>1. PICK s \in Elements : s = KeyOf(1) /\ s = secret[1] /\ 1 \in KeyNames
  BY DEF IInv, KeysHold, KeyOf, KeyNames
<1>2. PICK m \in Messages, seed \in 0 .. Seeds - 1, e \in Noise :
        Leave(r, Encrypt(secret[1], m, Mask[seed], e), 1, m, NoiseSize)
  BY DEF EncryptFresh
<1>3. NoiseSize \in Nat /\ m \in PlainElements /\ SmallError(e, NoiseSize) /\ Mask[seed] \in Elements
  BY StepFacts
<1>4. PICK d : d = Encrypt(secret[1], m, Mask[seed], e)
  OBVIOUS
<1>5. Holds(d, KeyOf(1), m, NoiseSize)
  BY <1>1, <1>3, <1>4, HoldsEncrypted
<1>6. Leave(r, d, 1, m, NoiseSize)
  BY <1>2, <1>4
<1>7. QED
  BY <1>1, <1>5, <1>6, LeaveKeeps

LEMMA EncryptTrivialKeeps ==
  ASSUME RingAssumption, GadgetAssumption, StepsAssumption, IInv,
         NEW r \in Regs, EncryptTrivial(r)
  PROVE  IInv'
<1>1. PICK s \in Elements : s = KeyOf(1) /\ s = secret[1] /\ 1 \in KeyNames
  BY DEF IInv, KeysHold, KeyOf, KeyNames
<1>2. PICK m \in Messages : Leave(r, Trivial(m), 1, m, 0)
  BY DEF EncryptTrivial
<1>3. m \in PlainElements
  BY StepFacts
<1>4. Zero \in Elements /\ SmallError(Zero, 0)
  BY CarriesZero, QType DEF SmallError, Size, Zero, Elements, Residue
<1>5. PICK d : d = Trivial(m)
  OBVIOUS
<1>6. Holds(d, KeyOf(1), m, 0)
  BY <1>1, <1>3, <1>4, <1>5, HoldsEncrypted
<1>7. Leave(r, d, 1, m, 0)
  BY <1>2, <1>5
<1>8. QED
  BY <1>1, <1>6, <1>7, LeaveKeeps

LEMMA AddKeeps ==
  ASSUME RingAssumption, GadgetAssumption, StepsAssumption, IInv,
         NEW r \in Regs, NEW x \in Regs, Add(r, x)
  PROVE  IInv'
<1>1. PICK s \in Elements, u \in KeyNames :
        /\ s = KeyOf(u) /\ u = under[r] /\ s \in IntPolys /\ Holds(ct[r], s, plain[r], bound[r])
        /\ KeysHold /\ NoiseSize \in Nat
  BY RegisterReads
<1>2. PICK c, m, B : /\ c = ct[r] /\ m = plain[r] /\ B = bound[r]
                     /\ s = KeyOf(u) /\ u = under[r]
  BY <1>1
<1>3. s \in IntPolys /\ Holds(c, s, m, B) /\ NoiseSize \in Nat
  BY <1>1, <1>2
<1>4. under[x] = u /\ Holds(ct[x], s, plain[x], bound[x])
  BY <1>2 DEF IInv, RegistersHold, RegisterHolds, Add
<1>5. PICK d, n, C : d = ct[x] /\ n = plain[x] /\ C = bound[x]
  OBVIOUS
<1>6. PICK p, q, b : p = CtPlus(c, d) /\ q = Plain!Plus(m, n) /\ b = B + C + Wrap
  OBVIOUS
<1>7. Holds(p, s, q, b)
  BY <1>3, <1>4, <1>5, <1>6, HoldsPlus
<1>8. Leave(r, p, u, q, b)
  BY <1>2, <1>5, <1>6 DEF Add
<1>9. QED
  BY <1>2, <1>7, <1>8, LeaveKeeps

LEMMA SubtractKeeps ==
  ASSUME RingAssumption, GadgetAssumption, StepsAssumption, IInv,
         NEW r \in Regs, NEW x \in Regs, Subtract(r, x)
  PROVE  IInv'
<1>1. PICK s \in Elements, u \in KeyNames :
        /\ s = KeyOf(u) /\ u = under[r] /\ s \in IntPolys /\ Holds(ct[r], s, plain[r], bound[r])
        /\ KeysHold /\ NoiseSize \in Nat
  BY RegisterReads
<1>2. PICK c, m, B : /\ c = ct[r] /\ m = plain[r] /\ B = bound[r]
                     /\ s = KeyOf(u) /\ u = under[r]
  BY <1>1
<1>3. s \in IntPolys /\ Holds(c, s, m, B) /\ NoiseSize \in Nat
  BY <1>1, <1>2
<1>4. under[x] = u /\ Holds(ct[x], s, plain[x], bound[x])
  BY <1>2 DEF IInv, RegistersHold, RegisterHolds, Subtract
<1>5. PICK d, n, C : d = ct[x] /\ n = plain[x] /\ C = bound[x]
  OBVIOUS
<1>6. PICK p, q, b : p = CtMinus(c, d) /\ q = Plain!Minus(m, n) /\ b = B + C + Wrap
  OBVIOUS
<1>7. Holds(p, s, q, b)
  BY <1>3, <1>4, <1>5, <1>6, HoldsPlus
<1>8. Leave(r, p, u, q, b)
  BY <1>2, <1>5, <1>6 DEF Subtract
<1>9. QED
  BY <1>2, <1>7, <1>8, LeaveKeeps

LEMMA ScaleKeeps ==
  ASSUME RingAssumption, GadgetAssumption, StepsAssumption, IInv,
         NEW r \in Regs, Scale(r)
  PROVE  IInv'
<1>1. PICK s \in Elements, u \in KeyNames :
        /\ s = KeyOf(u) /\ u = under[r] /\ s \in IntPolys /\ Holds(ct[r], s, plain[r], bound[r])
        /\ KeysHold /\ NoiseSize \in Nat
  BY RegisterReads
<1>2. PICK c, m, B : /\ c = ct[r] /\ m = plain[r] /\ B = bound[r]
                     /\ s = KeyOf(u) /\ u = under[r]
  BY <1>1
<1>3. s \in IntPolys /\ Holds(c, s, m, B) /\ NoiseSize \in Nat
  BY <1>1, <1>2
<1>4. PICK k \in Scalars :
        Leave(r, CtScaled(ct[r], k), under[r], Plain!Scaled(plain[r], k), k * (bound[r] + Wrap))
  BY DEF Scale
<1>5. k \in Nat
  BY StepFacts
<1>6. PICK p, q, b : p = CtScaled(c, k) /\ q = Plain!Scaled(m, k) /\ b = k * (B + Wrap)
  OBVIOUS
<1>7. Holds(p, s, q, b)
  BY <1>3, <1>5, <1>6, HoldsScaled
<1>8. Leave(r, p, u, q, b)
  BY <1>2, <1>4, <1>6
<1>9. QED
  BY <1>2, <1>7, <1>8, LeaveKeeps

LEMMA MultiplyPlainKeeps ==
  ASSUME RingAssumption, GadgetAssumption, StepsAssumption, IInv,
         NEW r \in Regs, MultiplyPlain(r)
  PROVE  IInv'
<1>1. PICK s \in Elements, u \in KeyNames :
        /\ s = KeyOf(u) /\ u = under[r] /\ s \in IntPolys /\ Holds(ct[r], s, plain[r], bound[r])
        /\ KeysHold /\ NoiseSize \in Nat
  BY RegisterReads
<1>2. PICK c, m, B : /\ c = ct[r] /\ m = plain[r] /\ B = bound[r]
                     /\ s = KeyOf(u) /\ u = under[r]
  BY <1>1
<1>3. s \in IntPolys /\ Holds(c, s, m, B) /\ NoiseSize \in Nat
  BY <1>1, <1>2
<1>4. PICK t \in Multipliers :
        Leave(r, CtTimes(ct[r], t), under[r], Plain!Times(plain[r], t), SumTo(t, N) * (bound[r] + Wrap))
  BY DEF MultiplyPlain
<1>5. t \in PlainElements
  BY StepFacts
<1>6. PICK p, q, b : p = CtTimes(c, t) /\ q = Plain!Times(m, t) /\ b = SumTo(t, N) * (B + Wrap)
  OBVIOUS
<1>7. Holds(p, s, q, b)
  BY <1>3, <1>5, <1>6, HoldsTimes
<1>8. Leave(r, p, u, q, b)
  BY <1>2, <1>4, <1>6
<1>9. QED
  BY <1>2, <1>7, <1>8, LeaveKeeps

LEMMA RotateKeeps ==
  ASSUME RingAssumption, GadgetAssumption, StepsAssumption, IInv,
         NEW r \in Regs, Rotate(r)
  PROVE  IInv'
<1>1. PICK s \in Elements, u \in KeyNames :
        /\ s = KeyOf(u) /\ u = under[r] /\ s \in IntPolys /\ Holds(ct[r], s, plain[r], bound[r])
        /\ KeysHold /\ NoiseSize \in Nat
  BY RegisterReads
<1>2. PICK c, m, B : /\ c = ct[r] /\ m = plain[r] /\ B = bound[r]
                     /\ s = KeyOf(u) /\ u = under[r]
  BY <1>1
<1>3. s \in IntPolys /\ Holds(c, s, m, B) /\ NoiseSize \in Nat
  BY <1>1, <1>2
<1>4. PICK k \in Rotations :
        /\ under[r] = 1
        /\ Leave(r, ExternalProduct(ct[r], rgsw[k]), 1, Plain!Times(plain[r], Plain!Monomial(k)),
                 bound[r] + Wrap + 2 * SwitchNoise)
  BY DEF Rotate
<1>5. PICK rows : rows = rgsw[k]
  OBVIOUS
<1>6. RowsCarry(rows, s, Monomial(k), NoiseSize)
  BY <1>1, <1>2, <1>4, <1>5 DEF KeysHold, KeyOf
<1>7. k \in 0 .. 2 * N - 1
  BY StepFacts
<1>8. PICK p, q, b : /\ p = ExternalProduct(c, rows) /\ q = Plain!Times(m, Plain!Monomial(k))
                     /\ b = B + Wrap + 2 * SwitchNoise
  OBVIOUS
<1>9. Holds(p, s, q, b)
  <2>1. Holds(p, s, q, B + Wrap + 2 * (Digits * (N * (Base - 1) * NoiseSize)))
    BY <1>3, <1>6, <1>7, <1>8, HoldsRotated
  <2>2. QED
    BY <1>8, <2>1, NoiseReads
<1>10. Leave(r, p, u, q, b)
  BY <1>2, <1>4, <1>5, <1>8
<1>11. QED
  BY <1>2, <1>9, <1>10, LeaveKeeps

LEMMA ApplyAutomorphismKeeps ==
  ASSUME RingAssumption, GadgetAssumption, StepsAssumption, IInv,
         NEW r \in Regs, ApplyAutomorphism(r)
  PROVE  IInv'
<1>1. PICK s \in Elements, u \in KeyNames :
        /\ s = KeyOf(u) /\ u = under[r] /\ s \in IntPolys /\ Holds(ct[r], s, plain[r], bound[r])
        /\ KeysHold /\ NoiseSize \in Nat
  BY RegisterReads
<1>2. PICK c, m, B : /\ c = ct[r] /\ m = plain[r] /\ B = bound[r]
                     /\ s = KeyOf(u) /\ u = under[r]
  BY <1>1
<1>3. s \in IntPolys /\ Holds(c, s, m, B) /\ NoiseSize \in Nat
  BY <1>1, <1>2
<1>4. PICK g \in Galois :
        /\ under[r] = 1
        /\ Leave(r, CtAutomorphism(ct[r], g), g, Plain!Automorphism(plain[r], g), bound[r] + Wrap)
  BY DEF ApplyAutomorphism
<1>5. Invertible(g) /\ g \notin {1, 2} /\ g \in KeyNames
  BY StepFacts DEF KeyNames
<1>6. PICK p, q, b : /\ p = CtAutomorphism(c, g) /\ q = Plain!Automorphism(m, g) /\ b = B + Wrap
  OBVIOUS
<1>7. KeyOf(g) = ImageKey(s, g)
  BY <1>2, <1>4, <1>5 DEF KeyOf
<1>8. Holds(p, KeyOf(g), q, b)
  <2>1. Holds(p, ImageKey(s, g), q, b)
    BY <1>3, <1>5, <1>6, HoldsImage
  <2>2. QED
    BY <1>7, <2>1
<1>9. Leave(r, p, g, q, b)
  BY <1>2, <1>4, <1>6
<1>10. QED
  BY <1>5, <1>8, <1>9, LeaveKeeps

LEMMA SwitchBackKeeps ==
  ASSUME RingAssumption, GadgetAssumption, StepsAssumption, IInv,
         NEW r \in Regs, SwitchBack(r)
  PROVE  IInv'
<1>1. PICK s \in Elements, u \in KeyNames :
        /\ s = KeyOf(u) /\ u = under[r] /\ s \in IntPolys /\ Holds(ct[r], s, plain[r], bound[r])
        /\ KeysHold /\ NoiseSize \in Nat
  BY RegisterReads
<1>2. PICK c, m, B : /\ c = ct[r] /\ m = plain[r] /\ B = bound[r]
                     /\ s = KeyOf(u) /\ u = under[r]
  BY <1>1
<1>3. s \in IntPolys /\ Holds(c, s, m, B) /\ NoiseSize \in Nat
  BY <1>1, <1>2
<1>4. /\ under[r] \in Galois
      /\ Leave(r, KeySwitch(ct[r], matrix[under[r]]), 1, plain[r], bound[r] + SwitchNoise)
  BY DEF SwitchBack
<1>5. PICK rows : rows = matrix[u]
  OBVIOUS
<1>6. PICK t \in Elements : t = secret[1] /\ t = KeyOf(1) /\ 1 \in KeyNames
  BY <1>1 DEF KeysHold, KeyOf, KeyNames
<1>7. \A k \in DigitIdx : Carries(rows[k], t, By(Power(k), s), NoiseSize)
  <2>1. u \in Galois /\ u \notin {1, 2}
    BY <1>2, <1>4, StepFacts
  <2>2. s = ImageKey(t, u)
    BY <1>2, <1>6, <2>1 DEF KeyOf
  <2>3. QED
    BY <1>1, <1>5, <1>6, <2>1, <2>2 DEF KeysHold
<1>8. PICK p, b : p = KeySwitch(c, rows) /\ b = B + SwitchNoise
  OBVIOUS
<1>9. Holds(p, t, m, b)
  <2>1. t \in IntPolys
    BY ElementsAreIntPolys
  <2>2. Holds(p, t, m, B + Digits * (N * (Base - 1) * NoiseSize))
    BY <1>3, <1>7, <1>8, <2>1, HoldsSwitched
  <2>3. QED
    BY <1>8, <2>2, NoiseReads
<1>10. Leave(r, p, 1, m, b)
  BY <1>2, <1>4, <1>5, <1>8
<1>11. QED
  BY <1>6, <1>9, <1>10, LeaveKeeps

LEMMA SwitchOverKeeps ==
  ASSUME RingAssumption, GadgetAssumption, StepsAssumption, IInv,
         NEW r \in Regs, SwitchOver(r)
  PROVE  IInv'
<1>1. PICK s \in Elements, u \in KeyNames :
        /\ s = KeyOf(u) /\ u = under[r] /\ s \in IntPolys /\ Holds(ct[r], s, plain[r], bound[r])
        /\ KeysHold /\ NoiseSize \in Nat
  BY RegisterReads
<1>2. PICK c, m, B : /\ c = ct[r] /\ m = plain[r] /\ B = bound[r]
                     /\ s = KeyOf(u) /\ u = under[r]
  BY <1>1
<1>3. s \in IntPolys /\ Holds(c, s, m, B) /\ NoiseSize \in Nat
  BY <1>1, <1>2
<1>4. /\ under[r] = 1
      /\ Leave(r, KeySwitch(ct[r], matrix[ToOther]), 2, plain[r], bound[r] + SwitchNoise)
  BY DEF SwitchOver
<1>5. PICK rows : rows = matrix[ToOther]
  OBVIOUS
<1>6. PICK t \in Elements : t = secret[2] /\ t = KeyOf(2) /\ 2 \in KeyNames
  BY <1>1 DEF KeysHold, KeyOf, KeyNames
<1>7. \A k \in DigitIdx : Carries(rows[k], t, By(Power(k), s), NoiseSize)
  <2>1. s = secret[1]
    BY <1>2, <1>4 DEF KeyOf
  <2>2. QED
    BY <1>1, <1>5, <1>6, <2>1 DEF KeysHold
<1>8. PICK p, b : p = KeySwitch(c, rows) /\ b = B + SwitchNoise
  OBVIOUS
<1>9. Holds(p, t, m, b)
  <2>1. t \in IntPolys
    BY ElementsAreIntPolys
  <2>2. Holds(p, t, m, B + Digits * (N * (Base - 1) * NoiseSize))
    BY <1>3, <1>7, <1>8, <2>1, HoldsSwitched
  <2>3. QED
    BY <1>8, <2>2, NoiseReads
<1>10. Leave(r, p, 2, m, b)
  BY <1>2, <1>4, <1>5, <1>8
<1>11. QED
  BY <1>6, <1>9, <1>10, LeaveKeeps

\* What the invariant says of the LWE register.
LEMMA LweReads ==
  ASSUME RingAssumption, GadgetAssumption, StepsAssumption, IInv
  PROVE  \E s \in IntPolys, u \in KeyNames :
           /\ s = FromRlwe(KeyOf(u)) /\ u = lwe.under /\ LweHolds(lwe.c, s, lwe.plain, lwe.bound)
<1>1. KeysHold /\ lwe.under \in KeyNames /\ LweHolds(lwe.c, FromRlwe(KeyOf(lwe.under)), lwe.plain, lwe.bound)
  BY DEF IInv, LweRegisterHolds
<1>2. PICK u \in KeyNames : u = lwe.under
  BY <1>1
<1>3. PICK s \in IntPolys : s = FromRlwe(KeyOf(u))
  BY <1>1, KeyOfType
<1>4. QED
  BY <1>1, <1>2, <1>3

\* One lemma for each operation on the LWE register.
LEMMA EncryptLweKeeps ==
  ASSUME RingAssumption, GadgetAssumption, StepsAssumption, IInv,
         EncryptLwe
  PROVE  IInv'
<1>1. PICK t \in Elements : t = secret[1] /\ t = KeyOf(1) /\ 1 \in KeyNames
  BY DEF IInv, KeysHold, KeyOf, KeyNames
<1>2. PICK m \in 0 .. P - 1, seed \in 0 .. Seeds - 1, e \in LweNoise :
        LeaveLwe(LweEncrypt(FromRlwe(secret[1]), m, Mask[seed], e), 1, m, IF e < 0 THEN -e ELSE e)
  BY DEF EncryptLwe
<1>3. Mask[seed] \in Elements /\ e \in Int
  BY StepFacts
<1>4. PICK a \in Elements, b \in Nat : a = Mask[seed] /\ b = (IF e < 0 THEN -e ELSE e) /\ -b <= e /\ e <= b
  <2>1. /\ (IF e < 0 THEN -e ELSE e) \in Nat
        /\ -(IF e < 0 THEN -e ELSE e) <= e /\ e <= (IF e < 0 THEN -e ELSE e)
    BY <1>3
  <2>2. QED
    BY <1>3, <2>1
<1>5. PICK s \in IntPolys : s = FromRlwe(t)
  BY FromRlweReads
<1>6. PICK p : p = LweEncrypt(s, m, a, e)
  OBVIOUS
<1>7. LweHolds(p, s, m, b)
  BY <1>3, <1>4, <1>6, LweHoldsEncrypted
<1>8. m % P = m
  <2>1. P \in Nat \ {0} /\ m \in Int
    BY DeltaFacts
  <2>2. m = P * 0 + m /\ 0 \in Int
    BY <2>1
  <2>3. QED
    BY ONLY <2>1, <2>2, m \in 0 .. P - 1, DivModUnique
<1>9. LeaveLwe(p, 1, m, b) /\ LweHolds(p, FromRlwe(KeyOf(1)), m % P, b)
  BY <1>1, <1>2, <1>4, <1>5, <1>6, <1>7, <1>8
<1>10. QED
  BY <1>1, <1>9, LeaveLweKeeps

\* The plaintext of a register is already reduced.
LEMMA ExtractReads ==
  ASSUME RingAssumption, GadgetAssumption, StepsAssumption, IInv, NEW r \in Regs
  PROVE  /\ under[r] \in KeyNames
         /\ LweHolds(SampleExtract(ct[r]), FromRlwe(KeyOf(under[r])), plain[r][0], bound[r])
         /\ plain[r][0] % P = plain[r][0]
<1>1. PICK s \in Elements, u \in KeyNames :
        /\ s = KeyOf(u) /\ u = under[r] /\ s \in IntPolys /\ Holds(ct[r], s, plain[r], bound[r])
        /\ KeysHold /\ NoiseSize \in Nat
  BY RegisterReads
<1>2. PICK c, m, B : c = ct[r] /\ m = plain[r] /\ B = bound[r]
  OBVIOUS
<1>3. Holds(c, s, m, B)
  BY <1>1, <1>2
<1>4. LweHolds(SampleExtract(c), FromRlwe(s), m[0], B)
  BY <1>3, ExtractHolds
<1>5. PICK x \in 0 .. P - 1 : x = m[0]
  BY <1>4 DEF LweHolds
<1>6. x % P = x
  <2>1. P \in Nat \ {0} /\ x \in Int
    BY DeltaFacts
  <2>2. x = P * 0 + x /\ 0 \in Int
    BY <2>1
  <2>3. QED
    BY ONLY <2>1, <2>2, x \in 0 .. P - 1, DivModUnique
<1>7. QED
  BY <1>1, <1>2, <1>4, <1>5, <1>6

LEMMA ExtractKeeps ==
  ASSUME RingAssumption, GadgetAssumption, StepsAssumption, IInv,
         NEW r \in Regs, Extract(r)
  PROVE  IInv'
<1>1. /\ under[r] \in KeyNames
      /\ LweHolds(SampleExtract(ct[r]), FromRlwe(KeyOf(under[r])), plain[r][0], bound[r])
      /\ plain[r][0] % P = plain[r][0]
  BY ExtractReads
<1>2. PICK u \in KeyNames : u = under[r]
  BY <1>1
<1>3. PICK p, m, b : p = SampleExtract(ct[r]) /\ m = plain[r][0] /\ b = bound[r]
  OBVIOUS
<1>4. LweHolds(p, FromRlwe(KeyOf(u)), m % P, b)
  BY <1>1, <1>2, <1>3
<1>5. LeaveLwe(p, u, m, b)
  BY <1>2, <1>3 DEF Extract
<1>6. QED
  BY <1>4, <1>5, LeaveLweKeeps

LEMMA AddLweKeeps ==
  ASSUME RingAssumption, GadgetAssumption, StepsAssumption, IInv,
         NEW r \in Regs, AddLwe(r)
  PROVE  IInv'
<1>1. PICK s \in IntPolys, u \in KeyNames :
        /\ s = FromRlwe(KeyOf(u)) /\ u = lwe.under /\ LweHolds(lwe.c, s, lwe.plain, lwe.bound)
  BY LweReads
<1>2. under[r] = u
  BY <1>1 DEF AddLwe
<1>3. PICK c, m, B : c = lwe.c /\ m = lwe.plain /\ B = lwe.bound
  OBVIOUS
<1>4. PICK d, n, C : d = SampleExtract(ct[r]) /\ n = plain[r][0] /\ C = bound[r]
  OBVIOUS
<1>5. LweHolds(c, s, m, B) /\ LweHolds(d, s, n, C)
  BY <1>1, <1>2, <1>3, <1>4, ExtractReads
<1>6. PICK p, x, b : p = LwePlus(c, d) /\ x = m + n /\ b = B + C + Wrap
  OBVIOUS
<1>7. LweHolds(p, s, x % P, b)
  BY <1>5, <1>6, LweHoldsPlus
<1>8. LeaveLwe(p, u, x, b)
  BY <1>1, <1>3, <1>4, <1>6 DEF AddLwe
<1>9. LweHolds(p, FromRlwe(KeyOf(u)), x % P, b)
  BY <1>1, <1>7
<1>10. QED
  BY <1>8, <1>9, LeaveLweKeeps

LEMMA SubtractLweKeeps ==
  ASSUME RingAssumption, GadgetAssumption, StepsAssumption, IInv,
         NEW r \in Regs, SubtractLwe(r)
  PROVE  IInv'
<1>1. PICK s \in IntPolys, u \in KeyNames :
        /\ s = FromRlwe(KeyOf(u)) /\ u = lwe.under /\ LweHolds(lwe.c, s, lwe.plain, lwe.bound)
  BY LweReads
<1>2. under[r] = u
  BY <1>1 DEF SubtractLwe
<1>3. PICK c, m, B : c = lwe.c /\ m = lwe.plain /\ B = lwe.bound
  OBVIOUS
<1>4. PICK d, n, C : d = SampleExtract(ct[r]) /\ n = plain[r][0] /\ C = bound[r]
  OBVIOUS
<1>5. LweHolds(c, s, m, B) /\ LweHolds(d, s, n, C)
  BY <1>1, <1>2, <1>3, <1>4, ExtractReads
<1>6. PICK p, x, b : p = LweMinus(c, d) /\ x = m - n /\ b = B + C + Wrap
  OBVIOUS
<1>7. LweHolds(p, s, x % P, b)
  BY <1>5, <1>6, LweHoldsPlus
<1>8. LeaveLwe(p, u, x, b)
  BY <1>1, <1>3, <1>4, <1>6 DEF SubtractLwe
<1>9. LweHolds(p, FromRlwe(KeyOf(u)), x % P, b)
  BY <1>1, <1>7
<1>10. QED
  BY <1>8, <1>9, LeaveLweKeeps

LEMMA ScaleLweKeeps ==
  ASSUME RingAssumption, GadgetAssumption, StepsAssumption, IInv,
         ScaleLwe
  PROVE  IInv'
<1>1. PICK s \in IntPolys, u \in KeyNames :
        /\ s = FromRlwe(KeyOf(u)) /\ u = lwe.under /\ LweHolds(lwe.c, s, lwe.plain, lwe.bound)
  BY LweReads
<1>2. PICK k \in Scalars :
        LeaveLwe(LweScaled(lwe.c, k), lwe.under, lwe.plain * k, k * (lwe.bound + Wrap))
  BY DEF ScaleLwe
<1>3. k \in Nat
  BY StepFacts
<1>4. PICK c, m, B : c = lwe.c /\ m = lwe.plain /\ B = lwe.bound
  OBVIOUS
<1>5. PICK p, x, b : p = LweScaled(c, k) /\ x = m * k /\ b = k * (B + Wrap)
  OBVIOUS
<1>6. LweHolds(p, s, x % P, b)
  BY <1>1, <1>3, <1>4, <1>5, LweHoldsScaled
<1>7. LeaveLwe(p, u, x, b)
  BY <1>1, <1>2, <1>4, <1>5
<1>8. LweHolds(p, FromRlwe(KeyOf(u)), x % P, b)
  BY <1>1, <1>6
<1>9. QED
  BY <1>7, <1>8, LeaveLweKeeps

\* Every step keeps the invariant.
LEMMA StepHolds ==
  ASSUME RingAssumption, GadgetAssumption, StepsAssumption, IInv, [Next]_vars
  PROVE  IInv'
<1>1. ASSUME NEW r \in Regs,
             \/ EncryptFresh(r) \/ EncryptTrivial(r) \/ Scale(r) \/ MultiplyPlain(r) \/ Rotate(r)
             \/ ApplyAutomorphism(r) \/ SwitchBack(r) \/ SwitchOver(r)
             \/ Extract(r) \/ AddLwe(r) \/ SubtractLwe(r)
             \/ \E x \in Regs : Add(r, x) \/ Subtract(r, x)
      PROVE  IInv'
  <2>1. CASE EncryptFresh(r)
    BY <2>1, EncryptFreshKeeps
  <2>2. CASE EncryptTrivial(r)
    BY <2>2, EncryptTrivialKeeps
  <2>3. CASE Scale(r)
    BY <2>3, ScaleKeeps
  <2>4. CASE MultiplyPlain(r)
    BY <2>4, MultiplyPlainKeeps
  <2>5. CASE Rotate(r)
    BY <2>5, RotateKeeps
  <2>6. CASE ApplyAutomorphism(r)
    BY <2>6, ApplyAutomorphismKeeps
  <2>7. CASE SwitchBack(r)
    BY <2>7, SwitchBackKeeps
  <2>8. CASE SwitchOver(r)
    BY <2>8, SwitchOverKeeps
  <2>9. CASE Extract(r)
    BY <2>9, ExtractKeeps
  <2>10. CASE AddLwe(r)
    BY <2>10, AddLweKeeps
  <2>11. CASE SubtractLwe(r)
    BY <2>11, SubtractLweKeeps
  <2>12. ASSUME NEW x \in Regs, Add(r, x)
        PROVE  IInv'
    BY <2>12, AddKeeps
  <2>13. ASSUME NEW x \in Regs, Subtract(r, x)
        PROVE  IInv'
    BY <2>13, SubtractKeeps
  <2>14. QED
    BY <1>1, <2>1, <2>2, <2>3, <2>4, <2>5, <2>6, <2>7, <2>8, <2>9, <2>10, <2>11, <2>12, <2>13
<1>2. CASE EncryptLwe
  BY <1>2, EncryptLweKeeps
<1>3. CASE ScaleLwe
  BY <1>3, ScaleLweKeeps
<1>4. CASE UNCHANGED vars
  <2>1. /\ secret' = secret /\ matrix' = matrix /\ rgsw' = rgsw /\ ct' = ct /\ under' = under
        /\ plain' = plain /\ bound' = bound /\ lwe' = lwe
    BY <1>4 DEF vars, keys
  <2>2. QED
    BY <2>1 DEF IInv, KeysHold, RegistersHold, RegisterHolds, LweRegisterHolds, KeyOf
<1>5. CASE Done
  BY <1>4, <1>5 DEF Done
<1>6. QED
  BY <1>1, <1>2, <1>3, <1>4, <1>5 DEF Next

\* In every reachable state each register holds its plaintext within its bound.
LEMMA RegistersAlwaysHold ==
  ASSUME RingAssumption, GadgetAssumption, StepsAssumption
  PROVE  Spec => []IInv
<1>1. Init => IInv
  BY InitHolds
<1>2. IInv /\ [Next]_vars => IInv'
  BY StepHolds
<1>3. QED
  BY <1>1, <1>2, PTL DEF Spec

\* The invariant bounds the phase that the code computes.
LEMMA HoldingIsWithinBound ==
  ASSUME RingAssumption, GadgetAssumption, StepsAssumption, IInv
  PROVE  NoiseWithinBound
<1>1. ASSUME NEW r \in Regs
      PROVE  LargestSize(Minus(Phase(ct[r], KeyOf(under[r])), Scaled(plain[r], Delta))) <= bound[r]
  <2>1. PICK s \in Elements, u \in KeyNames :
          /\ s = KeyOf(u) /\ u = under[r] /\ s \in IntPolys /\ Holds(ct[r], s, plain[r], bound[r])
          /\ KeysHold /\ NoiseSize \in Nat
    BY RegisterReads
  <2>2. PICK c, m, B : c = ct[r] /\ m = plain[r] /\ B = bound[r]
    OBVIOUS
  <2>3. Holds(c, s, m, B) /\ s \in IntPolys
    BY <2>1, <2>2
  <2>4. LargestSize(Minus(Phase(c, s), Scaled(m, Delta))) <= B
    BY <2>3, HoldsWithin
  <2>5. QED
    BY <2>1, <2>2, <2>4
<1>2. QED
  BY <1>1 DEF NoiseWithinBound

\* The invariant makes the registers decrypt to their plaintexts.
LEMMA HoldingRlweDecryptsRight ==
  ASSUME RingAssumption, GadgetAssumption, StepsAssumption, IInv
  PROVE  RlweDecryptsRight
<1>1. ASSUME NEW r \in Regs, 2 * (bound[r] + Wrap) < Delta
      PROVE  Decrypt(ct[r], KeyOf(under[r])) = plain[r]
  <2>1. PICK s \in Elements, u \in KeyNames :
          /\ s = KeyOf(u) /\ u = under[r] /\ s \in IntPolys /\ Holds(ct[r], s, plain[r], bound[r])
          /\ KeysHold /\ NoiseSize \in Nat
    BY RegisterReads
  <2>2. PICK c, m, B : c = ct[r] /\ m = plain[r] /\ B = bound[r]
    OBVIOUS
  <2>3. Holds(c, s, m, B) /\ s \in IntPolys /\ 2 * (B + Wrap) < Delta
    BY <1>1, <2>1, <2>2
  <2>4. Decrypt(c, s) = m
    BY <2>3, HoldsDecrypts
  <2>5. QED
    BY <2>1, <2>2, <2>4
<1>2. QED
  BY <1>1 DEF RlweDecryptsRight

\* And the LWE register.
LEMMA HoldingLweDecryptsRight ==
  ASSUME RingAssumption, GadgetAssumption, StepsAssumption, IInv
  PROVE  LweDecryptsRight
<1>1. ASSUME lwe.bound * P + (P - 1) * Wrap < Q \div 2
      PROVE  LweDecrypt(lwe.c, FromRlwe(KeyOf(lwe.under))) = lwe.plain
  <2>1. PICK s \in IntPolys, u \in KeyNames :
          /\ s = FromRlwe(KeyOf(u)) /\ u = lwe.under /\ LweHolds(lwe.c, s, lwe.plain, lwe.bound)
    BY LweReads
  <2>2. PICK c, m, B : c = lwe.c /\ m = lwe.plain /\ B = lwe.bound
    OBVIOUS
  <2>3. LweHolds(c, s, m, B) /\ B * P + (P - 1) * Wrap < Q \div 2
    BY <1>1, <2>1, <2>2
  <2>4. LweDecrypt(c, s) = m
    BY <2>3, LweHoldsDecrypts
  <2>5. QED
    BY <2>1, <2>2, <2>4
<1>2. QED
  BY <1>1 DEF LweDecryptsRight

\* No sequence of encryptions, sums, products, Galois steps and key switches grows the error
\* of a register beyond what it is allowed.
THEOREM NoiseStaysWithinBound ==
  ASSUME RingAssumption, GadgetAssumption, StepsAssumption
  PROVE  Spec => []NoiseWithinBound
<1>1. IInv => NoiseWithinBound
  BY HoldingIsWithinBound
<1>2. Spec => []IInv
  BY RegistersAlwaysHold
<1>3. QED
  BY <1>1, <1>2, PTL

\* decrypt and round_decode undo every sequence of operations whose errors leave room for the
\* wrap: of a register, and of what sample_extract_coeff0 leaves under from_rlwe of the key.
THEOREM CiphertextsDecrypt ==
  ASSUME RingAssumption, GadgetAssumption, StepsAssumption
  PROVE  Spec => []DecryptsRight
<1>1. IInv => DecryptsRight
  BY HoldingRlweDecryptsRight, HoldingLweDecryptsRight DEF DecryptsRight
<1>2. Spec => []IInv
  BY RegistersAlwaysHold
<1>3. QED
  BY <1>1, <1>2, PTL
=============================================================================
