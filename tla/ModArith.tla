------------------------------ MODULE ModArith ------------------------------
(***************************************************************************)
(* Arithmetic modulo q in machine words: Montgomery form, the Solinas and  *)
(* split-word kernels that stand in for its multiplication, Shoup          *)
(* multiplication, and the division-free reduction of signed samples.      *)
(* Bits is 64 in the code, DefaultQ is 2^Top - 2^Low + 1 with Top = 60 and *)
(* Low = 14, and Split is 52. A u128 holds two words.                      *)
(***************************************************************************)
EXTENDS Integers

CONSTANTS
  Moduli,      \* the moduli in use
  Bits,        \* bits of a word
  Top, Low,    \* the exponents of the Solinas prime
  Split        \* bits a fused multiply-add takes of its operands

Word == 2 ^ Bits
Words == 0 .. Word - 1
SignedWords == -(Word \div 2) .. Word \div 2 - 1
DefaultQ == 2 ^ Top - 2 ^ Low + 1

ASSUME WordAssumption ==
  /\ Bits \in Nat /\ Top \in 1 .. Bits - 2 /\ Low \in 0 .. Top - 1
  /\ Split \in Nat /\ 2 * Split >= Bits /\ Split <= Top /\ 3 * Split >= 2 * Bits - 2
  /\ \A q \in Moduli : q \in 3 .. Word \div 4 /\ q % 2 = 1

\* The exponents that double words need. The provers know no law of exponents, so the
\* proofs take this one; TLC evaluates it.
ASSUME ExponentLaw ==
  \A m \in 0 .. 2 * Bits :
    /\ 2 ^ m \in Nat \ {0}
    /\ \A n \in 0 .. 2 * Bits - m : 2 ^ (m + n) = 2 ^ m * 2 ^ n

\* The moduli are primes, as ModQ::inv requires, so Fermat's theorem holds of the powers
\* of v, which are found here by halving the exponent.
ASSUME Fermat ==
  \A q \in Moduli : \A v \in 1 .. q - 1 :
    LET power[k \in 0 .. q - 1] ==
          IF k = 0 THEN 1
          ELSE IF k % 2 = 0 THEN (power[k \div 2] * power[k \div 2]) % q
          ELSE (power[k - 1] * v) % q
    IN  power[q - 1] = 1

Low64(x) == x % Word
High64(x) == x \div Word % Word
Bit(x, i) == x \div 2 ^ i % 2
-----------------------------------------------------------------------------
(* Montgomery form                                                         *)

\* compute_q_inv_neg: bit by bit, y is the inverse of q modulo 2^(i+1).
InverseLadder(q) ==
  LET y[i \in 0 .. Bits - 1] ==
        IF i = 0 THEN 1 ELSE LET z == y[i - 1] IN z + 2 ^ i * Bit(Low64(z * q), i)
  IN  y
NegInverse == [q \in Moduli |-> Low64(-InverseLadder(q)[Bits - 1])]

\* compute_r_squared.
RSquared == [q \in Moduli |-> ((Word % q) * (Word % q)) % q]

CondSub(t, q) == IF t >= q THEN t - q ELSE t

MontgomeryMulUnreduced(a, b, q) ==   \* mutated form: no conditional subtraction
  LET ab == a * b  m == Low64(Low64(ab) * NegInverse[q]) IN High64(ab + m * q)

\* montgomery_mul_at: a * b / 2^Bits modulo q.
MontgomeryMul(a, b, q) ==
  LET ab == a * b
      m == Low64(Low64(ab) * NegInverse[q])
  IN  CondSub(High64(ab + m * q), q)

ToMontgomery(a, q) == MontgomeryMul(a, RSquared[q], q)
FromMontgomery(a, q) == MontgomeryMul(a, 1, q)

AddMod(a, b, q) == CondSub(a + b, q)
SubMod(a, b, q) == IF a >= b THEN a - b ELSE q - b + a
NegMod(a, q) == IF a = 0 THEN 0 ELSE q - a

\* One round of the loop of ModQ::pow: square and multiply from the low bit.
PowRound(s, q) ==
  IF s.exp = 0 THEN s
  ELSE [result |-> IF s.exp % 2 = 1 THEN MontgomeryMul(s.result, s.base, q) ELSE s.result,
        base   |-> MontgomeryMul(s.base, s.base, q),
        exp    |-> s.exp \div 2]

\* ModQ::pow: exp is a word, so it is zero after Bits rounds.
PowMod(a, e, q) ==
  LET round[i \in 0 .. Bits] ==
        IF i = 0 THEN [result |-> ToMontgomery(1, q), base |-> a, exp |-> e]
        ELSE PowRound(round[i - 1], q)
  IN  round[Bits].result

\* ModQ::inv, by Fermat.
InvMod(a, q) == PowMod(a, q - 2, q)
-----------------------------------------------------------------------------
(* Kernels that replace montgomery_mul_at                                  *)

\* solinas_mont_mul_default_q: m * q by shifts, in wrapping double words.
SolinasMul(a, b) ==
  LET ab == a * b
      m == Low64(Low64(ab) * NegInverse[DefaultQ])
      mq == (m * 2 ^ Top - m * 2 ^ Low + m) % (Word * Word)
  IN  CondSub(High64((ab + mq) % (Word * Word)), DefaultQ)

FmaLow(a, b) == (a * b) % 2 ^ Split
FmaHigh(a, b) == (a * b) \div 2 ^ Split % 2 ^ Split

SplitProductNoCarry(a, b) ==   \* mutated form: the carry of the cross terms is lost
  LET aLow == a % 2 ^ Split   aHigh == a \div 2 ^ Split
      bLow == b % 2 ^ Split   bHigh == b \div 2 ^ Split
      cross == FmaHigh(aLow, bLow) + FmaLow(aHigh, bLow) + FmaLow(aLow, bHigh)
      mid == cross % 2 ^ Split
      upper == FmaHigh(aHigh, bLow) + FmaHigh(aLow, bHigh)
  IN  [low  |-> Low64(FmaLow(aLow, bLow) + mid * 2 ^ Split),
       high |-> Low64(mid \div 2 ^ (Bits - Split)
                        + (upper + FmaLow(aHigh, bHigh)) * 2 ^ (2 * Split - Bits))]

\* ifma52_product_lohi and the same steps of the kernels: the two words of a * b
\* from products of Split bits. The parts of the highest product that the code adds
\* separately are added at once.
SplitProduct(a, b) ==
  LET aLow == a % 2 ^ Split   aHigh == a \div 2 ^ Split
      bLow == b % 2 ^ Split   bHigh == b \div 2 ^ Split
      cross == FmaHigh(aLow, bLow) + FmaLow(aHigh, bLow) + FmaLow(aLow, bHigh)
      mid == cross % 2 ^ Split
      upper == FmaHigh(aHigh, bLow) + FmaHigh(aLow, bHigh) + cross \div 2 ^ Split
  IN  [low  |-> Low64(FmaLow(aLow, bLow) + mid * 2 ^ Split),
       high |-> Low64(mid \div 2 ^ (Bits - Split)
                        + (upper + FmaLow(aHigh, bHigh)) * 2 ^ (2 * Split - Bits))]

\* The sum of two double words held as words, whose carry is seen by comparison.
HighOfSum(x, y) ==
  Low64(x.high + y.high + (IF Low64(x.low + y.low) < x.low THEN 1 ELSE 0))

\* m * DefaultQ in two words: (m << Top) - (m << Low) + m with borrow and carry.
ShiftedMultiple(m) ==
  LET topLow == Low64(m * 2 ^ Top)
      lowLow == Low64(m * 2 ^ Low)
      borrow == IF topLow < lowLow THEN 1 ELSE 0
      diff == Low64(topLow - lowLow)
      low == Low64(diff + m)
      carry == IF low < diff THEN 1 ELSE 0
  IN  [low  |-> low,
       high |-> Low64(High64(m * 2 ^ Top) - High64(m * 2 ^ Low) - borrow + carry)]

\* mont_mul_split52: m * q is one double word.
SplitMulScalar(a, b, q) ==
  LET ab == SplitProduct(a, b)
      mq == Low64(ab.low * NegInverse[q]) * q
      sumLow == ab.low + Low64(mq)
  IN  CondSub(Low64(ab.high + High64(mq) + sumLow \div Word), q)

\* mont_mul_split52_x8, one lane.
SplitMul(a, b, q) ==
  LET ab == SplitProduct(a, b)
      m == Low64(ab.low * NegInverse[q])
  IN  CondSub(HighOfSum(ab, SplitProduct(m, q)), q)

\* solinas_mont_mul_x8, one lane.
SolinasMulWide(a, b) ==
  LET ab == SplitProduct(a, b)
      m == Low64(ab.low * NegInverse[DefaultQ])
  IN  CondSub(HighOfSum(ab, ShiftedMultiple(m)), DefaultQ)

\* The multiplications that may serve for modulus q: the dispatch of
\* pointwise_mul_single_at and of mul_acc_ntt_domain, by modulus and by host.
Kernels(q) ==
  {"classical", "split", "splitScalar"} \cup (IF q = DefaultQ THEN {"solinas", "solinasWide"} ELSE {})

Mul(kernel, a, b, q) ==
  CASE kernel = "classical"   -> MontgomeryMul(a, b, q)
    [] kernel = "split"       -> SplitMul(a, b, q)
    [] kernel = "splitScalar" -> SplitMulScalar(a, b, q)
    [] kernel = "solinas"     -> SolinasMul(a, b)
    [] kernel = "solinasWide" -> SolinasMulWide(a, b)

\* mul_acc_ntt_domain on one coefficient.
MulAcc(kernel, acc, a, b, q) == AddMod(acc, Mul(kernel, a, b, q), q)

\* mul_acc3_ntt_domain on one coefficient: the sum wraps where it does not fit.
MulAcc3(kernel, acc, a, b, q) ==
  LET total == Low64(acc + Mul(kernel, a[1], b[1], q) + Mul(kernel, a[2], b[2], q)
                         + Mul(kernel, a[3], b[3], q))
  IN  CondSub(CondSub(CondSub(total, q), q), q)
-----------------------------------------------------------------------------
(* Standard form                                                           *)

ShoupPrecompute(b, q) == (b * Word) \div q

\* shoup_mul_at.
ShoupMul(a, b, q) ==
  CondSub(Low64(a * b - ((a * ShoupPrecompute(b, q)) \div Word) * q), q)

\* reduce_by_public_modulus: Barrett reduction with radix Word.
ReduceByPublicModulus(a, q) ==
  CondSub(Low64(a - Low64(High64(a * ((Word - 1) \div q)) * q)), q)

\* from_signed: the magnitude of the smallest word is its own negation.
FromSigned(v, q) ==
  LET rem == ReduceByPublicModulus(Low64(IF v < 0 THEN -v ELSE v), q)
  IN  IF v < 0 THEN CondSub(q - rem, q) ELSE rem

\* to_signed.
ToSigned(v, q) == IF v <= q \div 2 THEN v ELSE -(q - v)
=============================================================================
