------------------------------ MODULE Sampler ------------------------------
(***************************************************************************)
(* The discrete Gaussian sampler of math/gaussian.rs.  A sample is drawn   *)
(* from -tailcut .. tailcut and accepted with a probability read from a    *)
(* table; the comparison of the probability with the uniform draw is one   *)
(* of bit patterns.  A float is its pattern, Mantissa bits of fraction     *)
(* under an exponent, and Value is the number it stands for, in units of   *)
(* the smallest.  The exponential is any curve that falls from 1 on both   *)
(* sides of 0.                                                             *)
(***************************************************************************)
EXTENDS Integers, Sequences

CONSTANTS Mantissa,    \* fraction bits of a float (52)
          OneExponent, \* the exponent of 1.0 (1023)
          Step,        \* the uniform draw is a multiple of this (2^-52)
          TailCut,     \* ceil(6 sigma)
          WordSpace,   \* number of words (2^64)
          Modulus,     \* the modulus samples are lifted to
          VectorLen    \* samples of one call of sample_vec_centered

SamplerAssumption ==
  /\ Mantissa \in Nat /\ OneExponent \in Nat \ {0} /\ Step \in Nat \ {0}
  /\ TailCut \in Nat /\ VectorLen \in Nat /\ WordSpace \in Nat
  /\ Modulus \in (TailCut + 1) .. (WordSpace \div 2)

\* Powers of two double; the provers know no law of exponents.
PowersDouble ==
  2 ^ 0 = 1 /\ \A k \in 0 .. Mantissa + OneExponent : 2 ^ (k + 1) = 2 * 2 ^ k

VARIABLES accept,  \* accept_bits: a pattern for each candidate + tailcut + 1
          curve,   \* the probabilities the table was made of, by |candidate|
          pc,      \* "draw" or "compare"
          proposed, \* the candidate
          uniform, \* pattern of the uniform draw
          drawn,   \* history: the samples accepted so far
          lifted   \* what sample_vec_centered has collected
samplerVars == <<accept, curve, pc, proposed, uniform, drawn, lifted>>

----------------------------------------------------------------------------
FloatScale == 2 ^ Mantissa
One == OneExponent * FloatScale
Patterns == 0 .. One
Value(bits) ==
  LET e == bits \div FloatScale
      f == bits % FloatScale
  IN  IF e = 0 THEN f ELSE (FloatScale + f) * 2 ^ (e - 1)

Candidates == -TailCut .. TailCut
Magnitude(y) == IF y < 0 THEN -y ELSE y

\* Mutant: the draw from [1, 2) is not shifted to [0, 1).
UniformUnshifted == {One + b : b \in 0 .. FloatScale - 1}
Uniform == {b \in Patterns : Value(b) < Value(One) /\ Value(b) % Step = 0}

\* accept_threshold_table, ascending in the candidate.
Table(c) == [i \in 1 .. 2 * TailCut + 1 |-> c[Magnitude(i - 1 - TailCut)]]
\* The scan over the whole table; the entries that do not match add zero.
ThresholdBits(y) ==
  LET matching == {i \in DOMAIN accept : i - 1 - TailCut = y}
  IN  IF matching = {} THEN 0 ELSE accept[CHOOSE i \in matching : TRUE]
\* Mutant: a draw equal to the probability is accepted.
AcceptedAtLeast == ThresholdBits(proposed) >= uniform
Accepted == ThresholdBits(proposed) > uniform

Word(s) == s % WordSpace
IsNegative(w) == w >= WordSpace \div 2
\* Mutant: a negative sample is taken for its magnitude.
LiftUnsigned(s) == IF s < 0 THEN Word(-s) ELSE Word(s)
Lift(s) ==
  IF IsNegative(Word(s)) THEN (Modulus + Word(s)) % WordSpace ELSE Word(s)

----------------------------------------------------------------------------
Falling == {c \in [0 .. TailCut -> Patterns] :
              c[0] = One /\ \A k \in 1 .. TailCut : c[k] <= c[k - 1]}

SamplerInit ==
  /\ curve \in Falling
  /\ accept = Table(curve)
  /\ pc = "draw" /\ proposed = 0 /\ uniform = 0
  /\ drawn = <<>> /\ lifted = <<>>

Draw(y, v) ==
  /\ pc = "draw" /\ Len(lifted) < VectorLen
  /\ proposed' = y /\ uniform' = v /\ pc' = "compare"
  /\ UNCHANGED <<accept, curve, drawn, lifted>>

Accept ==
  /\ pc = "compare" /\ Accepted
  /\ drawn' = Append(drawn, proposed) /\ lifted' = Append(lifted, Lift(proposed))
  /\ pc' = "draw"
  /\ UNCHANGED <<accept, curve, proposed, uniform>>

Reject ==
  /\ pc = "compare" /\ ~Accepted
  /\ pc' = "draw"
  /\ UNCHANGED <<accept, curve, proposed, uniform, drawn, lifted>>

Candidate(y) == \E v \in Uniform : Draw(y, v)
SamplerNext == (\E y \in Candidates : Candidate(y)) \/ Accept \/ Reject

\* The loop runs on, and the generator does not avoid a candidate for ever.
Fairness == WF_samplerVars(SamplerNext) /\ \A y \in Candidates : SF_samplerVars(Candidate(y))
SamplerSpec == SamplerInit /\ [][SamplerNext]_samplerVars /\ Fairness

----------------------------------------------------------------------------
\* The integer comparison of patterns accepts a candidate exactly when the
\* uniform draw is below the probability of its magnitude, so the tabulated
\* sampler draws what the one over floats drew (sample_rejection).
DecidesAsFloats ==
  [][pc = "compare" =>
       (Len(drawn') > Len(drawn)) =
         (Value(uniform) < Value(curve[Magnitude(proposed)]))]_samplerVars

\* What sample_vec_centered returns are residues that stand for the signed
\* samples: the wrapping addition of the modulus to the two's complement
\* word reaches the residue and never leaves the word range.
LiftsStandForSamples ==
  /\ Len(lifted) = Len(drawn)
  /\ \A i \in DOMAIN lifted :
       lifted[i] \in 0 .. Modulus - 1 /\ (lifted[i] - drawn[i]) % Modulus = 0

\* Every call returns: the loop of sample_rejection has no bound, and ends
\* because the draw is below one and zero is accepted for every such draw.
SamplesReturn == <>(Len(lifted) = VectorLen)
=============================================================================
