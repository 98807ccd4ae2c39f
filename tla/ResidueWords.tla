---------------------------- MODULE ResidueWords ----------------------------
(***************************************************************************)
(* A residue in Montgomery form and the operations of its callers: a ModQ  *)
(* of mod_q.rs, or one coefficient of a polynomial in the NTT domain, which *)
(* any of the kernels may have touched. It implements Residues.            *)
(***************************************************************************)
EXTENDS ModArith

CONSTANTS
  Loads,       \* words that are lifted, reduced or not
  Samples,     \* signed samples
  Operands,    \* residues used as operands, in standard form
  Exponents

\* The types of the inputs in the code: words, signed words and residues of any modulus.
TypedInputs ==
  /\ Loads \subseteq Words /\ Exponents \subseteq Words
  /\ Samples \subseteq SignedWords /\ Operands \subseteq Nat

VARIABLES modulus, word, call

vars == <<modulus, word, call>>

Init == /\ modulus \in Moduli
        /\ word = 0
        /\ call = [op |-> "load", arg |-> 0]

\* ModQ::new.
Load(w) ==
  /\ word' = ToMontgomery(w, modulus)
  /\ call' = [op |-> "load", arg |-> w]

\* An error sample on its way into a polynomial.
LoadSample(v) ==
  /\ word' = ToMontgomery(FromSigned(v, modulus), modulus)
  /\ call' = [op |-> "load", arg |-> v]

\* An operand in Montgomery form, and the call it makes in standard form.
Lifted(x) == ToMontgomery(x % modulus, modulus)
Called(op, x) == call' = [op |-> op, arg |-> x % modulus]

Add(x) == word' = AddMod(word, Lifted(x), modulus) /\ Called("add", x)
Subtract(x) == word' = SubMod(word, Lifted(x), modulus) /\ Called("sub", x)
Negate == word' = NegMod(word, modulus) /\ call' = [op |-> "negate"]
Raise(e) == word' = PowMod(word, e, modulus) /\ call' = [op |-> "pow", arg |-> e]

\* ModQ::inv, None for zero.
Invert ==
  /\ word' = IF FromMontgomery(word, modulus) = 0 THEN word ELSE InvMod(word, modulus)
  /\ call' = [op |-> "invert"]

Multiply(kernel, x) ==
  /\ word' = Mul(kernel, word, Lifted(x), modulus)
  /\ Called("mul", x)

\* Shoup multiplication leaves the form of the other factor as it is.
MultiplyShoup(x) ==
  /\ word' = ShoupMul(word, x % modulus, modulus)
  /\ Called("mul", x)

Accumulate(kernel, x, y) ==
  /\ word' = MulAcc(kernel, word, Lifted(x), Lifted(y), modulus)
  /\ call' = [op |-> "muladd", arg |-> x % modulus, by |-> y % modulus]

\* Three equal products, one of them with the factors swapped.
AccumulateThree(kernel, x, y) ==
  /\ word' = MulAcc3(kernel, word, <<Lifted(x), Lifted(y), Lifted(x)>>,
                                   <<Lifted(y), Lifted(x), Lifted(y)>>, modulus)
  /\ call' = [op |-> "muladd", arg |-> (3 * x) % modulus, by |-> y % modulus]

Next ==
  /\ \/ \E w \in Loads : Load(w)
     \/ \E v \in Samples : LoadSample(v)
     \/ \E x \in Operands : Add(x) \/ Subtract(x) \/ MultiplyShoup(x)
     \/ Negate \/ Invert
     \/ \E e \in Exponents : Raise(e)
     \/ \E k \in Kernels(modulus), x \in Operands :
          \/ Multiply(k, x)
          \/ \E y \in Operands : Accumulate(k, x, y) \/ AccumulateThree(k, x, y)
  /\ UNCHANGED modulus

Spec == Init /\ [][Next]_vars
-----------------------------------------------------------------------------
(* Properties                                                              *)

\* The residue that the word stands for.
Residue == FromMontgomery(word, modulus)

\* Words stay below the modulus, whatever kernel made them: every sum of two words
\* and the accumulator of three products rely on it (ntt.rs, poly.rs). The signed
\* form of the residue is the representative nearest to zero.
WordsReduced ==
  /\ word \in 0 .. modulus - 1
  /\ LET s == ToSigned(Residue, modulus)
     IN  s % modulus = Residue /\ 2 * s \in -modulus .. modulus

\* Every operation, by every kernel, is the operation on residues.
R == INSTANCE Residues WITH value <- Residue
WordsImplementResidues == R!Spec
=============================================================================
