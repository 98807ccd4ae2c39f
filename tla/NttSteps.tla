------------------------------ MODULE NttSteps ------------------------------
(***************************************************************************)
(* A product in Z_q[X]/(X^N + 1) by transforms, one block of butterflies   *)
(* at a time: both factors are lifted and transformed, multiplied          *)
(* pointwise, transformed back, scaled and stripped of Montgomery form.    *)
(***************************************************************************)
EXTENDS Ntt, FiniteSums

CONSTANT Inputs(_)    \* arrays that are multiplied, for a modulus

\* Coefficients are words, reduced or not.
InputArrays == \A q \in NttModuli : Inputs(q) \subseteq [Idx -> Words]

VARIABLES
  prime, path,        \* the modulus, and the kernel that multiplies
  factors,            \* the two arrays as given
  arrays,             \* what has become of them; the product is in the first
  phase, block        \* the loop, and the block of butterflies it is at

nttVars == <<prime, path, factors, arrays, phase, block>>

NttInit ==
  /\ prime \in NttModuli /\ path \in Paths(prime)
  /\ factors \in [1 .. 2 -> Inputs(prime)]
  /\ path = "shoup" => \A f \in 1 .. 2 : factors[f] \in Arrays(prime)
  /\ arrays = factors /\ phase = "lift" /\ block = 1

LiftBoth ==
  /\ phase = "lift" /\ phase' = "forward"
  /\ arrays' = [f \in 1 .. 2 |-> Lift(path, arrays[f], prime)]
  /\ UNCHANGED <<prime, path, factors, block>>

\* Blocks are numbered in the order of the two loops of a forward transform.
Butterflies ==
  /\ phase = "forward"
  /\ arrays' = [f \in 1 .. 2 |-> ForwardBlock(path, arrays[f], block, prime)]
  /\ block' = IF block < N - 1 THEN block + 1 ELSE N \div 2
  /\ phase' = IF block < N - 1 THEN "forward" ELSE "pointwise"
  /\ UNCHANGED <<prime, path, factors>>

MultiplyPointwise ==
  /\ phase = "pointwise" /\ phase' = "inverse"
  /\ arrays' = [arrays EXCEPT ![1] = Pointwise(path, arrays[1], arrays[2], prime)]
  /\ UNCHANGED <<prime, path, factors, block>>

\* An inverse transform goes through the levels backwards.
InverseButterflies ==
  /\ phase = "inverse"
  /\ arrays' = [arrays EXCEPT ![1] = InverseBlock(path, @, block, prime)]
  /\ block' = IF block + 1 = 2 * HighBit(block) THEN HighBit(block) \div 2 ELSE block + 1
  /\ phase' = IF block = 1 THEN "scale" ELSE "inverse"
  /\ UNCHANGED <<prime, path, factors>>

Finish ==
  /\ phase = "scale" /\ phase' = "done"
  /\ arrays' = [arrays EXCEPT ![1] =
                  Strip(path, ScaleByInverse(path, @, prime), prime)]
  /\ UNCHANGED <<prime, path, factors, block>>

Done == phase = "done" /\ UNCHANGED nttVars

NttNext ==
  LiftBoth \/ Butterflies \/ MultiplyPointwise \/ InverseButterflies \/ Finish \/ Done

NttSpec == NttInit /\ [][NttNext]_nttVars
-----------------------------------------------------------------------------
(* Properties                                                              *)

\* Every word is below the modulus, so that the sum of two fits a word, in every
\* loop of every kernel; what is lifted may be any word (ntt.rs, the butterflies).
InRange ==
  phase \in {"forward", "pointwise", "inverse", "scale", "done"} =>
    \A f \in 1 .. 2 : arrays[f] \in Arrays(prime)

\* Blocks form a binary heap. Block k holds Length(k) words from First(k) on, a
\* polynomial modulo X^Length(k) - Constant(k, q), which it splits into 2k and 2k + 1.
Length(k) == N \div HighBit(k)
First(k) == (k - HighBit(k)) * Length(k)
Constant(k, q) ==
  IF k = 1 THEN q - 1
  ELSE LET w == Context[q].psiStd[k \div 2]
       IN  IF k % 2 = 0 THEN w ELSE NegMod(w, q)

\* Coefficient j of array a modulo X^Length(k) - Constant(k, q).
Remainder(a, j, k, q) ==
  SumTo([r \in 0 .. HighBit(k) - 1 |->
           (a[j + r * Length(k)] % q) * StdPow(Constant(k, q), r, q)], HighBit(k)) % q

\* Coefficient k of the product of a and b modulo X^N + 1.
Negacyclic(a, b, k, q) ==
  SumTo([j \in Idx |->
           IF j <= k THEN (a[j] % q) * (b[k - j] % q)
           ELSE NegMod(((a[j] % q) * (b[N + k - j] % q)) % q, q)], N) % q
Product == [k \in Idx |-> Negacyclic(factors[1], factors[2], k, prime)]

\* The word as a residue in standard form.
Standard(w) == IF path = "shoup" THEN w ELSE FromMontgomery(w, prime)

\* The words of block k are the remainders of a, so many times.
HoldsRemainder(c, k, a, times) ==
  \A j \in 0 .. Length(k) - 1 :
    Standard(c[First(k) + j]) = (times * Remainder(a, j, k, prime)) % prime

\* The blocks that going back has made so far, and those that it has yet to join.
Joined == HighBit(block) .. block - 1
Unjoined == 2 * block .. 4 * HighBit(block) - 1

\* Before block k is split the blocks from k on hold the remainders of the factors; going
\* back, a block holds those of the product, as often as it has words. The constants are
\* square roots of their parents' (ntt.rs, the twiddle ladders and the butterflies).
LevelsHoldRemainders ==
  /\ phase = "forward" =>
       /\ \A f \in 1 .. 2, k \in block .. 2 * block - 1 :
            HoldsRemainder(arrays[f], k, factors[f], 1)
       /\ \A k \in 2 .. 2 * N - 1 :
            (Constant(k, prime) * Constant(k, prime)) % prime = Constant(k \div 2, prime)
  /\ phase = "inverse" =>
       LET product == Product
       IN  \A k \in Joined \cup Unjoined : HoldsRemainder(arrays[1], k, product, Length(k))

\* By every kernel the loops compute the product modulo X^N + 1, reduced and in
\* standard form, and so do the transforms taken whole (ntt.rs, forward, inverse).
ProductIsNegacyclic ==
  phase = "done" =>
    /\ arrays[1] = Product
    /\ arrays[1] = Inverse(Pointwise("classical", Forward(factors[1], prime),
                                     Forward(factors[2], prime), prime), prime)

\* ntt.rs, by every kernel: words stay below the modulus, a block holds the remainders
\* modulo its factor of X^N + 1, and the end is the product modulo X^N + 1.
TransformsMultiply == InRange /\ LevelsHoldRemainders /\ ProductIsNegacyclic
=============================================================================
