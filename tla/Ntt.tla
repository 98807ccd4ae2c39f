-------------------------------- MODULE Ntt ---------------------------------
(***************************************************************************)
(* The negacyclic number-theoretic transform of math/ntt.rs: the twiddle   *)
(* ladders of an NttContext and one block of butterflies at a time. Arrays *)
(* are functions from 0 .. N - 1 to words.                                 *)
(***************************************************************************)
EXTENDS ModArith

CONSTANT N            \* ring dimension

ASSUME DimensionAssumption == \E k \in 1 .. Bits : N = 2 ^ k

Idx == 0 .. N - 1
Arrays(q) == [Idx -> 0 .. q - 1]

\* The moduli that NttContext::with_moduli accepts.
NttModuli == {q \in Moduli : q % (2 * N) = 1}

\* mod_pow, in standard form: exp is a word, so it is zero after Bits rounds.
StdPowRound(s, q) ==
  IF s.exp = 0 THEN s
  ELSE [result |-> IF s.exp % 2 = 1 THEN (s.result * s.base) % q ELSE s.result,
        base   |-> (s.base * s.base) % q,
        exp    |-> s.exp \div 2]
StdPow(b, e, q) ==
  LET round[i \in 0 .. Bits] ==
        IF i = 0 THEN [result |-> 1, base |-> b % q, exp |-> e] ELSE StdPowRound(round[i - 1], q)
  IN  round[Bits].result

\* find_primitive_root(2N): the first generator that gives a 2N-th root whose N-th
\* power is not 1.
Candidate(g, q) == StdPow(g, (q - 1) \div (2 * N), q)
IsRoot(r, q) == StdPow(r, 2 * N, q) = 1 /\ StdPow(r, N, q) # 1
Psi ==
  [q \in NttModuli |->
     Candidate(CHOOSE g \in 2 .. q - 1 : /\ IsRoot(Candidate(g, q), q)
                                        /\ \A h \in 2 .. g - 1 : ~IsRoot(Candidate(h, q), q), q)]

\* "callers assert q = 1 mod n, which makes the search total": the moduli are primes.
ASSUME RootsExist ==
  \A q \in NttModuli : \E g \in 2 .. q - 1 : IsRoot(Candidate(g, q), q)

PowersOfTwo == {2 ^ k : k \in 0 .. Bits}
HighBit(k) == CHOOSE m \in PowersOfTwo : m <= k /\ k < 2 * m
LowBit(k) == CHOOSE m \in PowersOfTwo : k % (2 * m) = m

\* compute_twiddle_factors_std: powers of the root in bit-reversed order, the vector
\* after each round of the loop.
LadderStd(psi, q) ==
  LET after[k \in 0 .. N - 1] ==
        IF k = 0 THEN [j \in Idx |-> 0]
        ELSE LET f == after[k - 1]
             IN  [f EXCEPT ![k] = IF k = HighBit(k) THEN StdPow(psi, N \div (2 * k), q)
                                  ELSE (f[k - LowBit(k)] * f[LowBit(k)]) % q]
  IN  after[N - 1]

\* Mutant: a ladder in natural order.
LadderUnreversed(psi, q) ==
  [k \in 1 .. N - 1 |-> ToMontgomery(StdPow(psi, k, q), q)]

\* compute_twiddle_factors: the same in Montgomery form.
Ladder(psi, q) ==
  LET power[e \in 0 .. N] ==
        IF e = 0 THEN ToMontgomery(1, q)
        ELSE MontgomeryMul(power[e - 1], ToMontgomery(psi, q), q)
      after[k \in 0 .. N - 1] ==
        IF k = 0 THEN [j \in Idx |-> 0]
        ELSE LET f == after[k - 1]
             IN  [f EXCEPT ![k] = IF k = HighBit(k) THEN power[N \div (2 * k)]
                                  ELSE MontgomeryMul(f[k - LowBit(k)], f[LowBit(k)], q)]
  IN  after[N - 1]

\* NttContext::with_moduli, for one modulus.
ContextOf(psi, inv, nInv, q) ==
  [psi |-> Ladder(psi, q), psiInv |-> Ladder(inv, q), nInv |-> ToMontgomery(nInv, q),
   psiStd |-> LadderStd(psi, q), psiInvStd |-> LadderStd(inv, q), nInvStd |-> nInv]
Context ==
  [q \in NttModuli |-> ContextOf(Psi[q], StdPow(Psi[q], q - 2, q), StdPow(N, q - 2, q), q)]
-----------------------------------------------------------------------------
(* Butterflies. Block k = m + i is iteration i of the level with m blocks. *)

\* A path is a kernel in Montgomery form, or "shoup" in standard form.
Paths(q) == Kernels(q) \cup {"shoup"}

PathMul(path, a, b, q) ==
  IF path = "shoup" THEN ShoupMul(a, b, q) ELSE Mul(path, a, b, q)

Half(k) == N \div (2 * HighBit(k))
Start(k) == 2 * (k - HighBit(k)) * Half(k)
LowHalf(k) == Start(k) .. Start(k) + Half(k) - 1
HighHalf(k) == Start(k) + Half(k) .. Start(k) + 2 * Half(k) - 1

\* What an iteration leaves: its low half is added to v, and v subtracted from it.
SumAndDifference(c, v, k, q) ==
  [j \in Idx |-> CASE j \in LowHalf(k)  -> AddMod(c[j], v[j + Half(k)], q)
                   [] j \in HighHalf(k) -> SubMod(c[j - Half(k)], v[j], q)
                   [] OTHER             -> c[j]]

\* One iteration of the loops of forward_inplace_at, forward_inplace_shoup_at and
\* forward_inplace_solinas_at: the high half is multiplied first.
ForwardBlock(path, c, k, q) ==
  LET w == IF path = "shoup" THEN Context[q].psiStd[k] ELSE Context[q].psi[k]
  IN  SumAndDifference(c, [j \in HighHalf(k) |-> PathMul(path, c[j], w, q)], k, q)

\* One iteration of inverse_inplace_at and its two variants: the difference is
\* multiplied last.
InverseBlock(path, c, k, q) ==
  LET w == IF path = "shoup" THEN Context[q].psiInvStd[k] ELSE Context[q].psiInv[k]
      halves == SumAndDifference(c, c, k, q)
  IN  [j \in Idx |-> IF j \in HighHalf(k) THEN PathMul(path, halves[j], w, q) ELSE halves[j]]

\* The first loop of forward; Shoup transforms stay in standard form.
Lift(path, c, q) ==
  [j \in Idx |-> IF path = "shoup" THEN c[j] ELSE ToMontgomery(c[j], q)]

\* The division by n, and the last loop of inverse.
ScaleByInverse(path, c, q) ==
  [j \in Idx |-> PathMul(path, c[j], IF path = "shoup" THEN Context[q].nInvStd
                                                      ELSE Context[q].nInv, q)]
Strip(path, c, q) ==
  [j \in Idx |-> IF path = "shoup" THEN c[j] ELSE FromMontgomery(c[j], q)]

\* pointwise_mul, pointwise_mul_shoup and pointwise_mul_solinas.
Pointwise(path, a, b, q) == [j \in Idx |-> PathMul(path, a[j], b[j], q)]
-----------------------------------------------------------------------------
(* Whole transforms, for the modules that use them                         *)

\* forward_inplace_at and inverse_inplace_at on a block: those of the classical path.
ForwardInplace(c, k, q) ==
  SumAndDifference(c, [j \in HighHalf(k) |-> MontgomeryMul(c[j], Context[q].psi[k], q)], k, q)
InverseInplace(c, k, q) ==
  LET halves == SumAndDifference(c, c, k, q)
  IN  [j \in Idx |-> IF j \in HighHalf(k) THEN MontgomeryMul(halves[j], Context[q].psiInv[k], q)
                     ELSE halves[j]]

\* forward, on the classical path. The blocks of a level are disjoint.
Forward(c, q) ==
  LET after[k \in 0 .. N - 1] ==
        IF k = 0 THEN [j \in Idx |-> ToMontgomery(c[j], q)]
        ELSE ForwardInplace(after[k - 1], k, q)
  IN  after[N - 1]

\* inverse, on the classical path: the same blocks from the last to the first.
Inverse(c, q) ==
  LET after[i \in 0 .. N - 1] ==
        IF i = 0 THEN c ELSE InverseInplace(after[i - 1], N - i, q)
  IN  [j \in Idx |-> FromMontgomery(MontgomeryMul(after[N - 1][j], Context[q].nInv, q), q)]
=============================================================================
