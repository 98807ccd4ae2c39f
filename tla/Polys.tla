------------------------------- MODULE Polys --------------------------------
(***************************************************************************)
(* Poly of math/poly.rs and the remaindering of math/crt.rs: one stripe of *)
(* N residues for each modulus, one stripe behind the other, and a flag    *)
(* that says whether they are coefficients or evaluations in Montgomery    *)
(* form.                                                                   *)
(***************************************************************************)
EXTENDS Ntt, Sequences

MaxModuli == 2

Range2(dim, count) == 0 .. dim * count - 1
Limb(p, m) == [j \in Idx |-> p.coeffs[(m - 1) * N + j]]
Limbs(p) == DOMAIN p.moduli

\* A polynomial like p with these stripes.
WithLimbs(p, stripes) ==
  [p EXCEPT !.coeffs = [i \in DOMAIN p.coeffs |-> stripes[i \div N + 1][i % N]]]
-----------------------------------------------------------------------------
(* crt.rs                                                                  *)

NoInverse == -1

\* try_mod_inverse: the extended Euclidean loop, in signed double words. newR falls in
\* every round, so it is zero after a of them.
EuclidRound(s) ==
  IF s.newR = 0 THEN s
  ELSE [t |-> s.newT, newT |-> s.t - (s.r \div s.newR) * s.newT,
        r |-> s.newR, newR |-> s.r - (s.r \div s.newR) * s.newR]
TryModInverse(a, modulus) ==
  LET round[i \in 0 .. a] ==
        IF i = 0 THEN [t |-> 0, newT |-> 1, r |-> modulus, newR |-> a]
        ELSE EuclidRound(round[i - 1])
      end == round[a]
  IN  IF end.r # 1 THEN NoInverse ELSE IF end.t < 0 THEN end.t + modulus ELSE end.t

\* crt_compose_2.
CrtCompose(a0, a1, q0, q1, inv) ==
  LET a0q1 == a0 % q1
      diff == IF a1 >= a0q1 THEN a1 - a0q1 ELSE a1 + q1 - a0q1
  IN  a0 + q0 * ((diff * inv) % q1)

CrtDecompose(v, moduli) == [m \in DOMAIN moduli |-> v % moduli[m]]

\* crt_modulus: a product that stops at the largest word.
CrtModulus(moduli) ==
  LET product[k \in 0 .. Len(moduli)] ==
        IF k = 0 THEN 1
        ELSE IF product[k - 1] * moduli[k] < Word THEN product[k - 1] * moduli[k]
        ELSE Word - 1
  IN  product[Len(moduli)]
-----------------------------------------------------------------------------
(* Construction                                                            *)

\* init_moduli asserts these.
ModuliAccepted(moduli) ==
  /\ Len(moduli) \in 1 .. MaxModuli
  /\ Len(moduli) = 2 => TryModInverse(moduli[1], moduli[2]) # NoInverse

\* init_moduli, around stripes of coefficients.
Poly(coeffs, dim, moduli) ==
  [dim |-> dim, moduli |-> moduli,
   inv |-> IF Len(moduli) = 2 THEN TryModInverse(moduli[1], moduli[2]) ELSE 0,
   q |-> CrtModulus(moduli), ntt |-> FALSE, coeffs |-> coeffs]

\* from_coeffs_moduli: split, then reduced.
FromCoeffs(c, moduli) ==
  Poly([i \in Range2(N, Len(moduli)) |-> CrtDecompose(c[i % N], moduli)[i \div N + 1]],
       N, moduli)

\* from_crt_coeffs: reduced stripe by stripe.
FromCrtCoeffs(c, moduli) ==
  Poly([i \in DOMAIN c |-> c[i] % moduli[i \div N + 1]], N, moduli)

\* sample_gaussian_moduli: the same samples in every stripe.
FromSamples(s, moduli) ==
  Poly([i \in Range2(N, Len(moduli)) |-> FromSigned(s[i % N], moduli[i \div N + 1])],
       N, moduli)

EmptyPoly == [dim |-> 0, moduli |-> <<>>, inv |-> 0, q |-> 0, ntt |-> FALSE,
              coeffs |-> [i \in {} |-> 0]]

DecodesUnguarded(w) ==         \* mutated form: the product may saturate
  \/ [w EXCEPT !.ntt = FALSE] = EmptyPoly
  \/ /\ Len(w.moduli) \in 1 .. MaxModuli
     /\ DOMAIN w.coeffs = Range2(w.dim, Len(w.moduli))
     /\ \A m \in DOMAIN w.moduli : w.moduli[m] >= 2
     /\ w.q = CrtModulus(w.moduli)
     /\ IF Len(w.moduli) = 2
        THEN w.inv # NoInverse /\ w.inv = TryModInverse(w.moduli[1], w.moduli[2])
        ELSE w.inv = 0

\* TryFrom<PolyWire>: which records decode to a polynomial.
Decodes(w) ==
  \/ [w EXCEPT !.ntt = FALSE] = EmptyPoly
  \/ /\ Len(w.moduli) \in 1 .. MaxModuli
     /\ DOMAIN w.coeffs = Range2(w.dim, Len(w.moduli))
     /\ \A m \in DOMAIN w.moduli : w.moduli[m] >= 2
     /\ Len(w.moduli) = 2 => w.moduli[1] * w.moduli[2] < Word
     /\ w.q = CrtModulus(w.moduli)
     /\ IF Len(w.moduli) = 2
        THEN w.inv # NoInverse /\ w.inv = TryModInverse(w.moduli[1], w.moduli[2])
        ELSE w.inv = 0
-----------------------------------------------------------------------------
(* Operations                                                              *)

\* to_ntt and from_ntt look at the flag first.
ToNtt(p) ==
  IF p.ntt THEN p
  ELSE [WithLimbs(p, [m \in Limbs(p) |-> Forward(Limb(p, m), p.moduli[m])])
          EXCEPT !.ntt = TRUE]

FromNtt(p) ==
  IF ~p.ntt THEN p
  ELSE [WithLimbs(p, [m \in Limbs(p) |-> Inverse(Limb(p, m), p.moduli[m])])
          EXCEPT !.ntt = FALSE]

\* Word i of a polynomial of two or more operands, computed modulo its own stripe.
WordWise(p, word(_, _)) ==
  [p EXCEPT !.coeffs = [i \in DOMAIN p.coeffs |-> word(i, p.moduli[i \div N + 1])]]

PolyAdd(p, r) == WordWise(p, LAMBDA i, q : AddMod(p.coeffs[i], r.coeffs[i], q))
PolySub(p, r) == WordWise(p, LAMBDA i, q : SubMod(p.coeffs[i], r.coeffs[i], q))
PolyNegate(p) == WordWise(p, LAMBDA i, q : NegMod(p.coeffs[i], q))
ScalarMul(p, k) == WordWise(p, LAMBDA i, q : (p.coeffs[i] * (k % q)) % q)

\* The product of words in Montgomery form, pointwise_mul_single_at.
PointMul(p, r, i, q) == MontgomeryMul(p.coeffs[i], r.coeffs[i], q)

MulNttDomain(p, r) == WordWise(p, LAMBDA i, q : PointMul(p, r, i, q))
MulNttFlagless(p, r) == FromNtt([MulNttDomain(p, r) EXCEPT !.ntt = TRUE])   \* mutated form
MulNtt(p, r) == FromNtt([MulNttDomain(ToNtt(p), ToNtt(r)) EXCEPT !.ntt = TRUE])
MulAccNttDomain(p, a, b) ==
  WordWise(p, LAMBDA i, q : AddMod(p.coeffs[i], PointMul(a, b, i, q), q))

\* Three products and one reduction, by three conditional subtractions.
MulAcc3NttDomain(p, a, b) ==
  WordWise(p, LAMBDA i, q :
    CondSub(CondSub(CondSub(p.coeffs[i] + 3 * PointMul(a, b, i, q), q), q), q))

\* coeff, outside NTT domain.
Coeff(p, i) ==
  IF Len(p.moduli) = 2
  THEN CrtCompose(p.coeffs[i], p.coeffs[i + p.dim], p.moduli[1], p.moduli[2], p.inv) % p.q
  ELSE p.coeffs[i]

SetCoeff(p, i, v) ==
  WordWise(p, LAMBDA j, q : IF j % p.dim = i THEN v % q ELSE p.coeffs[j])

LinfNorm(p) ==
  LET size(i) == IF Coeff(p, i) <= p.q \div 2 THEN Coeff(p, i) ELSE p.q - Coeff(p, i)
      largest[i \in 0 .. p.dim] ==
        IF i = 0 THEN 0
        ELSE IF size(i - 1) > largest[i - 1] THEN size(i - 1) ELSE largest[i - 1]
  IN  largest[p.dim]
=============================================================================
