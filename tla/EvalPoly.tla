----------------------------- MODULE EvalPoly ------------------------------
(***************************************************************************)
(* pir/eval_poly.rs: a plaintext polynomial evaluated at an encrypted      *)
(* point by Horner's rule, one of several polynomials selected by          *)
(* encrypted bits, and the points themselves. work holds the ciphertexts   *)
(* of a call from one round of its loop to the next.                       *)
(***************************************************************************)
EXTENDS Rlwe, Sequences

CONSTANTS
  Secrets,       \* secret keys, of small coefficients
  Polynomials,   \* plaintext polynomials to evaluate
  Tables,        \* sequences of plaintext polynomials to select from
  Choices,       \* sequences of bits
  Mask, Seeds,   \* the polynomials that seeds expand to: a function from 0 .. Seeds - 1
  Noise,         \* error polynomials of size at most one
  MonomialOrders, \* numbers of points +-X^k, which divide 2N
  ScalarOrders   \* pairs <<t, q>>: t points among the residues modulo q, t dividing q - 1

OrdersAssumption ==
  /\ \A t \in MonomialOrders : t > 0 /\ (2 * N) % t = 0
  /\ \A o \in ScalarOrders : o[1] > 0 /\ (o[2] - 1) % o[1] = 0

VARIABLES
  secret,
  call,        \* what was asked for
  keys,        \* the RGSW ciphertexts of the call: the point, or the bits
  work,
  left         \* coefficients, or bits, that are still to be used
vars == <<secret, call, keys, work, left>>
-----------------------------------------------------------------------------
\* mod_pow, by squaring.
ModPow(base, exp, q) ==
  LET pow[e \in 0 .. exp] ==
        IF e = 0 THEN 1
        ELSE LET h == pow[e \div 2]
             IN  IF e % 2 = 0 THEN (h * h) % q ELSE (((h * h) % q) * base) % q
  IN  pow[exp]

\* Mutant: any root will do, also one of a smaller order.
IsPrimitiveRootWeak(g, n, q) == g # 0 /\ ModPow(g, n, q) = 1

\* is_primitive_root asks about half the order, and about no other divisor of it.
IsPrimitiveRoot(g, n, q) ==
  /\ g \notin {0, 1}
  /\ ModPow(g, n, q) = 1
  /\ n > 1 => ModPow(g, n \div 2, q) # 1

\* find_primitive_root gives up after a thousand candidates.
NoRoot == 0
LastCandidate(q) == (IF q < 1000 THEN q ELSE 1000) - 1
FindPrimitiveRoot(n, q) ==
  IF n = 1 THEN 1
  ELSE LET root(c) == ModPow(c, (q - 1) \div n, q)
           good == {c \in 2 .. LastCandidate(q) : IsPrimitiveRoot(root(c), n, q)}
       IN  IF good = {} THEN NoRoot
           ELSE root(CHOOSE c \in good : \A x \in good : c <= x)

\* generate_scalar_eval_points: 1, omega, omega^2, ...
ScalarPoints(t, q) ==
  LET omega == FindPrimitiveRoot(t, q) IN [k \in 1 .. t |-> ModPow(omega, k - 1, q)]

\* generate_monomial_eval_points and generate_eval_points_poly, by the power of X,
\* in 0 .. 2N - 1.
MonomialPoints(t) == [k \in 1 .. t |-> ((k - 1) * ((2 * N) \div t)) % (2 * N)]
-----------------------------------------------------------------------------

FindDegree(h) ==
  LET occupied == {i \in Idx : h[i] # 0}
  IN  IF occupied = {} THEN 0 ELSE CHOOSE i \in occupied : \A j \in occupied : j <= i

EncryptConstant(v) == Trivial(Constant(v))

RowMasks(seed) == [i \in 0 .. 2 * Digits - 1 |-> Mask[(seed + i) % Seeds]]
RowErrors(e) == [i \in 0 .. 2 * Digits - 1 |-> e]
\* The points and the bits are encrypted by the caller.
Encrypted(m, seed, e) == RgswRows(secret, m, RowMasks(seed), RowErrors(e))

\* Mutant: the bit chooses the other one of a pair.
ChosenSwapped(pair, bit) ==
  CtPlus(pair[2], ExternalProduct(CtMinus(pair[1], pair[2]), bit))

\* One of a pair of ciphertexts, by a bit.
Chosen(pair, bit) ==
  CtPlus(pair[1], ExternalProduct(CtMinus(pair[2], pair[1]), bit))
-----------------------------------------------------------------------------
Idle == [kind |-> "none"]

Init ==
  /\ secret \in Secrets
  /\ call = Idle /\ keys = <<>> /\ work = <<>> /\ left = 0

\* eval_poly_homomorphic up to its loop, which a constant never enters.
EvalPolyHomomorphic ==
  /\ call = Idle
  /\ \E h \in Polynomials, t \in MonomialOrders, seed \in 0 .. Seeds - 1, e \in Noise :
     \E k \in 1 .. t :
       LET power == MonomialPoints(t)[k]
       IN  /\ call' = [kind |-> "eval", h |-> h, power |-> power]
           /\ keys' = <<Encrypted(Monomial(power), seed, e)>>
           /\ work' = <<EncryptConstant(h[FindDegree(h)])>>
           /\ left' = FindDegree(h)
  /\ UNCHANGED secret

HornerStep ==
  /\ call.kind = "eval" /\ left > 0
  /\ work' = <<CtPlus(ExternalProduct(work[1], keys[1]), EncryptConstant(call.h[left - 1]))>>
  /\ left' = left - 1
  /\ UNCHANGED <<secret, call, keys>>

\* homomorphic_select up to its loop: nothing to select from makes a zero.
HomomorphicSelect ==
  /\ call = Idle
  /\ \E table \in Tables, bits \in Choices, seed \in 0 .. Seeds - 1, e \in Noise :
       /\ call' = [kind |-> "select", table |-> table, bits |-> bits]
       /\ keys' = [j \in DOMAIN bits |-> Encrypted(Constant(bits[j]), seed, e)]
       /\ work' = IF table = <<>> THEN <<Trivial(Zero)>>
                  ELSE [j \in DOMAIN table |-> Trivial(table[j])]
       /\ left' = Len(bits)
  /\ UNCHANGED secret

\* A level of the tree, under the next bit; an odd one out moves up as it is.
SelectLevel ==
  /\ call.kind = "select" /\ left > 0 /\ Len(work) > 1
  /\ LET bit == keys[Len(keys) - left + 1]
     IN  work' = [j \in 1 .. (Len(work) + 1) \div 2 |->
                    IF 2 * j <= Len(work) THEN Chosen(<<work[2 * j - 1], work[2 * j]>>, bit)
                    ELSE work[2 * j - 1]]
  /\ left' = left - 1
  /\ UNCHANGED <<secret, call, keys>>

\* generate_scalar_eval_points panics when it finds no root.
ListScalarPoints ==
  /\ call = Idle
  /\ \E o \in ScalarOrders :
       /\ FindPrimitiveRoot(o[1], o[2]) # NoRoot
       /\ call' = [kind |-> "scalar", order |-> o[1], modulus |-> o[2],
                   points |-> ScalarPoints(o[1], o[2])]
  /\ UNCHANGED <<secret, keys, work, left>>

ListMonomialPoints ==
  /\ call = Idle
  /\ \E t \in MonomialOrders :
       call' = [kind |-> "monomial", order |-> t, points |-> MonomialPoints(t)]
  /\ UNCHANGED <<secret, keys, work, left>>

Over == \/ call.kind = "eval" /\ left = 0
        \/ call.kind = "select" /\ (left = 0 \/ Len(work) = 1)
        \/ call.kind \in {"scalar", "monomial"}

\* The caller has its result and turns to something else.
Return ==
  /\ Over
  /\ call' = Idle /\ keys' = <<>> /\ work' = <<>> /\ left' = 0
  /\ UNCHANGED secret

Next == \/ EvalPolyHomomorphic \/ HornerStep \/ HomomorphicSelect \/ SelectLevel
        \/ ListScalarPoints \/ ListMonomialPoints \/ Return
Spec == Init /\ [][Next]_vars
-----------------------------------------------------------------------------
ProductNoise == 2 * Digits * N * (Base - 1)
Wrap == Q % P

\* What the polynomial is at the power of X, as a sum of powers.
ValueAt(h, power) ==
  [i \in Idx |-> Plain!SumBelow(N, LAMBDA j : h[j] * Plain!Monomial(power * j)[i])]

\* The index that the first bits spell, the lowest first.
Index(bits) ==
  LET value[j \in 0 .. Len(bits)] ==
        IF j = 0 THEN 0 ELSE value[j - 1] + bits[j] * 2 ^ (j - 1)
  IN  value[Len(bits)]

\* Horner's rule over ciphertexts: what is left after the last coefficient decrypts
\* to the value of the polynomial at the point, and each round adds no more to the
\* error than the rows of the point and two wraps of the plaintext.
HornerEvaluates ==
  call.kind = "eval" /\ left = 0 =>
    LET m == ValueAt(call.h, call.power)
    IN  /\ Decrypt(work[1], secret) = m
        /\ LargestSize(Minus(Phase(work[1], secret), Scaled(m, Delta)))
             <= FindDegree(call.h) * (ProductNoise + 2 * Wrap)

\* The tree hands up the polynomial that the bits name, also when the number of
\* polynomials is no power of two or the bits run out early, and the error grows by
\* one product for each level, not with the number of polynomials.
SelectsIndexed ==
  call.kind = "select" /\ Over /\ Index(call.bits) < Len(call.table) =>
    LET m == call.table[Index(call.bits) + 1]
    IN  /\ Decrypt(work[1], secret) = m
        /\ LargestSize(Minus(Phase(work[1], secret), Scaled(m, Delta)))
             <= Len(call.bits) * ProductNoise

\* The points are roots of unity of the order asked for. They are all different among
\* the powers of X, and among scalars when half of the order is all there is to ask
\* about, as is_primitive_root does: for powers of two, and for primes.
IsPrime(t) == t > 1 /\ \A k \in 2 .. t - 1 : t % k # 0
HalfSuffices(t) == IsPrime(t) \/ \E k \in 0 .. t : t = 2 ^ k
AllDiffer(points) == \A j, k \in DOMAIN points : j # k => points[j] # points[k]
PointsAreRoots ==
  call.kind \in {"scalar", "monomial"} =>
    /\ call.kind = "monomial" \/ HalfSuffices(call.order) => AllDiffer(call.points)
    /\ \A k \in DOMAIN call.points :
         IF call.kind = "scalar"
         THEN ModPow(call.points[k], call.order, call.modulus) = 1
         ELSE (call.points[k] * call.order) % (2 * N) = 0

\* The points are "The t-th roots of unity [1, omega, ..., omega^(t-1)] in Z_q; t must
\* divide q-1": t different ones, whatever divisor of q - 1 that is.
PointsDiffer == call.kind = "scalar" => AllDiffer(call.points)
=============================================================================
