-------------------------------- MODULE Rlwe --------------------------------
(***************************************************************************)
(* LWE, RLWE and RGSW ciphertexts over Z_Q[X]/(X^N + 1), as lwe/, rlwe/,   *)
(* rgsw/ and ks/ compute them: what each operation does to the pair (a, b).*)
(* What a generator or a seed draws is an argument.                        *)
(***************************************************************************)
EXTENDS RingOps

CONSTANTS
  P,           \* plaintext modulus
  Base, Digits \* the gadget: its base z and its number of digits

\* The last conjunct is what powers are; the provers know no law of exponents.
GadgetAssumption ==
  /\ P \in Nat /\ P > 1 /\ P <= Q
  /\ Base \in Nat /\ Base > 1 /\ Digits \in Nat /\ Base ^ Digits >= Q
  /\ Base ^ 0 = 1 /\ \A i \in 0 .. Digits - 1 : Base ^ (i + 1) = Base * Base ^ i

\* The ring of plaintexts.
Plain == INSTANCE RingOps WITH Q <- P

Delta == Q \div P
Pair(a, b) == [a |-> a, b |-> b]
DigitIdx == 0 .. Digits - 1

\* powers.
Power(i) == (Base ^ i) % Q

\* gadget_decompose, digit i of every coefficient.
Digit(p, i) == [k \in Idx |-> (p[k] \div Base ^ i) % Base]

\* The sum over the digits of what term makes of each.
DigitSum(term(_)) ==
  LET sum[i \in 0 .. Digits] == IF i = 0 THEN Zero ELSE Plus(sum[i - 1], term(i - 1))
  IN  sum[Digits]
-----------------------------------------------------------------------------
\* encrypt, with the mask a and the error e; decrypt; trivial_encrypt.
Encrypt(s, m, a, e) == Pair(a, Plus(Plus(Negated(Times(a, s)), e), Scaled(m, Delta)))
Trivial(m) == Pair(Zero, Scaled(m, Delta))
Phase(ct, s) == Plus(Times(ct.a, s), ct.b)
Decrypt(ct, s) ==
  LET v == Phase(ct, s) IN [i \in Idx |-> ((v[i] + Delta \div 2) \div Delta) % P]

CtPlus(c, d) == Pair(Plus(c.a, d.a), Plus(c.b, d.b))
CtMinus(c, d) == Pair(Minus(c.a, d.a), Minus(c.b, d.b))
CtScaled(c, k) == Pair(Scaled(c.a, k), Scaled(c.b, k))
CtTimes(c, t) == Pair(Times(c.a, t), Times(c.b, t))

\* automorphism_ciphertext: decrypts under the automorphism of the key.
CtAutomorphism(c, g) == Pair(Automorphism(c.a, g), Automorphism(c.b, g))
-----------------------------------------------------------------------------
\* generate_ks_matrix: row i carries z^i of the key from under the key to.
KsMatrix(from, to, masks, errors) ==
  [i \in DigitIdx |->
     Pair(masks[i], Plus(Plus(Negated(Times(masks[i], to)), errors[i]), Scaled(from, Power(i))))]

\* Mutant: the automorphism of the key loses the sign at the wrap.
UnsignedImage(s, g) == [i \in Idx |-> s[CHOOSE j \in Idx : (j * g) % N = i]]

\* generate_automorphism_ks_matrix writes out the automorphism of the key.
ImageKey(s, g) == Automorphism(s, g)
AutomorphismKs(s, g, masks, errors) == KsMatrix(ImageKey(s, g), s, masks, errors)

\* key_switch; key_switch_ntt does the same upon transforms.
KeySwitch(c, rows) ==
  Pair(DigitSum(LAMBDA i : Times(Digit(c.a, i), rows[i].a)),
       Plus(c.b, DigitSum(LAMBDA i : Times(Digit(c.a, i), rows[i].b))))
-----------------------------------------------------------------------------
\* RgswCiphertext::encrypt: m z^i goes into a of the first rows and b of the others.
RgswRows(s, m, masks, errors) ==
  LET blank(i) == Plus(Negated(Times(masks[i], s)), errors[i])
  IN  [i \in 0 .. 2 * Digits - 1 |->
         IF i < Digits THEN Pair(Plus(masks[i], Scaled(m, Power(i))), blank(i))
         ELSE Pair(masks[i], Plus(blank(i), Scaled(m, Power(i - Digits))))]

\* Mutant: the first rows get m z^i in b.
SeededRgswUnkeyed(s, m, seeds, mask, errors) ==
  LET blank(i) == Plus(Negated(Times(mask[seeds[i]], s)), errors[i])
  IN  [i \in 0 .. 2 * Digits - 1 |->
         [seed |-> seeds[i], b |-> Plus(blank(i), Scaled(m, Power(i % Digits)))]]

\* SeededRgswCiphertext::encrypt: the seed pins a, so m z^i s goes into b instead.
SeededRgsw(s, m, seeds, mask, errors) ==
  LET blank(i) == Plus(Negated(Times(mask[seeds[i]], s)), errors[i])
  IN  [i \in 0 .. 2 * Digits - 1 |->
         [seed |-> seeds[i],
          b |-> IF i < Digits THEN Plus(blank(i), Times(Scaled(m, Power(i)), s))
                ELSE Plus(blank(i), Scaled(m, Power(i - Digits)))]]

\* expand: a comes back from the seed.
Expanded(rows, mask) == [i \in DOMAIN rows |-> Pair(mask[rows[i].seed], rows[i].b)]

\* external_product; with rows already transformed it does the same.
ExternalProduct(c, rows) ==
  LET part(f(_)) == DigitSum(LAMBDA i : Plus(Times(Digit(c.a, i), f(rows[i])),
                                            Times(Digit(c.b, i), f(rows[Digits + i]))))
  IN  Pair(part(LAMBDA row : row.a), part(LAMBDA row : row.b))
-----------------------------------------------------------------------------
\* LWE: a is a vector, b a residue.
Inner(a, s) == SumBelow(N, LAMBDA i : a[i] * s[i])
LweEncrypt(s, m, a, e) == Pair(a, (-Inner(a, s) + e + Delta * m) % Q)
LwePhase(c, s) == (c.b + Inner(c.a, s)) % Q

\* round_decode: the nearest of the multiples of Q / P.
RoundDecode(v) ==
  LET scaled == v * P
      up == IF scaled % Q >= Q \div 2 THEN 1 ELSE 0
  IN  (scaled \div Q + up) % P
LweDecrypt(c, s) == RoundDecode(LwePhase(c, s))

LwePlus(c, d) == Pair(Plus(c.a, d.a), (c.b + d.b) % Q)
LweMinus(c, d) == Pair(Minus(c.a, d.a), (c.b - d.b) % Q)
LweScaled(c, k) == Pair(Scaled(c.a, k), (c.b * k) % Q)

\* sample_extract_coeff0, and the key its result decrypts under.
SampleExtract(c) == Pair([i \in Idx |-> c.a[(N - i) % N]], c.b[0])
FromRlwe(s) == [i \in Idx |-> IF i = 0 THEN s[0] ELSE (-s[i]) % Q]
=============================================================================
