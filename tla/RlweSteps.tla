----------------------------- MODULE RlweSteps -----------------------------
(***************************************************************************)
(* Sequences of homomorphic operations on RLWE registers and an LWE        *)
(* register, under keys that a Galois step and a key switch move between.  *)
(* plain and bound are history: the plaintext that a register should hold, *)
(* and what its error may have grown to.                                   *)
(***************************************************************************)
EXTENDS Rlwe, FiniteSums

CONSTANTS
  Regs,
  Secrets,     \* pairs of secret keys, of small coefficients
  Messages,    \* plaintext polynomials
  Mask,        \* the polynomials that seeds expand to: a function from 0 .. Seeds - 1
  Seeds,
  Noise,       \* error polynomials
  NoiseSize,   \* what no coefficient of an error exceeds in size
  Multipliers, \* small plaintext polynomials
  Scalars,
  Rotations,   \* the k of the RGSW encryptions of X^k
  Galois,      \* Galois elements in use
  LweNoise,    \* errors of direct LWE encryptions
  MaxOps       \* bound: operations in a row

\* Every automorphism in use has an inverse, as odd elements have; 1 and 2 name keys.
StepsAssumption ==
  /\ Secrets \subseteq Elements \X Elements
  /\ Messages \subseteq Plain!Elements /\ Multipliers \subseteq Plain!Elements
  /\ Seeds \in Nat \ {0} /\ Mask \in [0 .. Seeds - 1 -> Elements]
  /\ Noise \subseteq Elements /\ NoiseSize \in Nat
  /\ \A e \in Noise, i \in Idx : Size(e[i]) <= NoiseSize
  /\ Scalars \subseteq Nat /\ LweNoise \subseteq Int /\ MaxOps \in Nat
  /\ Rotations \subseteq 0 .. 2 * N - 1
  /\ Galois \subseteq 3 .. 2 * N - 1
  /\ \A g \in Galois : \E h \in 1 .. 2 * N - 1 : (g * h) % (2 * N) = 1

VARIABLES
  secret,      \* the two secret keys
  matrix,      \* key switching matrices: back from each automorphism, and to the other key
  rgsw,        \* RGSW encryptions of the rotations
  ct, under,   \* by register: a ciphertext and the name of the key it decrypts under
  plain, bound,
  lwe,         \* an LWE ciphertext with its key, plaintext and bound
  ops

keys == <<secret, matrix, rgsw>>
vars == <<keys, ct, under, plain, bound, lwe, ops>>

Wrap == Q % P                           \* what a plaintext that wraps adds to the error
SwitchNoise == Digits * N * (Base - 1) * NoiseSize  \* the digits of a polynomial times errors
ToOther == 0

RowSeeds(seed) == [i \in 0 .. 2 * Digits - 1 |-> (seed + i) % Seeds]
RowMasks(seed) == [i \in 0 .. 2 * Digits - 1 |-> Mask[(seed + i) % Seeds]]
RowErrors(e) == [i \in 0 .. 2 * Digits - 1 |-> e]

\* The keys 1 and 2, and the automorphisms of key 1, which are named by their element.
KeyOf(u) == IF u \in {1, 2} THEN secret[u] ELSE ImageKey(secret[1], u)

Init ==
  /\ secret \in Secrets
  /\ \E seed \in 0 .. Seeds - 1, e \in Noise, seeded \in BOOLEAN :
       /\ matrix = [g \in Galois \cup {ToOther} |->
            IF g = ToOther THEN KsMatrix(secret[1], secret[2], RowMasks(seed), RowErrors(e))
            ELSE AutomorphismKs(secret[1], g, RowMasks(seed), RowErrors(e))]
       /\ rgsw = [k \in Rotations |->
            IF seeded
            THEN Expanded(SeededRgsw(secret[1], Monomial(k), RowSeeds(seed), Mask, RowErrors(e)), Mask)
            ELSE RgswRows(secret[1], Monomial(k), RowMasks(seed), RowErrors(e))]
  /\ ct = [r \in Regs |-> Trivial(Zero)] /\ under = [r \in Regs |-> 1]
  /\ plain = [r \in Regs |-> Zero] /\ bound = [r \in Regs |-> 0]
  /\ lwe = [c |-> Pair(Zero, 0), under |-> 1, plain |-> 0, bound |-> 0]
  /\ ops = 0

\* Register r is left with c, under the key u, for the plaintext m within b.
Leave(r, c, u, m, b) ==
  /\ ops < MaxOps /\ ops' = ops + 1
  /\ ct' = [ct EXCEPT ![r] = c] /\ under' = [under EXCEPT ![r] = u]
  /\ plain' = [plain EXCEPT ![r] = m] /\ bound' = [bound EXCEPT ![r] = b]
  /\ UNCHANGED <<keys, lwe>>
-----------------------------------------------------------------------------
\* encrypt, encrypt_with_crs, and what a seeded ciphertext expands to.
EncryptFresh(r) ==
  \E m \in Messages, seed \in 0 .. Seeds - 1, e \in Noise :
    Leave(r, Encrypt(secret[1], m, Mask[seed], e), 1, m, NoiseSize)

EncryptTrivial(r) == \E m \in Messages : Leave(r, Trivial(m), 1, m, 0)

Add(r, x) ==
  /\ under[r] = under[x]
  /\ Leave(r, CtPlus(ct[r], ct[x]), under[r], Plain!Plus(plain[r], plain[x]),
           bound[r] + bound[x] + Wrap)

Subtract(r, x) ==
  /\ under[r] = under[x]
  /\ Leave(r, CtMinus(ct[r], ct[x]), under[r], Plain!Minus(plain[r], plain[x]),
           bound[r] + bound[x] + Wrap)

Scale(r) ==
  \E k \in Scalars :
    Leave(r, CtScaled(ct[r], k), under[r], Plain!Scaled(plain[r], k), k * (bound[r] + Wrap))

MultiplyPlain(r) ==
  \E t \in Multipliers :
    Leave(r, CtTimes(ct[r], t), under[r], Plain!Times(plain[r], t),
          SumTo(t, N) * (bound[r] + Wrap))

\* external_product with the rotation by k.
Rotate(r) ==
  \E k \in Rotations :
    /\ under[r] = 1
    /\ Leave(r, ExternalProduct(ct[r], rgsw[k]), 1, Plain!Times(plain[r], Plain!Monomial(k)),
             bound[r] + Wrap + 2 * SwitchNoise)

\* automorphism_ciphertext: callers must switch back, and may do so later.
ApplyAutomorphism(r) ==
  \E g \in Galois :
    /\ under[r] = 1
    /\ Leave(r, CtAutomorphism(ct[r], g), g, Plain!Automorphism(plain[r], g), bound[r] + Wrap)

SwitchBack(r) ==
  /\ under[r] \in Galois
  /\ Leave(r, KeySwitch(ct[r], matrix[under[r]]), 1, plain[r], bound[r] + SwitchNoise)

SwitchOver(r) ==
  /\ under[r] = 1
  /\ Leave(r, KeySwitch(ct[r], matrix[ToOther]), 2, plain[r], bound[r] + SwitchNoise)
-----------------------------------------------------------------------------
LeaveLwe(c, u, m, b) ==
  /\ ops < MaxOps /\ ops' = ops + 1
  /\ lwe' = [c |-> c, under |-> u, plain |-> m % P, bound |-> b]
  /\ UNCHANGED <<keys, ct, under, plain, bound>>

EncryptLwe ==
  \E m \in 0 .. P - 1, seed \in 0 .. Seeds - 1, e \in LweNoise :
    LeaveLwe(LweEncrypt(FromRlwe(secret[1]), m, Mask[seed], e), 1, m, IF e < 0 THEN -e ELSE e)

Extract(r) == LeaveLwe(SampleExtract(ct[r]), under[r], plain[r][0], bound[r])

AddLwe(r) ==
  /\ lwe.under = under[r]
  /\ LeaveLwe(LwePlus(lwe.c, SampleExtract(ct[r])), lwe.under, lwe.plain + plain[r][0],
              lwe.bound + bound[r] + Wrap)

SubtractLwe(r) ==
  /\ lwe.under = under[r]
  /\ LeaveLwe(LweMinus(lwe.c, SampleExtract(ct[r])), lwe.under, lwe.plain - plain[r][0],
              lwe.bound + bound[r] + Wrap)

ScaleLwe ==
  \E k \in Scalars :
    LeaveLwe(LweScaled(lwe.c, k), lwe.under, lwe.plain * k, k * (lwe.bound + Wrap))

\* The bound on operations is reached.
Done == ops = MaxOps /\ UNCHANGED vars

Next ==
  \/ \E r \in Regs :
       \/ EncryptFresh(r) \/ EncryptTrivial(r) \/ Scale(r) \/ MultiplyPlain(r) \/ Rotate(r)
       \/ ApplyAutomorphism(r) \/ SwitchBack(r) \/ SwitchOver(r)
       \/ Extract(r) \/ AddLwe(r) \/ SubtractLwe(r)
       \/ \E x \in Regs : Add(r, x) \/ Subtract(r, x)
  \/ EncryptLwe \/ ScaleLwe \/ Done

Spec == Init /\ [][Next]_vars
-----------------------------------------------------------------------------
\* Every operation keeps the error of a register within the growth it is allowed:
\* digits times errors for a product with rows, the remainder of Q by P for a
\* plaintext that wraps.
NoiseWithinBound ==
  \A r \in Regs :
    LargestSize(Minus(Phase(ct[r], KeyOf(under[r])), Scaled(plain[r], Delta))) <= bound[r]

\* decrypt: a ciphertext whose error leaves room for the wrap decrypts to what the
\* operations on it compute.
RlweDecryptsRight ==
  \A r \in Regs :
    2 * (bound[r] + Wrap) < Delta => Decrypt(ct[r], KeyOf(under[r])) = plain[r]

\* sample_extract_coeff0 and from_rlwe with round_decode: the same for the LWE register.
LweDecryptsRight ==
  lwe.bound * P + (P - 1) * Wrap < Q \div 2
    => LweDecrypt(lwe.c, FromRlwe(KeyOf(lwe.under))) = lwe.plain

\* Decryption undoes the operations, on either kind of ciphertext and from one to the other.
DecryptsRight == RlweDecryptsRight /\ LweDecryptsRight
=============================================================================
