------------------------------ MODULE TreePack ------------------------------
(***************************************************************************)
(* inspiring/automorph_pack.rs: packing ciphertexts into one by a tree of  *)
(* automorphisms. The tree is taken level by level, all the nodes of a     *)
(* level in one step; pack_lwes_inner takes it depth first.                *)
(***************************************************************************)
EXTENDS Rlwe, Sequences, SequencesExt

CONSTANTS
  Moduli,      \* the CRT moduli, whose product is Q
  Secrets,     \* secret keys, of small coefficients
  Batches,     \* the plaintext polynomials of N columns
  Mask, Seeds, \* the polynomials that seeds expand to: a function from 0 .. Seeds - 1
  Noise        \* errors of size at most one

ModuliAssumption == Q = FoldLeft(LAMBDA x, y : x * y, 1, Moduli)

VARIABLES
  secret,
  galoisKeys,  \* automorph_keys: the matrix for t = d / 2^i + 1, by i
  input,       \* the ciphertexts to pack, by column
  plain,       \* history: what they carry
  call,        \* the operation in progress
  nodes,       \* the ciphertexts of the level reached
  ell,         \* levels done
  bValues,     \* b of each LWE ciphertext, kept out of the tree
  packed       \* the result

inputs == <<secret, galoisKeys, input, plain>>
vars == <<inputs, call, nodes, ell, bValues, packed>>

Log2(n) == CHOOSE l \in 0 .. n : 2 ^ l <= n /\ n < 2 ^ (l + 1)
CeilLog2(n) == CHOOSE l \in 0 .. n : n <= 2 ^ l /\ \A k \in 0 .. l - 1 : 2 ^ k < n
LogD == Log2(N)

ZeroCt == Pair(Zero, Zero)
Nothing == [dim |-> 0]
KeyMasks(i) == [k \in DigitIdx |-> Mask[(i + k) % Seeds]]

\* The element whose matrix setup puts at i, and where level l finds its own.
GaloisElement(i) == N \div 2 ^ i + 1
KsIdx(l) == LogD - l

Init ==
  /\ secret \in Secrets
  /\ \E e \in Noise :
       galoisKeys = [i \in 0 .. LogD - 1 |->
         AutomorphismKs(secret, GaloisElement(i), KeyMasks(i), [k \in DigitIdx |-> e])]
  /\ \E n \in 0 .. N, m \in Batches, seed \in 0 .. Seeds - 1, e \in Noise :
       /\ plain = [k \in 0 .. n - 1 |-> m[k]]
       /\ input = [k \in 0 .. n - 1 |->
            Encrypt(secret, m[k], Mask[(seed + k) % Seeds], e)]
  /\ call = "none" /\ nodes = <<>> /\ ell = 0 /\ bValues = <<>> /\ packed = Nothing

Columns == DOMAIN input
NumColumns == Cardinality(Columns)
-----------------------------------------------------------------------------
\* y of level l: X^(d / 2^(l + 1)).
Y(l) == Monomial(N \div 2 ^ (l + 1))
NegY(l) == Negated(Y(l))

HomomorphicAutomorph(c, t, matrix) == KeySwitch(CtAutomorphism(c, t), matrix)

\* invert_sample_extract.
InvertSampleExtract(a) == [j \in Idx |-> a[(N - j) % N]]

\* Mutant: both halves under y, none negated.
MergedUnsigned(even, odd, l) ==
  LET half == CtPlus(even, CtTimes(odd, Y(l - 1)))
  IN  CtPlus(half, HomomorphicAutomorph(half, 2 ^ l + 1, galoisKeys[KsIdx(l)]))

\* A node of level l from two of level l - 1.
Merged(even, odd, l) ==
  CtPlus(CtPlus(even, CtTimes(odd, Y(l - 1))),
         HomomorphicAutomorph(CtPlus(even, CtTimes(odd, NegY(l - 1))), 2 ^ l + 1,
                              galoisKeys[KsIdx(l)]))

\* from_coeffs_moduli: residues of one number per coefficient, as many as there are.
FromCoeffs(v) == [k \in DOMAIN v |-> v[k] % Q]

\* coeffs(): the residues under the first modulus, then those under the next.
Flat(b) == [k \in 0 .. N * Len(Moduli) - 1 |-> b[k % N] % Moduli[k \div N + 1]]

\* The b side gets the b values, times d, in the flat residues.
WithScaledB(c) ==
  LET flat == Flat(c.b)
  IN  [dim |-> N * Len(Moduli), a |-> c.a,
       b |-> FromCoeffs([k \in DOMAIN flat |->
              IF k < N THEN flat[k] + ((bValues[k] * N) % Q) ELSE flat[k]])]

Whole(c) == [dim |-> N, a |-> c.a, b |-> c.b]
-----------------------------------------------------------------------------
Return(result) ==
  /\ packed' = result
  /\ UNCHANGED <<inputs, nodes, ell, bValues>>

Begin(name) ==
  /\ call = "none"
  /\ call' = name

\* pack_lwes: nothing to pack.
PackNone(name) ==
  /\ name \in {"lwes", "rlwes"} /\ Begin(name)
  /\ NumColumns = 0
  /\ Return(Whole(ZeroCt))

\* pack_lwes with one element: no tree, and no scaling.
PackOneLwe ==
  /\ Begin("lwes")
  /\ NumColumns = 1
  /\ LET lwe == SampleExtract(input[0])
     IN  Return(Whole(Pair(InvertSampleExtract(lwe.a), Constant(lwe.b))))

\* pack_lwes: prep_pack_lwes and the padding to d.
PrepLwes ==
  /\ Begin("lwes")
  /\ NumColumns > 1
  /\ LET lwe == [k \in Columns |-> SampleExtract(input[k])] IN
       /\ nodes' = [k \in Idx |-> IF k \in Columns THEN Pair(InvertSampleExtract(lwe[k].a), Zero)
                                  ELSE ZeroCt]
       /\ bValues' = [k \in Idx |-> IF k \in Columns THEN lwe[k].b ELSE 0]
  /\ ell' = 0
  /\ UNCHANGED <<inputs, packed>>

\* pack_rlwes_tree: one element is returned as it is.
PackOneRlwe == Begin("rlwes") /\ NumColumns = 1 /\ Return(Whole(input[0]))

\* pack_rlwes_tree: padded to a power of two.
PrepRlwes ==
  /\ Begin("rlwes")
  /\ NumColumns > 1
  /\ nodes' = [k \in 0 .. 2 ^ CeilLog2(NumColumns) - 1 |-> IF k \in Columns THEN input[k] ELSE ZeroCt]
  /\ ell' = 0
  /\ UNCHANGED <<inputs, bValues, packed>>

\* pack_lwes_inner, one level: a node joins the one a step after it.
Level ==
  /\ call \in {"lwes", "rlwes"} /\ packed = Nothing
  /\ Cardinality(DOMAIN nodes) > 1
  /\ LET step == Cardinality(DOMAIN nodes) \div 2
     IN  nodes' = [start \in 0 .. step - 1 |-> Merged(nodes[start], nodes[start + step], ell + 1)]
  /\ ell' = ell + 1
  /\ UNCHANGED <<inputs, call, bValues, packed>>

Finish ==
  /\ call \in {"lwes", "rlwes"} /\ packed = Nothing
  /\ DOMAIN nodes = {0}
  /\ packed' = IF call = "lwes" THEN WithScaledB(nodes[0]) ELSE Whole(nodes[0])
  /\ UNCHANGED <<inputs, call, nodes, ell, bValues>>

\* pack_single_lwe, one key after the other.
BeginSingle ==
  /\ Begin("single")
  /\ NumColumns > 0
  /\ nodes' = [k \in {0} |-> input[0]]
  /\ ell' = 0
  /\ UNCHANGED <<inputs, bValues, packed>>

Spread ==
  /\ call = "single" /\ ell < LogD
  /\ nodes' = [k \in {0} |->
       CtPlus(nodes[0], HomomorphicAutomorph(nodes[0], N \div 2 ^ ell + 1, galoisKeys[ell]))]
  /\ ell' = ell + 1
  /\ packed' = IF ell' = LogD THEN Whole(nodes'[0]) ELSE packed
  /\ UNCHANGED <<inputs, call, bValues>>

\* The call has returned.
Returned == packed # Nothing /\ UNCHANGED vars

Next ==
  \/ \E name \in {"lwes", "rlwes"} : PackNone(name)
  \/ PackOneLwe \/ PrepLwes \/ PackOneRlwe \/ PrepRlwes \/ Level \/ Finish
  \/ BeginSingle \/ Spread \/ Returned

Spec == Init /\ [][Next]_vars
-----------------------------------------------------------------------------
SwitchNoise == Digits * N * (Base - 1)
Wrap == Q % P
Levels ==
  CASE call = "single" -> LogD
    [] NumColumns < 2 -> 0
    [] call = "lwes" -> LogD
    [] OTHER -> CeilLog2(NumColumns)

\* pack_lwes_inner: at each level, a node holds the columns reachable from it at
\* evenly spaced coefficients, doubled once a level, whatever else the ciphertexts it
\* was built from held.
SubtreesHoldColumns ==
  call \in {"lwes", "rlwes"} =>
    \A start \in DOMAIN nodes, j \in 0 .. 2 ^ ell - 1 :
      LET k == start + j * Cardinality(DOMAIN nodes)
          leaf == IF k \notin Columns THEN 0
                  ELSE IF call = "lwes" THEN Times(input[k].a, secret)[0]
                  ELSE Phase(input[k], secret)[0]
          held == Phase(nodes[start], secret)[j * (N \div 2 ^ ell)]
      IN  Size((held - 2 ^ ell * leaf) % Q) <= (2 ^ ell - 1) * SwitchNoise

\* pack_lwes, pack_rlwes_tree: column k comes out at its place in the result, times
\* the number of leaves of the tree, while the errors leave room for it.
PackedDecrypts ==
  call \in {"lwes", "rlwes"} /\ packed # Nothing
  /\ 2 * (2 ^ Levels * (1 + P * Wrap) + (2 ^ Levels - 1) * SwitchNoise) < Delta =>
    /\ packed.dim = N
    /\ \A k \in Columns :
         Decrypt(packed, secret)[k * (N \div 2 ^ Levels)] = (2 ^ Levels * plain[k][0]) % P

\* pack_single_lwe: the constant coefficient times d, and nothing else.
ConstantKeptAlone ==
  call = "single" /\ packed # Nothing =>
    Decrypt(packed, secret) = Plain!Constant(N * plain[0][0])
=============================================================================
