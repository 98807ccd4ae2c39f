----------------------------- MODULE LegacyPack -----------------------------
(***************************************************************************)
(* The packing that no responder calls: transform, aggregate and collapse, *)
(* at once or split into offline and online (inspiring/pack.rs), and the   *)
(* shift-and-add packing of simple_pack.rs.                                *)
(***************************************************************************)
EXTENDS Rlwe, Sequences, FiniteSets

CONSTANTS
  Secrets,     \* secret keys, of small coefficients
  Batches,     \* N messages each
  Mask, Seeds, \* the polynomials that seeds expand to: a function from 0 .. Seeds - 1
  Noise        \* errors of size at most one

VARIABLES
  secret,
  kG, kH, packingKs,  \* key-switching matrices
  lwes, rlwes,        \* the inputs, by message: the rlwes have constants as plaintexts
  plain,              \* history: the messages
  precomp,            \* a PackingPrecomputation
  call,               \* the operation in progress
  current,            \* the intermediate ciphertext: a sequence of a and a b
  iter,               \* levels done
  packed              \* the result

inputs == <<secret, kG, kH, packingKs, lwes, rlwes, plain>>
vars == <<inputs, precomp, call, current, iter, packed>>

None == [none |-> TRUE]
ZeroCt == Pair(Zero, Zero)
Log2(n) == CHOOSE l \in 0 .. n : 2 ^ l <= n /\ n < 2 ^ (l + 1)
CeilLog2(n) == CHOOSE l \in 0 .. n : n <= 2 ^ l /\ \A k \in 0 .. l - 1 : 2 ^ k < n

\* galois_generators.
GenG == 3
GenH == 2 * N - 1

KeyMasks(i) == [k \in DigitIdx |-> Mask[(i + k) % Seeds]]
LweKey == FromRlwe(secret)

Init ==
  /\ secret \in Secrets
  /\ \E e \in Noise :
       LET errors == [k \in DigitIdx |-> e] IN
         /\ kG = AutomorphismKs(secret, GenG, KeyMasks(0), errors)
         /\ kH = AutomorphismKs(secret, GenH, KeyMasks(1), errors)
         /\ packingKs = KsMatrix(LweKey, secret, KeyMasks(2), errors)
  /\ \E n \in 0 .. N, m \in Batches, e \in Noise, seed \in 0 .. Seeds - 1 :
       /\ plain = [k \in 0 .. n - 1 |-> m[k]]
       /\ lwes = [k \in 0 .. n - 1 |-> LweEncrypt(LweKey, m[k], Mask[(seed + k) % Seeds], e[0])]
       /\ rlwes = [k \in 0 .. n - 1 |->
                     Encrypt(secret, Constant(m[k]), Mask[(seed + k) % Seeds], e)]
  /\ precomp = None /\ call = "none" /\ current = None /\ iter = 0 /\ packed = None

Messages == DOMAIN plain
Count == Cardinality(Messages)
-----------------------------------------------------------------------------
\* The sum of f over the messages.
SumOver(n, f(_)) ==
  LET sum[k \in 0 .. n] == IF k = 0 THEN Zero ELSE Plus(sum[k - 1], f(k - 1)) IN sum[n]

Intermediate(a, b) == [a |-> a, b |-> b]

\* transform_at_slot, and aggregate of what it makes of every ciphertext.
AtSlot(lwe, slot) ==
  Intermediate([j \in 1 .. N |-> Scaled(Monomial(slot), lwe.a[j - 1])],
               Scaled(Monomial(slot), lwe.b))
Aggregate(cts) ==
  LET n == Cardinality(DOMAIN cts)
  IN  Intermediate([j \in 1 .. N |-> SumOver(n, LAMBDA k : AtSlot(cts[k], k).a[j])],
                   SumOver(n, LAMBDA k : AtSlot(cts[k], k).b))

\* collapse_one: the last a goes into b and, what the matrix makes of it, the first a.
CollapseOne(ct, matrix) ==
  LET k == Len(ct.a)
      absorbed == KeySwitch(Pair(ct.a[k], ct.b), matrix)
  IN  Intermediate(IF k = 1 THEN (IF absorbed.a = Zero THEN <<>> ELSE <<absorbed.a>>)
                   ELSE [SubSeq(ct.a, 1, k - 1) EXCEPT ![1] = Plus(@, absorbed.a)],
                   absorbed.b)

\* apply_automorphism_to_intermediate, shift_intermediate and add_intermediates.
Combined(ct, g, rho) ==
  LET moved(p) == Plus(p, Times(Automorphism(p, g), Monomial(rho)))
  IN  Intermediate([j \in DOMAIN ct.a |-> moved(ct.a[j])], moved(ct.b))

\* collapse_iteration.
Iteration(ct, rho) == CollapseOne(Combined(ct, GenG, rho), kG)

\* key_switch_absorb of every a in turn, onto c.
AbsorbAll(as, c, matrix) ==
  LET ct[j \in 0 .. Len(as)] ==
        IF j = 0 THEN c
        ELSE LET absorbed == KeySwitch(Pair(as[j], ct[j - 1].b), matrix)
             IN  Pair(Plus(ct[j - 1].a, absorbed.a), absorbed.b)
  IN  ct[Len(as)]

\* final_collapse, and how collapse_partial ends.
FinalCollapse(ct) ==
  LET switched == CollapseOne(Combined(ct, GenH, 0), kH)
  IN  IF switched.a = <<>> THEN Pair(Zero, switched.b)
      ELSE AbsorbAll(Tail(switched.a), Pair(Head(switched.a), switched.b), kH)
FinalPartial(ct) == AbsorbAll(ct.a, Pair(Zero, ct.b), kG)
-----------------------------------------------------------------------------

\* mul_rlwe_by_monomial.
Shifted(c, k) == CtTimes(c, Monomial(k))
\* pack_rlwe_coeffs.
ShiftAndAdd(cts) ==
  Pair(SumOver(Count, LAMBDA k : Shifted(cts[k], k).a),
       SumOver(Count, LAMBDA k : Shifted(cts[k], k).b))

\* Mutant: the vector is taken backwards, with its signs.
NegacyclicPermUnsigned(a) == [i \in Idx |-> a[(N - i) % N]]

\* negacyclic_perm, and lwe_to_rlwe_keyswitch.
NegacyclicPerm(a) == [i \in Idx |-> IF i = 0 THEN a[0] ELSE (-a[N - i]) % Q]
LweSwitched(c) == KeySwitch(Pair(NegacyclicPerm(c.a), Constant(c.b)), packingKs)
-----------------------------------------------------------------------------
Begin(name) == call = "none" /\ call' = name
Collapsing(ct) ==
  /\ current' = ct /\ iter' = 0
  /\ UNCHANGED <<inputs, precomp, packed>>
Return(ct) ==
  /\ packed' = ct
  /\ UNCHANGED <<inputs, precomp, current, iter>>

\* pack takes exactly d ciphertexts.
Pack == Begin("pack") /\ Count = N /\ Collapsing(Aggregate(lwes))

\* partial_pack takes at most half of that, and none at all.
PartialPack ==
  /\ Begin("partial") /\ Count <= N \div 2
  /\ IF Count = 0 THEN Return(ZeroCt) ELSE Collapsing(Aggregate(lwes))

\* Mutant: the ciphertexts are taken with their b.
OfflineInputsWithB == lwes

\* dummy_lwes: the a vectors, each with a b of zero.
OfflineInputs == [k \in Messages |-> Pair(lwes[k].a, 0)]

PrecomputePacking ==
  /\ call = "none" /\ precomp = None /\ Count > 0
  /\ precomp' = [aggregate |-> Aggregate(OfflineInputs), n |-> Count]
  /\ UNCHANGED <<inputs, call, current, iter, packed>>

\* pack_online, up to the collapse: the b values are placed without a transform.
OnlineAggregate(bValues) ==
  Intermediate(precomp.aggregate.a,
               Plus(precomp.aggregate.b,
                    [i \in Idx |-> IF i \in DOMAIN bValues THEN bValues[i] ELSE 0]))
PackOnline ==
  /\ precomp # None /\ Begin("online")
  /\ Collapsing(OnlineAggregate([k \in Messages |-> lwes[k].b]))

Levels == IF call = "partial" THEN CeilLog2(Count) ELSE Log2(N)

\* One level of collapse or collapse_partial; compute_rotation_param halves.
Collapse ==
  /\ current # None /\ packed = None /\ iter < Levels
  /\ LET width == IF call = "partial" THEN Count ELSE N
     IN  current' = Iteration(current, width \div 2 ^ (iter + 1))
  /\ iter' = iter + 1
  /\ UNCHANGED <<inputs, precomp, call, packed>>

Finish ==
  /\ current # None /\ packed = None /\ iter = Levels
  /\ packed' = IF call = "partial" THEN FinalPartial(current) ELSE FinalCollapse(current)
  /\ UNCHANGED <<inputs, precomp, call, current, iter>>

PackRlweCoeffs == Begin("coeffs") /\ Return(ShiftAndAdd(rlwes))
PackLweToRlwe == Begin("lwes") /\ Return(ShiftAndAdd([k \in Messages |-> LweSwitched(lwes[k])]))

Returned == packed # None /\ UNCHANGED vars

Next ==
  \/ Pack \/ PartialPack \/ PrecomputePacking \/ PackOnline \/ Collapse \/ Finish
  \/ PackRlweCoeffs \/ PackLweToRlwe \/ Returned

Spec == Init /\ [][Next]_vars
-----------------------------------------------------------------------------
Wrap == Q % P

\* pack_rlwe_coeffs: ciphertexts that hold their message in coefficient 0 only come
\* out side by side, each shift signing what it carries past the end.
ShiftedColumnsDecrypt ==
  /\ call = "coeffs"
  /\ 2 * (N + Wrap) < Delta
  => \A k \in Messages : Decrypt(packed, secret)[k] = plain[k]

\* lwe_to_rlwe_keyswitch: an extracted ciphertext goes back to a ring ciphertext with
\* its message in coefficient 0, under the key it was extracted from.
ExtractionUndone ==
  /\ call = "lwes" /\ Count = 1
  /\ 2 * (1 + Digits * N * (Base - 1) + Wrap) < Delta
  => Decrypt(packed, secret)[0] = plain[0]

\* precompute_packing and pack_online: the split collapses what pack would collapse,
\* although the one half saw no b and the other no a.
OnlineAgrees ==
  call = "online" /\ iter = 0 => current = Aggregate(lwes)
=============================================================================
