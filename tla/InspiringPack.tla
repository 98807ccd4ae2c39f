--------------------------- MODULE InspiringPack ----------------------------
(***************************************************************************)
(* inspiring/inspiring2.rs: packing gamma columns into one ciphertext. The *)
(* server rotates a public mask and folds the columns' a sides by a        *)
(* backward recursion, offline; the client's keys are rotated likewise and *)
(* complete the result, online. A polynomial and its transform are one     *)
(* value here, and the two vectors that hold them are kept apart.          *)
(***************************************************************************)
EXTENDS Rlwe, Sequences

CONSTANTS
  Widths,      \* gamma of partial packings
  WithFull,    \* whether full packings are tried too
  Secrets,     \* secret keys, of small coefficients
  Batches,     \* plaintext polynomials of N columns
  Mask, Seeds, \* the polynomials that seeds expand to: a function from 0 .. Seeds - 1
  Noise        \* error polynomials of size at most one

WidthAssumption == \A gamma \in Widths : 2 * gamma <= N /\ N % gamma = 0

VARIABLES
  secret,
  pack,        \* PackParams
  column, plain, \* the ciphertexts to pack and, as history, what they carry
  server,      \* OfflinePackingKeys
  client,      \* ClientPackingKeys
  rAll,        \* r_all and r_bar_all, by branch
  at,          \* the recursion's index
  boldT,       \* bold_t and bold_t_bar, by branch
  precomp,     \* what packing_offline returns
  packed

params == <<secret, pack, column, plain, server>>
offline == <<rAll, at, boldT>>
vars == <<params, client, offline, precomp, packed>>

None == <<>>
SumTo(n, f(_)) ==
  LET sum[i \in 0 .. n] == IF i = 0 THEN Zero ELSE Plus(sum[i - 1], f(i - 1))
  IN  sum[n]

\* build: the powers of the generator.
GenPows(g) ==
  LET pow[i \in Idx] == IF i = 0 THEN 1 ELSE (pow[i - 1] * g) % (2 * N)
  IN  [i \in Idx |-> pow[i]]

\* try_new and try_new_full; the generator is 5, and the conjugates come on top, when
\* all coefficients are packed.
PackParams(gamma, full) ==
  [gamma |-> gamma, full |-> full,
   genPows |-> GenPows(IF full THEN 5 ELSE (2 * N) \div gamma + 1),
   modInvGamma |-> CHOOSE x \in Residue : (x * gamma) % Q = 1,
   steps |-> IF full THEN N \div 2 ELSE gamma,
   branches |-> IF full THEN {1, -1} ELSE {1}]

\* The Galois element of step i, of the branch or of its conjugate.
Element(p, branch, i) == (branch * p.genPows[i]) % (2 * N)

\* generate_rotations, and the loops of generate and generate_full.
Rotations(p, branch, body) ==
  [i \in 0 .. p.steps - 2 |-> [k \in DigitIdx |-> Automorphism(body[k], Element(p, branch, i))]]

\* generate_mask_from_seed.
MaskFromSeed(seed) == [k \in DigitIdx |-> Mask[(seed + k) % Seeds]]

\* Mutant: the rotations of the step that follows.
OfflinePackingKeysAhead(p, w, v) ==
  [wAll |-> [b \in p.branches |->
               [i \in 0 .. p.steps - 2 |->
                  [k \in DigitIdx |-> Automorphism(w[k], Element(p, b, i + 1))]]],
   vMask |-> v]

\* OfflinePackingKeys::generate, generate_full.
OfflinePackingKeys(p, w, v) ==
  [wAll |-> [b \in p.branches |-> Rotations(p, b, w)], vMask |-> v]

\* generate_ksk_body: each power of the base times the image of the key, under the key.
KskBody(s, g, mask, errors) ==
  [k \in DigitIdx |->
     Plus(Minus(Scaled(ImageKey(s, g), Power(k)), Times(s, mask[k])), errors[k])]

\* ClientPackingKeys::generate, generate_full.
ClientPackingKeys(p, s, w, v, e) ==
  LET body == KskBody(s, p.genPows[1], w, [k \in DigitIdx |-> e])
      all == Rotations(p, 1, body)
  IN  [yBody |-> body, yAll |-> all, yAllNtt |-> all,
       zBody |-> IF p.full THEN KskBody(s, 2 * N - 1, v, [k \in DigitIdx |-> e]) ELSE None,
       yBarAll |-> IF p.full THEN Rotations(p, -1, body) ELSE None]

Init ==
  /\ secret \in Secrets
  /\ \/ \E gamma \in Widths : pack = PackParams(gamma, FALSE)
     \/ WithFull /\ pack = PackParams(N, TRUE)
  /\ \E m \in Batches, seed \in 0 .. Seeds - 1, e \in Noise :
       /\ plain = m
       /\ column = [j \in 0 .. pack.gamma - 1 |->
            Encrypt(secret, m[j], Mask[(seed + j) % Seeds], e)]
       /\ server = OfflinePackingKeys(pack, MaskFromSeed(seed), MaskFromSeed(seed + 1))
       /\ client = ClientPackingKeys(pack, secret, MaskFromSeed(seed), MaskFromSeed(seed + 1), e)
  /\ rAll = None /\ at = 0 /\ boldT = None /\ precomp = None /\ packed = None
-----------------------------------------------------------------------------
(* Offline                                                                 *)

\* R[i]: the columns moved to their places, and the automorphism of the sum.
Aggregate(branch, i) ==
  Automorphism(
    Scaled(SumTo(pack.gamma, LAMBDA j :
             Times(Monomial((branch * j * pack.genPows[(N - i) % N]) % (2 * N)), column[j].a)),
           pack.modInvGamma),
    Element(pack, branch, i))

StartOffline ==
  /\ rAll = None
  /\ rAll' = [b \in pack.branches |-> [i \in 0 .. pack.steps - 1 |-> Aggregate(b, i)]]
  /\ at' = pack.steps - 1
  /\ boldT' = [b \in pack.branches |-> [i \in 0 .. pack.steps - 2 |-> None]]
  /\ UNCHANGED <<params, client, precomp, packed>>

DigitsOf(p) == [k \in DigitIdx |-> Digit(p, k)]

\* One step back: the digits of R[i + 1] meet the mask rotated by step i.
Recur ==
  /\ rAll # None /\ at > 0 /\ precomp = None
  /\ at' = at - 1
  /\ boldT' = [b \in pack.branches |-> [boldT[b] EXCEPT ![at'] = DigitsOf(rAll[b][at])]]
  /\ rAll' = [b \in pack.branches |->
       [rAll[b] EXCEPT ![at'] =
          Plus(@, DigitSum(LAMBDA k : Times(boldT'[b][at'][k], server.wAll[b][at'][k])))]]
  /\ UNCHANGED <<params, client, precomp, packed>>

\* The end of packing_offline, and of full_packing_offline, where the conjugate branch
\* joins the other.
EndOffline ==
  /\ rAll # None /\ at = 0 /\ precomp = None
  /\ LET hat == DigitsOf(rAll[-1][0])
         joined == Plus(rAll[1][0], DigitSum(LAMBDA k : Times(hat[k], server.vMask[k])))
     IN  precomp' = [aHat |-> IF pack.full THEN joined ELSE rAll[1][0],
                     boldT |-> boldT[1], boldTNtt |-> boldT[1],
                     boldTBar |-> IF pack.full THEN boldT[-1] ELSE None,
                     boldTHat |-> IF pack.full THEN hat ELSE None]
  /\ UNCHANGED <<params, client, offline, packed>>

\* A precomputation that is stored and read again has lost its transforms.
Reload ==
  /\ precomp # None /\ packed = None
  /\ precomp' = [precomp EXCEPT !.boldTNtt = None]
  /\ UNCHANGED <<params, client, offline, packed>>

EnsureNttCached ==
  /\ precomp # None /\ packed = None
  /\ precomp' = [precomp EXCEPT !.boldTNtt = IF @ = None THEN precomp.boldT ELSE @]
  /\ UNCHANGED <<params, client, offline, packed>>
-----------------------------------------------------------------------------
(* Online                                                                  *)

\* The wire drops the rotations in both forms; a caller that builds the keys may leave
\* out either.
Drop ==
  /\ packed = None
  /\ \E kept \in SUBSET {"yAll", "yAllNtt"} :
       client' = [client EXCEPT !.yAll = IF "yAll" \in kept THEN @ ELSE None,
                                !.yAllNtt = IF "yAllNtt" \in kept THEN @ ELSE None,
                                !.yBarAll = None]
  /\ UNCHANGED <<params, offline, precomp, packed>>

\* ensure_server_derivatives.
WithDerivatives(keys) ==
  IF keys.yAll # None /\ keys.yAllNtt # None THEN keys
  ELSE LET all == IF keys.yAll = None THEN Rotations(pack, 1, keys.yBody) ELSE keys.yAll
       IN  [keys EXCEPT !.yAll = all, !.yAllNtt = IF @ = None THEN all ELSE @]

EnsureServerDerivatives ==
  /\ packed = None
  /\ client' = WithDerivatives(client)
  /\ UNCHANGED <<params, offline, precomp, packed>>

\* packing_online and its two variants: steps for which either vector is short are
\* passed over.
Online(y, t) ==
  LET common == {i \in 0 .. pack.gamma - 2 : i \in DOMAIN y /\ i \in DOMAIN t}
      term(i) == IF i \in common THEN DigitSum(LAMBDA k : Times(y[i][k], t[i][k])) ELSE Zero
      b == [j \in Idx |-> IF j \in DOMAIN column THEN column[j].b[0] ELSE 0]
  IN  Pair(precomp.aHat, Plus(b, SumTo(pack.gamma - 1, term)))

Answer(y, t) ==
  /\ precomp # None /\ packed = None /\ ~pack.full
  /\ packed' = Online(y, t)
  /\ UNCHANGED <<params, client, offline, precomp>>

\* respond_inspiring: rotations that are not there are derived.
PackingOnline ==
  Answer(IF client.yAll = None THEN Rotations(pack, 1, client.yBody) ELSE client.yAll,
         precomp.boldT)

PackingOnlineNtt == client.yAllNtt # None /\ Answer(client.yAllNtt, precomp.boldT)

\* respond_inspiring_cached_with_session, when the session's keys are complete. With
\* transforms missing on the other side it would add nothing, so callers restore them.
PackingOnlineFullyNtt ==
  /\ client.yAll # None /\ client.yAllNtt # None
  /\ precomp # None => precomp.boldTNtt # None
  /\ Answer(client.yAllNtt, precomp.boldTNtt)

Returned == packed # None /\ UNCHANGED vars

Next ==
  \/ StartOffline \/ Recur \/ EndOffline \/ Reload \/ EnsureNttCached
  \/ Drop \/ EnsureServerDerivatives
  \/ PackingOnline \/ PackingOnlineNtt \/ PackingOnlineFullyNtt \/ Returned

Spec == Init /\ [][Next]_vars
-----------------------------------------------------------------------------
SwitchNoise == Digits * N * (Base - 1)
Image(branch, i) == Automorphism(secret, Element(pack, branch, i))

\* What the client's rotations add for the digits of step i.
Completed(branch, i) ==
  DigitSum(LAMBDA k : Times(Automorphism(client.yBody[k], Element(pack, branch, i)),
                            boldT[branch][i][k]))

\* packing_offline, full_packing_offline: at each step of the recursion R[i], with what
\* the client's rotations will add, stands for all the R[i'] from i on, each under its
\* own image of the key.
RecursionCarries ==
  rAll # None /\ precomp = None =>
    \A b \in pack.branches :
      LET past == pack.steps - 1 - at
          held == Plus(Times(rAll[b][at], Image(b, at)),
                       SumTo(past, LAMBDA i : Completed(b, at + i)))
          meant == SumTo(past + 1, LAMBDA i : Times(Aggregate(b, at + i), Image(b, at + i)))
      IN  LargestSize(Minus(held, meant)) <= past * SwitchNoise

Room(steps) == 2 * (1 + steps * SwitchNoise) < Delta

\* packing_online, by every way to it: column j comes out at coefficient j.
PackedDecrypts ==
  packed # None /\ Room(pack.gamma - 1) =>
    \A j \in DOMAIN column : Decrypt(packed, secret)[j] = plain[j][0]

\* full_packing_offline: with all of the client's keys the result carries every column.
FullCompletes ==
  precomp # None /\ pack.full /\ Room(N - 1) =>
    LET steps == pack.steps - 1
        bar == SumTo(steps, LAMBDA i : Completed(-1, i))
        hat == DigitSum(LAMBDA k : Times(client.zBody[k], precomp.boldTHat[k]))
        b == [j \in Idx |-> column[j].b[0]]
        all == Plus(Plus(b, SumTo(steps, LAMBDA i : Completed(1, i))), Plus(bar, hat))
    IN  \A j \in Idx : Decrypt(Pair(precomp.aHat, all), secret)[j] = plain[j][0]
=============================================================================
