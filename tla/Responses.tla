----------------------------- MODULE Responses -----------------------------
(***************************************************************************)
(* What the server's respond functions answer to a query, and what the     *)
(* client's extract functions read in the answer, as pure operators.       *)
(*                                                                         *)
(* A ciphertext is reduced to what its client decrypts it to: a plaintext  *)
(* per coefficient, or Junk where the algebra leaves no decodable value    *)
(* (a key switch under another secret, a mask of another seed, a           *)
(* coefficient that holds other records). Noise is assumed to be within    *)
(* the decoding radius. The record queried exists in every database.       *)
(***************************************************************************)
EXTENDS SessionKeys, Integers, Sequences

CONSTANTS
  RingDim,     \* d
  PlainMod,    \* the plaintext modulus p
  Columns,     \* Columns[g]: 16-bit columns of a record of setup g
  Published,   \* Published[g]: inspiring_num_columns in the CRS of setup g
  GadgetLen,   \* GadgetLen[g]: params.gadget_len of setup g
  SetupKey,    \* SetupKey[g]: the secret key setup g returns
  Record,      \* Record[g]: column values of the queried record in database g
  NoSetup      \* no setup

\* setup fixes the width at the column count; a CRS that publishes 0 offers tree
\* packing only (ServerCrs::validate). A column value is a plaintext.
ASSUME SetupAssumption ==
  /\ RingDim \in Nat \ {0} /\ PlainMod \in Nat \ {0}
  /\ Columns \in [Seeds -> Widths]
  /\ Published \in [Seeds -> Nat]
  /\ \A g \in Seeds : Columns[g] <= RingDim /\ Published[g] \in {0, Columns[g]}
  /\ GadgetLen \in [Seeds -> Digits]
  /\ SetupKey \in [Seeds -> SecretKeys]
  /\ Record \in [Seeds -> Seq(0 .. PlainMod - 1)]
  /\ \A g \in Seeds : Len(Record[g]) = Columns[g]
  /\ NoSetup \notin Seeds

\* No packing keys, and no handle: values that no keys and no handle have.
NoKeys == [width |-> 0]
NoHandle == -1
-----------------------------------------------------------------------------
(* Packing keys and queries                                                *)

\* PackParams::try_new(crs.params, width), and the geometry the guard compares.
PackParams(g) == [width |-> Columns[g], digits |-> GadgetLen[g]]

\* ClientPackingKeys::generate, run only when the CRS publishes a width. There is
\* no rotation for a width of one.
GenerateKeys(g, sk) ==
  IF Published[g] = 0 THEN NoKeys
  ELSE [sk |-> sk, seed |-> g, width |-> Columns[g], digits |-> GadgetLen[g],
        derived |-> Columns[g] > 1]

\* Serialized keys, if there are any.
OnTheWire(keys) == IF keys = NoKeys THEN NoKeys ELSE StripDerived(keys)

\* A handle replaces the inlined keys; the mode says whether the client has keys.
\* seeded: a SeededClientQuery, which expands into the same query.
Query(sk, keys, handle, seeded) ==
  [sk |-> sk,
   mode |-> IF keys = NoKeys THEN "tree" ELSE "inspiring",
   keys |-> IF handle = NoHandle THEN OnTheWire(keys) ELSE NoKeys,
   handle |-> handle,
   seeded |-> seeded]
-----------------------------------------------------------------------------
(* Plaintexts                                                              *)

Coeffs == 0 .. RingDim - 1
Junk == PlainMod
Plain == 0 .. PlainMod - 1

Scaled(v, a) == IF v = Junk THEN Junk ELSE (v * a) % PlainMod

AllJunk == [k \in Coeffs |-> Junk]

\* ServerResponse: the combined ciphertext, the per-column ciphertexts (by their
\* constant term) and the packing_mode tag; or the error the server returns.
Response(coeffs, columns, tag) ==
  [ok |-> TRUE, coeffs |-> coeffs, columns |-> columns, tag |-> tag]
Failure(why) == [ok |-> FALSE, why |-> why]

Refusals == {"width mismatch", "keys missing", "unknown handle", "both",
             "needs a seeded query"}
-----------------------------------------------------------------------------
(* The respond functions. g is the setup the server serves, q the query.   *)

\* A ciphertext of one column: its value on the constant term, other records of the
\* shard or nothing decodable on the rest.
OneColumn(g) == [k \in Coeffs |-> IF k = 0 THEN Record[g][1] ELSE Junk]

\* respond: the rotated columns, and their sum, which is no column's value unless
\* there is only one.
Respond(q, g) ==
  Response(IF Columns[g] = 1 THEN OneColumn(g) ELSE AllJunk, Record[g], "none")

TreePackedUnscaled(q, g) ==   \* mutated form: no scaling of the b values
  IF q.sk # SetupKey[g] THEN AllJunk
  ELSE [k \in Coeffs |-> IF k < Columns[g] THEN Record[g][k + 1] ELSE 0]

\* pack_lwes: one element skips the tree and its scaling by d. The tree switches
\* keys with the Galois keys of the CRS, made from the setup's secret key.
TreePacked(q, g) ==
  IF Columns[g] = 1 THEN OneColumn(g)
  ELSE IF q.sk # SetupKey[g] THEN AllJunk
  ELSE [k \in Coeffs |-> IF k < Columns[g] THEN Scaled(Record[g][k + 1], RingDim) ELSE 0]

\* respond_one_packing.
RespondOnePacking(q, g) == Response(TreePacked(q, g), <<>>, "none")

\* Packing with the parameters and masks of setup pack is right when the rotations
\* were made from the query's secret key and the same mask; a width of one rotates
\* nothing. Columns past the width fold onto those below it.
Aligned(q, keys, pack) ==
  Columns[pack] = 1 \/ (keys.sk = q.sk /\ keys.seed = pack)

InspiringPacked(q, keys, pack, g) ==
  IF Columns[g] > Columns[pack] \/ ~Aligned(q, keys, pack) THEN AllJunk
  ELSE [k \in Coeffs |-> CASE k < Columns[g] -> Record[g][k + 1]
                           [] k \in Columns[g] .. Columns[pack] - 1 -> 0
                           [] OTHER -> Junk]

PackInspiringUnguarded(q, keys, pack, g) ==   \* mutated form: no geometry guard
  Response(InspiringPacked(q, keys, pack, g), <<>>, "inspiring")

\* The common end of the InspiRING paths: the geometry guard, then packing_online.
PackInspiring(q, keys, pack, g) ==
  IF ~PackingWidthMatches(keys, PackParams(pack)) THEN Failure("width mismatch")
  ELSE Response(InspiringPacked(q, keys, pack, g), <<>>, "inspiring")

\* respond_inspiring (pack = the serving setup) and respond_inspiring_cached (pack =
\* the setup of the cache) take inlined keys only.
RespondInspiring(q, pack, g) ==
  IF q.keys = NoKeys THEN Failure("keys missing") ELSE PackInspiring(q, q.keys, pack, g)

\* respond_inspiring_cached_with_session: exactly one of inlined keys and handle.
RespondWithSession(q, pack, table, g) ==
  CASE q.keys # NoKeys /\ q.handle = NoHandle -> PackInspiring(q, q.keys, pack, g)
    [] q.keys = NoKeys /\ q.handle # NoHandle ->
         IF q.handle \notin DOMAIN table THEN Failure("unknown handle")
         ELSE PackInspiring(q, table[q.handle], pack, g)
    [] q.keys # NoKeys /\ q.handle # NoHandle -> Failure("both")
    [] OTHER -> Failure("keys missing")

Variants == {"NoPacking", "OnePacking", "TwoPacking"}

\* respond_with_variant and respond_seeded_with_variant.
RespondWithVariant(q, variant, g) ==
  CASE variant = "NoPacking" -> Respond(q, g)
    [] variant = "TwoPacking" /\ ~q.seeded -> Failure("needs a seeded query")
    [] OTHER -> IF q.mode = "tree" THEN RespondOnePacking(q, g)
                ELSE RespondInspiring(q, g, g)
-----------------------------------------------------------------------------
(* The extract functions. n is the client's column count; the result is    *)
(* the values the entry is rebuilt from, missing ones being zero.          *)

\* The error of mod_inverse: no values.
NotInvertible == <<>>

\* extract, which repeats the constant term when there are no column ciphertexts.
Extract(r, n) ==
  [i \in 1 .. n |-> IF r.columns = <<>> THEN r.coeffs[0]
                    ELSE IF i <= Len(r.columns) THEN r.columns[i]
                    ELSE 0]

\* mod_inverse(d, p), by what it returns.
IsInverse(x) == (x * RingDim) % PlainMod = 1 % PlainMod

\* extract_packed.
ExtractPacked(r, n) ==
  IF \A x \in Plain : ~IsInverse(x) THEN NotInvertible
  ELSE LET dInv == CHOOSE x \in Plain : IsInverse(x)
       IN  [i \in 1 .. n |-> Scaled(r.coeffs[i - 1], dInv)]

ExtractInspiringScaled(r, n) == ExtractPacked(r, n)   \* mutated form: divides by d

\* extract_inspiring.
ExtractInspiring(r, n) == [i \in 1 .. n |-> r.coeffs[i - 1]]

ExtractTwoPackingUntagged(r, n) == ExtractPacked(r, n)   \* mutated form: ignores the tag

\* extract_two_packing, by the tag of the response.
ExtractTwoPacking(r, n) ==
  IF r.tag = "inspiring" THEN ExtractInspiring(r, n) ELSE ExtractPacked(r, n)

\* extract_with_variant.
ExtractWithVariant(r, n, variant) ==
  CASE variant = "NoPacking" -> Extract(r, n)
    [] variant = "OnePacking" -> ExtractPacked(r, n)
    [] variant = "TwoPacking" -> ExtractTwoPacking(r, n)
=============================================================================
