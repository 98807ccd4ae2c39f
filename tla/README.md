# TLA+ models of raven-inspire

Models, model-checking configurations and machine-checked proofs for the
private information retrieval library in `src/src`. A client asks a server for
one entry of a database without saying which: it encrypts a rotation of the
shard's polynomials, the server applies it homomorphically to every column of
the shard, packs the columns into one ciphertext, and the client decrypts.

There are two layers. The upper one models what decides *which bytes a client
reads*: which keys the server pairs with which masks, which shard and
coefficient hold an entry, who scales what, and what is still valid after a
registration, a restart, a change of the CRS or a swap of the database. There a
ciphertext is what it decrypts to. The lower one models the algebra that
justifies this, with its noise: words, transforms, polynomials, ciphertexts,
key switching, the two packings, the switch of the modulus, and the parameters
that all of it needs. There ciphertexts are pairs of polynomials over small
rings. That ciphertexts hide what they carry is not modelled.

## The system

| Part | Source | State | Operations | What makes it correct |
|---|---|---|---|---|
| Server session store | `pir/session.rs` | map from handles to packing keys, next handle, a `RwLock` | `register`, `register_server_side`, `get`, `len` | a handle names the keys registered under it; calls look atomic; none is stuck |
| Client session | `pir/session.rs` | CRS, secret key, packing keys, handle | `new`, `register_with`, `register_with_server_derivation`, `query`, `query_seeded`, `to_residue`, `from_residue` | a query carries exactly one of keys and handle, and keys of its own secret |
| Query construction | `pir/query.rs` | none | `query`, `query_seeded`, `expand` | shard in the clear, rotation for the local index |
| Respond paths | `pir/respond.rs` | none (the cache is the caller's) | `respond`, `respond_one_packing`, `respond_inspiring`, the cached, session and seeded forms, the two variant dispatchers | refuse mismatched keys; answer in the form the reader expects |
| InspiRING cache | `pir/respond.rs` | pack parameters and offline masks | `new`, `from_parts` | of the CRS and the column count it is used with |
| Extraction | `pir/extract.rs` | none | `extract`, `extract_with_variant`, `extract_two_packing`, `extract_inspiring` | inverse of what the server did |
| Setup and CRS | `pir/setup.rs` | CRS, encoded database | `setup_with_rng`, `validate`, `from_versioned_bytes` | legal width, gadget that covers q |
| Database encoding | `pir/encode_db.rs` | the locals of a loop | `encode_database`, `inverse_monomial`, `reconstruct_entry` | every entry where `index_to_shard` looks for it |
| Shard configuration | `params.rs` | three numbers | `for_ring_dim`, `for_flat_db`, `num_shards`, `index_to_shard`, `validate` | the shard count and the coordinates agree with the encoder |
| Parameters | `params.rs` | the parameter record | `validate`, `min_gadget_len`, adaptive derivation | refuse what the algebra cannot use |
| InspiRING packing | `inspiring/inspiring2.rs` | rotations, masks, automorphism tables | `generate`, `packing_offline`, `packing_online`, `ensure_server_derivatives`, `generate_automorph_tables` | each column lands at its coefficient |
| Tree packing | `inspiring/automorph_pack.rs` | none | `pack_lwes`, `pack_rlwes_tree`, `pack_single_lwe` | the same, scaled by d |
| Legacy packing | `inspiring/{collapse,collapse_one,transform,pack,simple_pack}.rs` | a precomputation | `pack`, `partial_pack`, `pack_online`, `pack_rlwe_coeffs`, `pack_lwe_to_rlwe` | message i at coefficient i; no respond path calls it |
| Ciphertexts | `lwe/`, `rlwe/`, `rgsw/`, `ks/` | none | encryption, sums, products with plaintexts and RGSW rows, automorphisms, key switching, extraction | the error stays within its growth, decryption within its room |
| NTT and polynomials | `math/ntt.rs`, `math/poly.rs`, `math/crt.rs` | a polynomial with its domain and moduli | transforms, ring operations, the wire form | residues of one polynomial of the ring, in either domain |
| Modular arithmetic | `math/{modular,mod_q,solinas_redc,ifma52}.rs` | none | Montgomery, Solinas, split words, reduction of samples | reduced, exact modulo q |
| Sampling | `math/gaussian.rs` | a generator | `sample`, `sample_centered` | decides as the floats do, returns |
| Modulus switching | `pir/mod_switch.rs` | none | gate, switch, packed wire form, reader | error within the decoding radius |
| Polynomial evaluation | `pir/eval_poly.rs` | none | Horner, selection by bits, points | not on a query path |
| Cost model, errors | `cost.rs`, `pir/error.rs` | none | | not on a query path |

How they interact. `setup_with_rng` produces the CRS, the encoded database and
a secret key. A `ClientSession` copies the CRS, generates packing keys, and may
hand them to the `ServerSessionStore` for a handle that replaces them in every
later query. A respond function takes the CRS, the database, the query and, in
the cached forms, a `ServerInspiringCache` and the store: four pieces of server
state that the *caller* keeps in step. The store is the only state that threads
share, behind a lock; everything else is a value that can be stale.

What is hard to test here: registrations that overlap; a handle that outlives
its store; a client, a cache and a database of different setups, which the
geometry guard sees only when widths or gadgets differ; an answer whose form
is chosen in one place and read in another; the last shard, the last shard id
and the last byte of an odd entry; a query answered after a swap. Below that, it is words near their
limit, orders of levels, rotations and powers that all give *some* residues, two
moduli where the tests have one, sizes that are no power of two, and errors that
a random test does not drive to their bound. A mistake in any of these is not an
error but wrong bytes with a success status. Each is listed with its line in
`PROJECT.json` under `hazards`.

## Modules

* `SessionKeys` - packing keys reduced to what the store and the guard tell
  apart (secret key, seed, width, digits, whether the rotations are there), the
  guard `ensure_packing_width_matches`, `ensure_server_derivatives`, and the
  calls and answers of the store.
* `SessionRegistry` - the abstract specification of the store: each call takes
  effect at one instant; a registration gets a handle above all those in use
  while there is one.
* `SessionStore` - the store as threads run it. Every statement that touches
  the shared state is a step: the guard check, the acquisition, the read and
  the advance of the counter, the insertion, the release. `Successor` is
  `checked_add(1).unwrap_or(0)`; `HandleSpace` is the number of `u64` values.
  `issued` and `granted` are history variables for the properties. It is shown
  to implement `SessionRegistry` with `table <- byHandle`.
* `Responses` - the respond and extract functions as operators. A ciphertext is
  what its client decrypts it to: a plaintext per coefficient or `Junk`.
  `Aligned` says when packing leaves the columns in place: the rotations come
  from the query's secret key and from the seed of the masks. Tree packing
  needs the secret key of the setup's Galois keys, and scales by d unless there
  is one column. `extract_packed` divides by d, or reports that d has no
  inverse modulo p.
* `PirProtocol` - clients, sessions and the server around `Responses`: change
  of setup, building and restoring the cache, restart, connection, the two
  registrations, persistence through a residue, queries with and without a
  session, and answers by any route. The store is the atomic one, which the
  refinement licenses; handles beyond the handle space are left to
  `SessionStore`. One query is on its way at a time; it may be answered after
  any number of other steps.
* `Sharding` - `ShardConfig` arithmetic, the column split, the rotation, as
  operators. `IdSpace` stands for 2^32 and `WordSpace` for 2^64.
* `EncodeDb` - `encode_database` one loop iteration at a time, the swap of the
  encoded database into service, and a client that queries with a configuration
  of its own and is answered later. `EncodeShard` has both outcomes of the
  `shard_id += 1` overflow, the panic of a debug build and the wrap of a release
  build. A database is a sequence of whole entries: trailing bytes, which both
  `setup` and `encode_database` ignore, are left out.

The lower layer, from the words up:

* `Residues` - the abstract specification of arithmetic: one residue modulo q and
  the operations on it. `ModArith` has the kernels as operators over words of
  `Bits` bits (Montgomery, Solinas, the 52-bit split, Shoup, the reduction of
  signed samples); `ResidueWords` applies them one after the other to a word in
  standard or Montgomery form, and is shown to implement `Residues`.
* `Ntt`, `NttSteps` - the context with its twiddle ladders, and the product of two
  arrays through the transforms, one block of butterflies a step, by each kernel;
  `FiniteSums` has the sums its properties are stated with.
* `RingOps` - the ring of polynomials modulo X^N + 1; `Ring` - registers of ring
  elements, the abstract specification of `Poly`. `Polys` has `Poly` itself, one
  stripe of residues for each modulus and a flag for its domain, the remaindering
  of `crt.rs` and the guard of the wire form; `Polynomials` runs the operations in
  any order and is shown to implement `Ring`.
* `Parameters`, `CrsSteps` - `InspireParams` from each constructor, `validate`
  with the loop of `min_gadget_len` one power a step, setup, the versioned CRS and
  its ingest, `PackParams::try_new`, and a coefficient taken apart into digits and
  recomposed. Words have eight bits. `widened` is a set of moduli given to
  `for_scenario_with_crt`.
* `Rlwe` - LWE, RLWE and RGSW ciphertexts and key switching as operators on pairs
  over `RingOps`; `RlweSteps` - sequences of them on registers, with the plaintext
  and the bound of the error as history.
* `TreePack` - `pack_lwes`, `pack_rlwes_tree` and `pack_single_lwe`. The tree is
  taken level by level, all nodes of a level in a step; the code takes it depth
  first, with the same nodes.
* `InspiringPack` - `packing_offline` one step of the backward recursion at a time,
  the full form with two branches, the three online forms, and the loss and
  rebuilding of derived vectors. A polynomial and its transform are one value;
  the vectors that hold them are kept apart. What `Aligned` in `Responses` takes
  for granted is a result here.
* `AutomorphTables` - the recovery of an automorphism as a permutation of
  transformed values, one drawn polynomial at a time.
* `LegacyPack` - the packing that `pack`, `pack_online` and `simple_pack` do.
* `ModSwitch` - the gate, one or more switches of an answer, the packed wire form
  and the reader. Numbers that the gate has as floats are exact here.
* `Sampler` - the rejection loop. A float is its bit pattern in a small format; the
  exponential is any curve that falls from one.
* `EvalPoly` - Horner's rule, selection and evaluation points.

* `MC*` - constants for TLC, and in the lower layer the parts of a run; `*Proofs` -
  theorems. `ArithmeticLemmas` has what they share: division and residues, induction
  over an interval and the existence of functions defined along one, powers, sums,
  finite sets of arrays.

Actions carry the names of the functions they model; `PROJECT.json` maps each
definition to its lines.

## Runs

| Run | Configuration | What it asks |
|---|---|---|
| `store_threads` | 2 threads, 3 calls each, 4 handles, fair | up to 6 registrations, so the counter wraps: does a handle keep naming its keys until then, does the locked store implement the registry, and does every call return? |
| `protocol` | 2 setups of one geometry, 1 client, 2 secret keys, 1 restart | do current queries read the record, and what may make an answer wrong? |
| `clients` | 2 clients, 1 setup, 1 restart | types, and handles of clients that share a store |
| `geometries` | 3 setups, of other widths and gadgets, one of which publishes no width | does the guard refuse every mismatch it can see, does each variant read back, tree packing of several columns among them? |
| `single_column` | one column | a violation, below |
| `one_packing_inspiring` | a client with keys, OnePacking | a violation, below |
| `encode` | d = 4, 3 shard ids, 0, 5, 12 and 13 entries of 1 or 3 bytes, configurations for d = 3 and d = 8 | layout, shard count, overflow, and what clients read across swaps |
| `arithmetic`: words | every word of 7 bits, moduli 5, 13, 29 | does each kernel reduce, and implement arithmetic modulo q? |
| `arithmetic`: polynomials | moduli 5 and 13, 2 coefficients, 3 operations in a row, records with unreduced words among those decoded | do mixed domains, foreign moduli and decoded records implement a ring, and what is left of a register that unreduced words went into? |
| `moduli`: crs | words of 8 bits, parameters around each check, a decoding limit of 5000 bytes | gadgets, widths, round trips within the limit and beyond it, and widening |
| `moduli`: switch | q = 29 * 37, six targets, two switches, fields of 3 bits for bytes | error, decryption, wire form |
| `moduli`: prime switch | q = 1069 | the identity switch reads back |
| `scheme`: product | 8 coefficients, moduli 17 and 241 (a Solinas prime) | do levels hold remainders, is the end the negacyclic product? |
| `scheme`: tables | the same ring and moduli, five polynomials of which two repeat values | permutations, for each modulus, and all found |
| `scheme`: eval | q = 12289, degrees 0 to 3, 0 to 5 polynomials, 0, 1 and 3 bits, points of orders that are powers of two, primes and neither | values, indices and points |
| `scheme_points` | the same run | a violation, below |
| `scheme`: legacy | q = 4099, up to 4 messages | shifts, extraction, the offline split |
| `scheme`: tree | q = 40961, 1 to 8 columns of 8 coefficients | does each node hold its columns, does the packing decrypt? |
| `scheme`: inspiring | q = 40961, 1, 2, 4 of 8 coefficients, and all 8 | does the recursion keep what the columns say, does every way online decrypt? |
| `noise`: registers | q = 4099, 4 coefficients, 3 operations in a row | does the error stay within its bound, does what has room decrypt? |
| `noise`: sample | floats with one fraction bit, a tail of 2, words of 4 bits | decisions, lifts, and that sampling ends |

The last four runs each check several components of the lower layer that share
no state. `MCArithmetic`, `MCModuli`, `MCScheme` and `MCNoise` extend one or two of
them, instantiate the others, and add a variable `part`, which says whose
behaviour it is and never changes; the variables of the other parts stay as they
are. So a run explores the sum of the state spaces of its parts, not their
product, and a property of a part is that of its module; where the component is
instantiated, it is said of the behaviours of that part. Some join the
invariants of one module that belong together:

| Property of the run | Invariants of the module |
|---|---|
| `RegistersSound` | `Representation`, `DecodedComposes` of `Polynomials` |
| `OwnParametersPass` | `TypeOK`, `OwnCrsAccepted`, `WideningSuffices` of `CrsSteps` |
| `IdentitySwitchReads` | `IdentityReads` of `ModSwitch`, under the prime modulus |
| `TransformsMultiply` | `InRange`, `LevelsHoldRemainders`, `ProductIsNegacyclic` of `NttSteps` |
| `DecryptsRight` | `RlweDecryptsRight`, `LweDecryptsRight` of `RlweSteps` |
| `EvaluatesRight` | `HornerEvaluates`, `SelectsIndexed` of `EvalPoly` |
| `LegacyColumnsDecrypt` | `ShiftedColumnsDecrypt`, `ExtractionUndone` of `LegacyPack` |
| `TreeCarries` | `SubtreesHoldColumns`, `PackedDecrypts`, `ConstantKeptAlone` of `TreePack` |
| `InspiringCarries` | `RecursionCarries`, `PackedDecrypts`, `FullCompletes` of `InspiringPack` |

Why the bounds are enough. In the store, two threads exhaust every pairwise
interleaving of the lock, and the theorems hold for any number of threads. Four
handles are fewer than the six registrations, so the wrap and the overwrite happen. In the
protocol, one client suffices for what an answer reads, as answers depend on one
query; `clients` has two for what depends on the table. Two setups give every
combination of client, cache and database being of the same or of another
setup. p = 17 and d = 4 make d invertible and different from 1 and -1. In
`encode`, 12 entries fill the shard ids exactly (the increment after the last
shard overflows), 13 use an id twice, 5 leave a partial shard, 0 none; sizes 1
and 3 have a half column; 3-entry shards are misaligned with the ring and
`for_flat_db` gives shards larger than the ring and shards that hold nothing.

In the lower layer, words are small enough to try every one, or
to make each carry, wrap and saturation happen (10 * 13 saturates 7 bits). The smallest parameters of `crs` make
a CRS below the decoding limit, longer gadgets one above it; the limit is 5000 bytes where
the code has 16 MiB, for dimensions of at most 8 where the code has 2048 and more. Eight coefficients are three
levels of butterflies and of a tree: one level has no order, two have no middle.
Moduli of packings and ciphertexts leave room for the noise of the longest
sequence and not much more (`Room`, and the guards `2 * (bound + Wrap) < Delta`,
hold in the runs for full sequences), so that a loss of a digit or a
wrong row is not drowned in slack. q mod p is not zero, as in the code, so that
plaintexts that wrap cost error. Products of residues stay within the integers
of TLC, which is what limits q to 46340. Keys have coefficients of size at most
one, errors size one with both signs, masks are dense.

Where TLC may stop: nowhere. Every run checks for deadlock; `SessionStore` has
an explicit quiescent step for the bound on calls.

Fairness is assumed in three runs. In `store_threads`, a thread inside a call
eventually takes its next step if it stays possible (`WF_vars(Step(t))`), which
is what an operating system gives a runnable thread. Nothing is assumed about
who gets the lock first. Weak fairness suffices because calls are bounded; a
lock that favours readers could starve a writer under an endless stream of
`get` calls, and the standard library does not promise otherwise. In the
tables of `scheme` and the sampler of `noise` one thread runs a loop without a bound: the
loop goes on (weak fairness of its steps), and the generator does not avoid
for ever what it may draw (strong fairness of each drawn polynomial, and of each
candidate). That is what drawing at random gives with probability one; weaker
fairness would let the generator give the same polynomial again and again, and
neither loop would end. `SamplerAssumption` excludes the table of a width of zero, which
accepts nothing: with it the loop of the code does not end whatever is drawn.

## Results

* Handles resolve to the keys registered under them up to the wrap. After 2^64
  registrations an old handle names new keys.
* `WrongAnswersExplained` is the honest form of "the geometry guard stops wrong
  answers": exactly three mismatches get past it, and the code cannot see them,
  since packing keys carry no trace of the CRS they were made for. One of the three is a
  handle of a store that a restart emptied, which names another client's keys once it is
  issued again. That case is explained, not excluded: `HandlesResolve` speaks of handles of
  the store in use only, as `to_residue` says of a handle that "it is only valid against
  the issuing store" (`session.rs:256`), and the server cannot tell them apart.
* `ReadsRight`: a client needs no more than the right number of entries per
  shard. A wrong entry size cuts or fills the entry; a wrong total is harmless.
* `ValidNeverPanics`: `validate` compares `num_shards` with `u32::MAX`, one less
  than the number of ids. It looks one off, and is what keeps the increment
  after the last shard from overflowing in a debug build.

* `NoiseWithinBound` gives the growth of each operation, and `DecryptsRight` the
  room that decryption needs: 2 (error + q mod p) < delta.
* `RecursionCarries` is the invariant of InspiRING packing: after each step back,
  what is left of the columns and what the client's rotations will add are
  together what all columns carry. `SubtreesHoldColumns` is that of the tree.
* `WidthsPack`: what `try_new` accepts has a generator of the order it needs, also
  for a width of one.
* `OwnParametersPass`: a CRS that setup made loads again from its bytes, but in two cases.
  No check bounds the length of the gadget from above or the size of a CRS, and
  `to_versioned_bytes` writes any, while `from_versioned_bytes` refuses a body over
  `DECODE_LIMIT_BYTES`: dimension 2048, base 2 and length 60 pass `validate` and make Galois
  keys of 21.6 MB. The comment at `setup.rs:87` has the limit at "~6x the largest legitimate CRS".
  And two moduli whose product wraps in a release build, which `validate` lets
  through, are refused when the polynomials of the keys are decoded.
  `TooLarge` and `WrappedModuli` name these cases exactly, and the run reaches both.
* `Representation`: a decoded record may bring words past their modulus, which `TryFrom` does
  not look for, and what arithmetic makes of those is any words. They stay in the
  registers they went into and in those computed from them, and do not change the
  shape, the product of the moduli or the inverse of any register.
* `FullCompletes`: the offline half of full packing is right, although the code
  has no online half to go with it.

Three runs end in a violation of what the repository says; `PROJECT.json` quotes
it under `findings`:

* `single_column` - `pack_lwes` skips the scaling by d for a single element,
  `extract_packed` always divides by d ("columns sit at coefficients 0.. scaled
  by d"). An entry of one or two bytes, tree packed, does not read back when d
  is invertible modulo p. The two tests of this case are ignored because their
  fixture has p = 65536, where d is not invertible.
* `one_packing_inspiring` - a server answers OnePacking to a client with packing
  keys with an InspiRING ciphertext, and `extract_with_variant` reads OnePacking
  as tree packed ("Dispatch extraction on the variant the server responded
  with").
* `scheme_points` - "The t-th roots of unity [1, omega, ..., omega^(t-1)] in Z_q; t must
  divide q-1" (`eval_poly.rs:108`), but `is_primitive_root` asks at half the order
  only. For t = 6 and q = 43 the search ends with 42 = -1, and the points are 1, 42, 1,
  42, 1, 42. `PointsAreRoots`, which passes, has what remains: the points are roots, and
  differ when t is a prime or a power of two.

Other places where code and comment part, which the models of the lower layer
have as the code has them; no run is about them. On or near the paths of queries:

* `pack_lwes` under two CRT moduli (`automorph_pack.rs:331`) takes the flat residues
  of the b side for coefficients, and the b side comes out with dimension 2d. The
  runs of `TreePack` have one modulus.
* `validate` compares q with a product that wraps in a release build, and lets a
  composite modulus pass that is 1 modulo 2d; the first transform then finds no
  root and panics, where it is called unreachable. `CrsSteps` ends with a reason.
* A switch leaves one modulus; a switch to q itself, when q is a product, leaves one
  that the reader finds no root for. `IdentityReads` is about a prime.
* The gate of the switch omits what floor(q / p) loses over the message, up to
  p - 1 in the phase. `SwitchedReadsRight` counts it.
* `round_decode` says it requires an error below delta / 2, and needs
  |e| p + (p - 1) (q mod p) < q / 2, which `LweDecryptsRight` has.

Beside those paths: `pack_inspiring` takes LWE vectors for polynomials;
`pack_rlwes_tree` leaves message k at k d / n, and `pack_single_lwe` is the trace,
which keeps the constant term and spreads nothing; what `pack` collapses and what
`pack_lwe_to_rlwe` adds up do not decrypt to the messages, since a component of a
is absorbed under a key that is not its own and since a remainder is left beside
each message. The documentation of the two (`automorph_pack.rs:164` has message k "at
coefficient k", `automorph_pack.rs:208` spreads the constant "across all coefficients") says
otherwise; `TreeCarries` checks what the code does.

## Proofs

TLAPS checks the theorems below for every value of the constants, from the
assumptions named in the modules. Those of the upper layer: widths and gadget
lengths are positive, there is at least one handle, a setup has one record with
a value for each of its columns, p exceeds 65535 (`InspireParams::validate`),
databases are sequences of entries of one positive size.

* `SessionStoreProofs`: `TypeCorrect` (with `CallInv`, where each thread is in
  the code of its call), `HandlesStayBound`, `StoreImplementsRegistry`.
  `HandleBinding` is not inductive: it needs `LockInv` (a write guard excludes
  every other guard) so that the slot a thread holds is still the last one
  allocated when it inserts, and `AllocInv`, which ties the domain of the table
  to the number of handles issued. The refinement follows from the same
  invariant: the insertion is the step at which a registration takes effect.
* `PirProtocolProofs`: `TypeCorrect`, `HandlesAlwaysResolve`,
  `CurrentClientsReadRight`, `WrongAnswersHaveACause`, `VariantsAlwaysReadBack`. The invariant
  `BindingInv` says of every session, and of the query on its way, that its
  keys are those its secret key and its CRS give, as serialized, and that a
  handle of the store in use resolves to them. Both action properties then
  follow from `OwnKeys` (a query finds its own keys) and `AlignedReadsRight`.
  `VariantsAlwaysReadBack` needs no invariant but the types: the columns are read
  at the slots they were packed at (`ColumnsReadRight`), and what tree packing
  scaled by the ring dimension is scaled back (`TreeReadsRight`): wherever d has
  an inverse modulo p, it undoes the product with d (`InverseUndoes`).
* `EncodeDbProofs`: `TypeCorrect`, `EntriesAreFound`, `LoopCountsShards`,
  `ValidDatabasesEncode`, `ClientsReadRight`. The invariant `LayoutInv` says
  that the shards encoded so far are the blocks of `EntriesPerShard` entries in
  order, with their positions modulo the id space as ids. `EntriesAreFound`
  adds that the first shard with an id is the one at that position;
  `ClientsReadRight` adds what a query on its way remembers, that a rotation
  reads the coefficient it is made for, and that the bytes of the columns are
  those of the entry.

In the lower layer the theorems are about words and numbers of every size:

* `TransformProofs`, about words: `WordsStayReduced` and the refinement `WordsAreResidues`.
  The invariant is only that the word is below its modulus; the work is in what
  each operation does to the residue the word stands for. `StandsFor(w, x, q)`
  says that w is reduced and w = x 2^Bits modulo q. The ladder of
  `compute_q_inv_neg` gives an inverse modulo 2^(i+1) at rung i, so
  `montgomery_mul_at` divides by 2^Bits; the Solinas, split-word and vector
  kernels compute the same two words, through every borrow and carry
  (`KernelsAgree`); Shoup and Barrett reduction miss by at most one modulus, and
  the smallest signed word is its own magnitude; the rounds of `pow` keep
  result * base^exp; Fermat's theorem makes `inv` an inverse.
  Assumed: `WordAssumption` (odd moduli of at most a quarter of a word, exponents
  of the Solinas prime within a word, and 2 Split >= Bits, 3 Split >= 2 Bits - 2,
  which hold for 52 and 64 and without which the sums of a split product do not
  fit), `ExponentLaw`, `Fermat`, `TypedInputs`.
* `PolynomialsProofs`, about registers: `RegistersAlwaysSound`, both parts of `RegistersSound`, for every
  ring dimension, word size and chain of moduli. `Representation` is not inductive, as
  it does not say of which ring a register is; `PolyInv` does: every register has
  the shape of a polynomial of the chain (`Shaped`), and is one (`Held`) unless unreduced words
  went into it. Each way a register comes about keeps that
  (`LoadsHeld`, `ConversionsHeld`, `WordWiseHeld`, `MulNttHeld`, `MulAccHeld`,
  `ScalarsHeld`). What a recursive definition keeps in each round is in its result
  (`RecursionSolved`), so a transform leaves reduced words if each block does, and a
  block does because its halves stay within the array (`BlockFits`, from the highest
  and the lowest bit of its number) and its factor is reduced (`LadderReduced`). For
  `DecodedComposes`, the extended Euclidean loop keeps r = t a modulo the modulus and
  ends with the greatest common divisor, so that what is accepted has an inverse
  (`TryModInverseInverts`), with which the two residues compose (`ComposeReads`).
  Assumed: `ChainAssumption` (the moduli pass `init_moduli`, and their product is a
  word), `RootsExist` (the search for a root of unity is total, as the code says of
  it), `DimensionAssumption`, and `PolyInputs`, the types of the inputs. Of the words of a
  record nothing is assumed, as `TryFrom` compares none with its modulus:
  `unreduced` collects the registers that such words went into, by decoding or by an
  operation on a register of them (`UnreducedKeeps`, `LeftoverKeeps`), and the invariant
  keeps of those what `Shaped` says. Every other register is `Held`.
* `TransformProofs`, about transforms: `TransformsAlwaysMultiply`, all of
  `TransformsMultiply`: by every kernel, for every ring dimension, word size, modulus
  that `NttContext` accepts and pair of arrays of words, reduced or not (the Shoup path
  takes reduced ones). Modulo a prime only zero divides zero (`NoZeroDivisors`), so the
  root that the search ends with has -1 for its N-th power (`RootFacts`). The ladders,
  in standard and in Montgomery form, hold its powers at bit-reversed places
  (`LadderStdRises`, `LadderStands`); the entry at k squares to that at k / 2 or to
  its negative (`LadderSquares`), so the constant of a block is a square root of that
  of its parent in the heap of blocks (`ConstantRoots`), and the inverse ladder
  undoes the forward one entry by entry (`LadderInverses`). From there on it is
  algebra: remainders split as polynomials do (`RemainderSplit`); those of the
  last level are the values at the roots (`LeafEvaluates`), where the negacyclic
  product has the products of the values (`ProductEvaluates`), because the term that
  wraps changes its sign and so does the N-th power of a root. The invariant `NttInv`
  says at every block where the loops are what each word means: forward, the blocks
  not yet split hold the remainders of the factors; back, those already joined and
  those not yet hold the product's, as many times as they have words
  (`ForwardHolds`, `PhaseHolds`), so that the division by n restores it. An
  iteration keeps this because it touches its own halves only (`BlocksApart`).
  Assumed: `InputArrays`, `RootsExist`, `DimensionAssumption`, and of words
  what is assumed above.
* `PolynomialsProofs`, about the ring: the refinement `PolynomialsAreRing`. The invariant
  `RingInv` adds to `PolyInv` that every register outside `unreduced` stands for the element the
  history variable `stands` names (`Denotes`): in the form of its domain each word means what it
  should of the element, its coefficient or, in the NTT domain, its value at the root of
  that place (`Wanted`), modulo the modulus of its stripe. Word-wise operations combine
  what words mean (`SumsDenote`, `MultiplesDenote`, `ProductDenotes`,
  `AccumulationsDenote`). A conversion is settled in both directions by one argument: the
  transform, which the inverse undoes, takes the finitely many arrays of reduced words
  onto themselves (`TransformsCover`), so a polynomial in the NTT domain is the transform of
  one (`ToNttDenotes`, `FromNttDenotes`). Two residues come from one number below the
  product of the moduli and from no other (`StripesMeet`, `StripesSettle`), so that
  `crt_compose_2` reads it (`ElementSettled`, `CoeffReads`, `NormReads`). With these each
  operation is that of `Ring`, and a failing assertion its refusal. TLC checked `RingInv` on
  the instance of the run `arithmetic` first. Assumed: as for `RegistersAlwaysSound`.
* `PolynomialsProofs`, about automorphisms as tables: `TablesAlwaysPermute` and
  `TablesAlwaysCommute`, for every ring dimension, sequence of moduli and set of
  polynomials that may be drawn. Neither is inductive: a table is right because of
  where values are, which the loop never sees. The constants of the blocks are powers of
  the root (`ConstantPowers`) with exponents for which no modulus is needed
  (`HeapExponents`): each is half of that of the block above, or that and N
  (`ExponentsHalve`). So the exponents of the single words are odd (`ExponentsOdd`), no
  two are equal modulo 2N (`ExponentsDiffer`), and all odd ones occur (`OddReached`);
  multiplication by an odd element permutes them (`TurnPermutes`). `apply_automorphism`
  moves coefficient j to the place of j e modulo N, with the sign of the turns, so at a
  root the image has the value of the polynomial at the power e of the root
  (`ImageEvaluates`), and its transform is that of the polynomial in the order of `Turn`
  (`ImagesArePermuted`), under every modulus. The invariant `TablesInv` says that the
  tables that are done are `Turn`, and that what is matched so far agrees with it: the
  place where `Turn` sends a row holds the value that is looked for, so if only one place
  does it is that one. That is why matching under the first modulus is enough, and why
  the test for a value found once is needed. TLC checked `TablesInv` with 8 coefficients.
  Assumed: `LimbsAssumption` (there is a modulus, each is one of `NttContext`, and
  coefficients are natural), and what is assumed of transforms.
* `ModuliProofs`, about parameters: `GadgetAlwaysCovers`, `WidthsAlwaysPack`,
  `OwnParametersAlwaysPass`, from `CrsInductive`. None of the three is inductive.
  `Looping` says that the power in `min_gadget_len` is the base to the number of
  digits so far, and that no smaller number reaches the target; `Accepting`, that
  where a CRS is, `validate` has let its parameters through (`Sound`);
  `Widening` and `Owning`, what is known of parameters this crate made while they
  are on their way back through its checks, from which it follows that only the size of
  a body or a wrapped product refuses them; `Splitting`, that the digits taken and
  the rest make the coefficient, and what they add up to. `WidthsPack`
  needs the order of 1 + 2^c modulo a power of two (`PowersDiffer`,
  `FiveGenerates`), and that a checked modulus is odd even where the product of its
  two moduli wrapped (`CheckedModulus`), so that a width, a power of two, has an
  inverse. Assumed: `CrsAssumption`, the types of the inputs and what
  `from_derivation` returns, and `PowersDouble`.
* `ModuliProofs`, about switched answers: `SwitchedAnswersStaySound`, all of
  `SwitchedAnswersSound` for every ring dimension, all moduli, keys and messages, and any number of switches,
  gated or not. The invariant `SwitchInv` says that the polynomials are those of the
  modulus, that the wire holds the answer (`WireInv`), and that every coefficient is
  off by `bound` at most (`OffInv`). A switch scales a phase (`PhaseScales`): along
  the partial sums of the negacyclic product (`PartialSums`), each coefficient of the
  key turns the half unit of rounding of its partner into at most |s_i| halves
  (`ScalesStep`), and moduli enter in multiples only, whatever the two are; the
  distance from the multiples of P q then grows as `bound` counts (`ErrorScales`).
  `RoundingReads` is the arithmetic of the reader, the wrap below zero included,
  where the remainder of q by p joins in. `RoundTrip` is the wire: `Width` is enough
  (`WidthCovers`), the bytes of a residue make it again (`BytesMakeValue`), and each
  is where its number says (`PositionSplit`). Assumed: `SwitchAssumption`, the types
  of the inputs, and `PowersOfTwoDouble`.
* `NoiseProofs`, about ciphertexts: `NoiseStaysWithinBound` and `CiphertextsDecrypt`, for
  every ring dimension, moduli, gadget, pair of keys, masks, errors of a bounded size and
  sequence of operations. Neither property is inductive: the size of a phase says
  nothing of what a key switch makes of it. `IInv` says what each pair *carries*: its
  phase before it is reduced (`Open`) is a polynomial over the integers plus an error
  within a bound plus multiples of Q (`Near`, `Carries`). The rows of matrices and RGSW
  ciphertexts carry their power of the base times what they were made for
  (`KsMatrixCarries`, `RgswRowsCarry`, `SeededRowsCarry`), from the initial state on; a
  register `Holds` its plaintext when it carries Delta times it. The operations of the ring
  are read as operations on integer polynomials (`PlusReads` ... `AutomorphismReads`),
  which commute, associate and go through automorphisms (`WindowSwaps`, `MulAssociates`,
  `ImageMul`): the terms of a coefficient of a product are a window of N places upon a
  periodic function. Digits put a polynomial together again along the loop of `key_switch`
  and `external_product` (`DigitsCompose`, `LoopCarries`), so a product with rows
  carries what they carry times the polynomial, and the errors of the rows come in as
  often as the digits weigh. A plaintext that wraps D times adds D remainders of Q by P
  (`HoldsReduced`). For LWE, `LweHolds` is the same of an inner product, and
  `ExtractHolds` takes a register there: coefficient 0 of a product is the inner product
  with the mask turned around and the key with its signs. `HoldsDecrypts` and
  `LweHoldsDecrypts` are the arithmetic of the two decoders. Assumed: `RingAssumption`,
  `GadgetAssumption` (the digits reach Q, which `GadgetAlwaysCovers` has of validated
  parameters) and `StepsAssumption`: types of the inputs, errors within `NoiseSize`,
  automorphisms that have an inverse.
* `NoiseProofs`, about the sampler: `LiftsAlwaysStand`, `DecidesAlways`. Patterns of one
  exponent lie between two powers of two and grow with the fraction, so `Value` is
  strictly monotone (`ValueGrows`); the invariant ties the table to the curve it was
  made of, and each residue to its sample. Assumed: `SamplerAssumption`, in which
  the modulus exceeds the tail and fits in half of the words, and `PowersDouble`.

The assumptions about exponentiation (`ExponentLaw`, `PowersDouble`,
`PowersOfTwoDouble`, the last part of `GadgetAssumption`) are there because the prover has no law of exponents; `Fermat`,
because the moduli are primes. TLC evaluates all of them, and the types of inputs,
for the constants of the runs. Each invariant of these theorems was checked by TLC
first.

What is defined by recursion along an interval (a ladder, a power, a product of
moduli) is proved about through `ArithmeticLemmas`: `Induction` is the first-order
form over an interval 0 .. n, from the least counterexample, and
`RecursionExists` gives the function that a definition by recursion describes.

Only model-checked: `CallsReturn`, `TablesRecovered` and `SamplesReturn` (liveness
is beyond the prover), and these of the lower layer. `EvaluatesRight`, `LegacyColumnsDecrypt`, `OnlineAgrees`, `TreeCarries` and
`InspiringCarries` are about compositions of the operations that `NoiseProofs` has one at
a time: the growth of an error in each is proved, what the compositions make of
plaintexts is not. `PointsAreRoots` is about a search for a root of unity.
`IdentitySwitchReads` needs a root of order 2N modulo a prime, which exists by the
theory of finite fields.

## Plan

Done: both layers, all components that keep state or compute an answer, and the
theorems above. What is left is to prove more of the lower layer:

1. `EvalPoly` and `TreePack`: `EvaluatesRight` and `TreeCarries`, by the lemmas on what a
   pair carries.
2. `EvalPoly`: the part of `PointsAreRoots` about powers of X. `LegacyPack`:
   `OnlineAgrees`.

## Not modelled

* That ciphertexts hide their plaintexts, constant time, and distributions: what a
  generator draws is a choice.
* The estimate of the variance in `params.rs`, which is floating point through
  and through; the adaptive derivation is a constant of `CrsSteps`.
* `precompute_inspiring` and `pack_inspiring_legacy`, `transform_partial`,
  `collapse_half` and `pack_lwe_trivial`: entry points of earlier packings that
  nothing else calls.
* `respond_sequential`, which differs from `respond` in the order of its loop, and
  `extract_with_tolerance`, `extract_single_coeff` and `extract_raw`.
* `validate_for_params` and `shard_to_index`, without a caller on the paths here.
* The cost model, error texts, the thread pool wrapper, and the deprecated shims
  of the sampler, which forward.
* Serialization beyond what it drops and the guards of its readers. The guard of
  `Poly` does not ask that residues be below their modulus, and what arithmetic then makes
  of them, a panic, a wrap or some word, is a choice in `Polynomials` (`ComputeUnreduced`);
  the ingest of a CRS does not compare its gadget with its parameters.
* Lock poisoning: no code panics while it holds the lock.
* `encode_database` with shards that hold nothing does not end: it appends shards
  until memory runs out, and the guard of `EncodeDatabase` leaves that case out.
* `extract` on a packed response: reached only by a caller that pairs it with a
  packing variant, which `extract_with_variant` never does.
