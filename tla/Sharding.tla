------------------------------ MODULE Sharding ------------------------------
(***************************************************************************)
(* How a database is laid out and read back: the ShardConfig arithmetic    *)
(* that maps an entry to a shard and a coefficient, the split of an entry  *)
(* into columns of two bytes, and the monomial that rotates the wanted     *)
(* coefficient into the constant term.                                     *)
(***************************************************************************)
EXTENDS Integers, Sequences

CONSTANTS
  RingDim,          \* d
  PlainMod,         \* the plaintext modulus p
  DefaultRingDim,   \* the ring dimension of InspireParams::default
  IdSpace,          \* number of values of a shard id (2^32 in the code)
  WordSpace         \* number of values of a byte count (2^64 in the code)

\* InspireParams::validate wants p above any two-byte value.
ASSUME ShardingAssumption ==
  /\ RingDim \in Nat \ {0} /\ DefaultRingDim \in Nat \ {0}
  /\ PlainMod \in Nat /\ PlainMod > 65535
  /\ IdSpace \in Nat \ {0} /\ WordSpace \in Nat \ {0}

Byte == 0 .. 255
ColumnValues == {v \in Nat : v <= 65535}   \* two bytes
Coeffs == 0 .. RingDim - 1
ShardIds == 0 .. IdSpace - 1

CeilDiv(a, b) == (a + b - 1) \div b
-----------------------------------------------------------------------------
(* ShardConfig                                                             *)

ShardConfig == [shardSize : Nat, entrySize : Nat, total : Nat]

EntriesPerShard(cfg) ==
  IF cfg.entrySize = 0 THEN 0 ELSE cfg.shardSize \div cfg.entrySize

NumShards(cfg) ==
  IF EntriesPerShard(cfg) = 0 THEN 0 ELSE CeilDiv(cfg.total, EntriesPerShard(cfg))

ValidToLastId(cfg) ==   \* mutated form: as many shards as there are ids
  EntriesPerShard(cfg) # 0 /\ NumShards(cfg) <= IdSpace

\* validate; num_shards is compared with the largest id, not with their number.
Valid(cfg) == EntriesPerShard(cfg) # 0 /\ NumShards(cfg) <= IdSpace - 1

Config(d, size, total) ==
  [shardSize |-> d * size, entrySize |-> size, total |-> total]

\* for_ring_dim returns Config(d, size, total) when this holds.
Buildable(d, size, total) ==
  /\ d # 0 /\ size # 0
  /\ d * size < WordSpace
  /\ Valid(Config(d, size, total))

\* for_flat_db, which falls back on shards that hold nothing.
ForFlatDb(size, total) ==
  IF Buildable(DefaultRingDim, size, total) THEN Config(DefaultRingDim, size, total)
  ELSE [shardSize |-> 0, entrySize |-> size, total |-> total]

\* try_index_to_shard returns coordinates when this holds, index_to_shard panics
\* otherwise.
Addressable(cfg, i) ==
  EntriesPerShard(cfg) # 0 /\ i \div EntriesPerShard(cfg) < IdSpace

Coordinates(cfg, i) ==
  [shard |-> i \div EntriesPerShard(cfg), local |-> i % EntriesPerShard(cfg)]
-----------------------------------------------------------------------------
(* Columns                                                                 *)

\* A column holds 16 bits: (entry_size * 8).div_ceil(16).
NumColumns(size) == (size + 1) \div 2

\* What a sequence holds at a position, zero past its end.
At(s, i) == IF i <= Len(s) THEN s[i] ELSE 0

\* extract_column_value, for column c counted from 1.
ColumnValue(entry, c) == At(entry, 2 * c - 1) + 256 * At(entry, 2 * c)

\* reconstruct_entry; bytes no column covers stay zero.
ReconstructEntry(values, size) ==
  [b \in 1 .. size |->
     LET value == At(values, (b + 1) \div 2)
     IN  IF b % 2 = 1 THEN value % 256 ELSE (value \div 256) % 256]
-----------------------------------------------------------------------------
(* Rotation. X^d = -1, so a monomial is a position and a sign.             *)

InverseMonomialUnsigned(k) ==   \* mutated form: +X^(d-k)
  [position |-> IF k = 0 THEN 0 ELSE RingDim - k, negative |-> FALSE]

\* inverse_monomial: X^(-k) = -X^(d-k). d - k underflows for k > d.
InverseMonomial(k) ==
  [position |-> IF k = 0 THEN 0 ELSE RingDim - k, negative |-> k # 0]

\* The constant term of h * m modulo X^d + 1, which the client decrypts modulo p.
ConstantTerm(h, m) ==
  LET wraps == m.position # 0
      value == h[IF wraps THEN RingDim - m.position ELSE 0]
  IN  (IF m.negative = wraps THEN value ELSE PlainMod - value) % PlainMod
=============================================================================
