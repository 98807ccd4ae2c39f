--------------------------- MODULE EncodeDbProofs ---------------------------
(***************************************************************************)
(* Proofs about EncodeDb for every ring dimension, every space of shard    *)
(* ids, and every set of databases and configurations.                     *)
(***************************************************************************)
EXTENDS EncodeDb, TLAPS

(* Arithmetic                                                              *)

LEMMA Euclid ==
  ASSUME NEW a \in Nat, NEW b \in Nat \ {0}
  PROVE  a \div b \in Nat /\ a % b \in 0 .. b - 1 /\ a = b * (a \div b) + (a % b)
OBVIOUS

\* A larger multiple is larger by at least the factor.
LEMMA NextMultiple ==
  ASSUME NEW b \in Nat, NEW p \in Nat, NEW q \in Nat, p < q
  PROVE  b * p + b <= b * q
<1>1. b * (q - p - 1) \in Nat
  OBVIOUS
<1>2. b * (q - p - 1) = b * q - b * p - b
  OBVIOUS
<1>3. QED
  BY <1>1, <1>2

LEMMA UniqueQuotient ==
  ASSUME NEW b \in Nat \ {0}, NEW p \in Nat, NEW q \in Nat,
         NEW r \in 0 .. b - 1, NEW s \in 0 .. b - 1, b * p + r = b * q + s
  PROVE  p = q /\ r = s
<1>1. ~(p < q)
  BY NextMultiple
<1>2. ~(q < p)
  BY NextMultiple
<1>3. p = q
  BY <1>1, <1>2
<1>4. QED
  BY <1>3

\* The number of blocks of size e that n fills, the last one perhaps in part.
LEMMA CeilDivIs ==
  ASSUME NEW e \in Nat \ {0}, NEW n \in Nat, NEW l \in Nat,
         n <= l * e, n > (l - 1) * e
  PROVE  CeilDiv(n, e) = l
<1> DEFINE m == n + e - 1
<1>1. m \in Nat /\ m = e * l + (m - l * e)
  OBVIOUS
<1>2. (l - 1) * e = l * e - e
  OBVIOUS
<1>3. m - l * e \in 0 .. e - 1
  BY <1>2
<1>4. m \div e \in Nat /\ m % e \in 0 .. e - 1 /\ m = e * (m \div e) + (m % e)
  BY <1>1, Euclid
<1> HIDE DEF m
<1>5. m \div e = l
  BY <1>1, <1>3, <1>4, UniqueQuotient
<1>6. QED
  BY <1>5 DEF m, CeilDiv

\* More than l full blocks need at least l blocks.
LEMMA CeilDivAtLeast ==
  ASSUME NEW e \in Nat \ {0}, NEW n \in Nat, NEW l \in Nat, n >= l * e
  PROVE  CeilDiv(n, e) >= l
<1> DEFINE m == n + e - 1
<1>1. m \in Nat /\ m >= l * e
  OBVIOUS
<1>2. m \div e \in Nat /\ m % e \in 0 .. e - 1 /\ m = e * (m \div e) + (m % e)
  BY <1>1, Euclid
<1>3. l * e = e * l
  OBVIOUS
<1> HIDE DEF m
<1>4. ~(m \div e < l)
  BY <1>1, <1>2, <1>3, NextMultiple
<1>5. QED
  BY <1>2, <1>4 DEF m, CeilDiv

LEMMA RemainderIs ==
  ASSUME NEW b \in Nat \ {0}, NEW q \in Nat, NEW r \in 0 .. b - 1,
         NEW a \in Nat, a = b * q + r
  PROVE  a \div b = q /\ a % b = r
<1> DEFINE m == a \div b
           s == a % b
<1>1. m \in Nat /\ s \in 0 .. b - 1 /\ a = b * m + s
  BY Euclid
<1> HIDE DEF m, s
<1>2. m = q /\ s = r
  BY <1>1, UniqueQuotient
<1>3. QED
  BY <1>2 DEF m, s

\* An increment that wraps counts modulo b.
LEMMA RemainderOfSuccessor ==
  ASSUME NEW b \in Nat \ {0}, NEW a \in Nat
  PROVE  ((a % b) + 1) % b = (a + 1) % b
<1> DEFINE q == a \div b
           r == a % b
<1>1. q \in Nat /\ r \in 0 .. b - 1 /\ a = b * q + r
  BY Euclid
<1> HIDE DEF q, r
<1>2. CASE r + 1 < b
  <2>1. r + 1 \in 0 .. b - 1 /\ a + 1 = b * q + (r + 1)
    BY <1>1, <1>2
  <2>2. (a + 1) % b = r + 1
    BY <1>1, <2>1, RemainderIs
  <2>3. (r + 1) % b = r + 1
    BY <2>1
  <2>4. QED
    BY <2>2, <2>3 DEF r
<1>3. CASE r + 1 = b
  <2>1. a + 1 = b * (q + 1) + 0 /\ 0 \in 0 .. b - 1 /\ q + 1 \in Nat
    BY <1>1, <1>3
  <2>2. (a + 1) % b = 0
    BY <2>1, RemainderIs
  <2>3. b = b * 1 + 0
    OBVIOUS
  <2>4. b % b = 0
    BY <2>1, <2>3, RemainderIs
  <2>5. QED
    BY <1>3, <2>2, <2>4 DEF r
<1>4. QED
  BY <1>1, <1>2, <1>3

LEMMA SmallRemainder ==
  ASSUME NEW b \in Nat \ {0}, NEW a \in 0 .. b - 1
  PROVE  a % b = a
OBVIOUS
-----------------------------------------------------------------------------
(* Columns                                                                 *)

LEMMA FunctionIsSequence ==
  ASSUME NEW S, NEW n \in Nat, NEW f \in [1 .. n -> S]
  PROVE  f \in Seq(S) /\ Len(f) = n
OBVIOUS

LEMMA DatabaseType ==
  ASSUME NEW db \in Databases \cup {NoDatabase}
  PROVE  /\ db.size \in Nat \ {0}
         /\ NumColumns(db.size) \in Nat \ {0}
         /\ Entries(db) \in Nat
         /\ \A i \in 0 .. Entries(db) - 1 :
              Entry(db, i) \in Seq(Byte) /\ Len(Entry(db, i)) = db.size
<1>1. db.size \in Nat \ {0} /\ db.entries \in Seq([1 .. db.size -> Byte])
  <2>1. CASE db \in Databases
    BY <2>1, EncodeAssumption DEF Database
  <2>2. CASE db = NoDatabase
    BY <2>2 DEF NoDatabase
  <2>3. QED
    BY <2>1, <2>2
<1>2. NumColumns(db.size) \in Nat \ {0}
  BY <1>1 DEF NumColumns
<1>3. Entries(db) \in Nat
  BY <1>1 DEF Entries
<1>4. ASSUME NEW i \in 0 .. Entries(db) - 1
      PROVE  Entry(db, i) \in Seq(Byte) /\ Len(Entry(db, i)) = db.size
  <2>1. Entry(db, i) \in [1 .. db.size -> Byte]
    BY <1>1 DEF Entry, Entries
  <2>2. QED
    BY <1>1, <2>1, FunctionIsSequence
<1>5. QED
  BY <1>1, <1>2, <1>3, <1>4

LEMMA ByteSplit ==
  ASSUME NEW x \in Byte, NEW y \in Byte
  PROVE  /\ x + 256 * y \in ColumnValues
         /\ (x + 256 * y) % 256 = x
         /\ ((x + 256 * y) \div 256) % 256 = y
<1>1. x + 256 * y \in ColumnValues
  BY DEF Byte, ColumnValues
<1>2. (x + 256 * y) % 256 = x
  BY DEF Byte
<1>3. ((x + 256 * y) \div 256) % 256 = y
  BY DEF Byte
<1>4. QED
  BY <1>1, <1>2, <1>3

LEMMA AtType ==
  ASSUME NEW S, 0 \in S, NEW s \in Seq(S), NEW i \in Nat \ {0}
  PROVE  At(s, i) \in S
BY DEF At

LEMMA ColumnValueType ==
  ASSUME NEW entry \in Seq(Byte), NEW c \in Nat \ {0}
  PROVE  ColumnValue(entry, c) \in ColumnValues
<1>1. 0 \in Byte /\ 2 * c - 1 \in Nat \ {0} /\ 2 * c \in Nat \ {0}
  BY DEF Byte
<1>2. At(entry, 2 * c - 1) \in Byte /\ At(entry, 2 * c) \in Byte
  BY <1>1, AtType
<1>3. QED
  BY <1>2, ByteSplit DEF ColumnValue

LEMMA ConfigType ==
  ASSUME NEW cfg \in ShardConfig
  PROVE  EntriesPerShard(cfg) \in Nat
BY DEF ShardConfig, EntriesPerShard

LEMMA EncodeColumnsType ==
  ASSUME NEW db \in Databases \cup {NoDatabase}, NEW cfg \in ShardConfig,
         NEW first \in 0 .. Entries(db)
  PROVE  /\ EncodeColumns(db, cfg, first) \in Seq(Polynomial)
         /\ Len(EncodeColumns(db, cfg, first)) = NumColumns(db.size)
<1> DEFINE value(c, k) == IF k < ActualEntries(db, cfg, first)
                          THEN ColumnValue(Entry(db, first + k), c)
                          ELSE 0
<1>1. ASSUME NEW c \in 1 .. NumColumns(db.size), NEW k \in Coeffs
      PROVE  value(c, k) \in ColumnValues
  <2>1. CASE k < ActualEntries(db, cfg, first)
    <3>1. Entries(db) \in Nat /\ EntriesPerShard(cfg) \in Nat /\ k \in Nat
      BY ShardingAssumption, ConfigType, DatabaseType DEF Coeffs
    <3>2. first + k \in 0 .. Entries(db) - 1
      BY <2>1, <3>1 DEF ActualEntries
    <3>3. Entry(db, first + k) \in Seq(Byte) /\ c \in Nat \ {0}
      BY <3>2, DatabaseType
    <3>4. QED
      BY <2>1, <3>3, ColumnValueType
  <2>2. CASE ~(k < ActualEntries(db, cfg, first))
    BY <2>2 DEF ColumnValues
  <2>3. QED
    BY <2>1, <2>2
<1>2. EncodeColumns(db, cfg, first) =
        [c \in 1 .. NumColumns(db.size) |-> [k \in Coeffs |-> value(c, k)]]
  BY DEF EncodeColumns
<1> HIDE DEF value
<1>3. EncodeColumns(db, cfg, first) \in [1 .. NumColumns(db.size) -> Polynomial]
  BY <1>1, <1>2 DEF Polynomial
<1>4. QED
  BY <1>3, DatabaseType, FunctionIsSequence

\* A rotation brings the coefficient it is made for into the constant term.
LEMMA RotationReads ==
  ASSUME NEW h \in Polynomial, NEW k \in Coeffs
  PROVE  ConstantTerm(h, InverseMonomial(k)) = h[k]
<1>1. h[k] \in ColumnValues
  BY DEF Polynomial
<1>2. h[k] \in 0 .. PlainMod - 1 /\ PlainMod \in Nat \ {0} /\ RingDim \in Nat \ {0}
  BY <1>1, ShardingAssumption DEF ColumnValues
<1>3. h[k] % PlainMod = h[k]
  BY <1>2, SmallRemainder
<1>4. QED
  BY <1>2, <1>3 DEF ConstantTerm, InverseMonomial, Coeffs

LEMMA ConstantTermType ==
  ASSUME NEW h \in Polynomial, NEW m \in [position : Coeffs, negative : BOOLEAN]
  PROVE  ConstantTerm(h, m) \in Nat
<1>1. RingDim \in Nat \ {0} /\ PlainMod \in Nat \ {0} /\ PlainMod > 65535
  BY ShardingAssumption
<1>2. m.position \in Coeffs
  OBVIOUS
<1> DEFINE v == h[IF m.position # 0 THEN RingDim - m.position ELSE 0]
<1>3. (IF m.position # 0 THEN RingDim - m.position ELSE 0) \in Coeffs
  BY <1>1, <1>2 DEF Coeffs
<1>4. v \in Nat /\ v <= 65535
  BY <1>3 DEF Polynomial, ColumnValues
<1> HIDE DEF v
<1>5. v % PlainMod \in Nat /\ (PlainMod - v) % PlainMod \in Nat
  BY <1>1, <1>4
<1>6. QED
  BY <1>5 DEF ConstantTerm, v

LEMMA ReconstructType ==
  ASSUME NEW values \in Seq(Nat), NEW size \in Nat
  PROVE  ReconstructEntry(values, size) \in Seq(Byte)
<1>1. ASSUME NEW b \in 1 .. size
      PROVE  At(values, (b + 1) \div 2) \in Nat
  <2>1. (b + 1) \div 2 \in Nat \ {0}
    OBVIOUS
  <2>2. QED
    BY <2>1, AtType
<1>2. ASSUME NEW v \in Nat
      PROVE  v % 256 \in 0 .. 255 /\ (v \div 256) % 256 \in 0 .. 255
  OBVIOUS
<1>3. ReconstructEntry(values, size) \in [1 .. size -> Byte]
  BY <1>1, <1>2 DEF ReconstructEntry, Byte
<1>4. QED
  BY <1>3, FunctionIsSequence

-----------------------------------------------------------------------------
(* Types                                                                   *)

LEMMA SetupConfigType ==
  ASSUME NEW db \in Databases \cup {NoDatabase}
  PROVE  /\ SetupConfig(db) \in ShardConfig
         /\ SetupConfig(db).entrySize = db.size
         /\ EntriesPerShard(SetupConfig(db)) = RingDim
<1>1. db.size \in Nat \ {0} /\ Entries(db) \in Nat /\ RingDim \in Nat \ {0}
  BY DatabaseType, ShardingAssumption
<1>2. RingDim * db.size \in Nat
  BY <1>1
<1>3. SetupConfig(db) = [shardSize |-> RingDim * db.size, entrySize |-> db.size,
                         total |-> Entries(db)]
  BY DEF SetupConfig, Config
<1>4. (RingDim * db.size) \div db.size = RingDim
  <2> DEFINE n == RingDim * db.size
             m == n \div db.size
             r == n % db.size
  <2>1. n = db.size * RingDim + 0 /\ 0 \in 0 .. db.size - 1
    BY <1>1
  <2>2. m \in Nat /\ r \in 0 .. db.size - 1 /\ n = db.size * m + r
    BY <1>1, <1>2, Euclid
  <2> HIDE DEF n, m, r
  <2>3. m = RingDim
    BY <1>1, <2>1, <2>2, UniqueQuotient
  <2>4. QED
    BY <2>3 DEF n, m
<1>5. QED
  BY <1>1, <1>2, <1>3, <1>4 DEF ShardConfig, EntriesPerShard

\* What a query says, and that it came from coordinates of its index.
LEMMA QueryType ==
  ASSUME NEW i \in Nat, NEW cfg \in ShardConfig, Addressable(cfg, i),
         Coordinates(cfg, i).local <= RingDim
  PROVE  /\ EntriesPerShard(cfg) \in Nat \ {0}
         /\ Coordinates(cfg, i).shard \in ShardIds
         /\ Coordinates(cfg, i).local \in 0 .. RingDim
         /\ InverseMonomial(Coordinates(cfg, i).local)
              \in [position : Coeffs, negative : BOOLEAN]
<1>1. EntriesPerShard(cfg) \in Nat \ {0} /\ RingDim \in Nat \ {0} /\ IdSpace \in Nat \ {0}
  BY ConfigType, ShardingAssumption DEF Addressable
<1>2. i \div EntriesPerShard(cfg) \in 0 .. IdSpace - 1 /\ i % EntriesPerShard(cfg) \in Nat
  <2>0. ASSUME NEW e \in Nat \ {0}
        PROVE  i \div e \in Nat /\ i % e \in Nat
    OBVIOUS
  <2>1. i \div EntriesPerShard(cfg) \in Nat /\ i % EntriesPerShard(cfg) \in Nat
    BY <1>1, <2>0, Zenon
  <2>2. i \div EntriesPerShard(cfg) < IdSpace
    BY Zenon DEF Addressable
  <2>3. QED
    BY <1>1, <2>1, <2>2
<1>3. Coordinates(cfg, i).shard \in ShardIds /\ Coordinates(cfg, i).local \in 0 .. RingDim
  BY <1>1, <1>2 DEF Coordinates, ShardIds
<1>4. ASSUME NEW k \in 0 .. RingDim
      PROVE  InverseMonomial(k) \in [position : Coeffs, negative : BOOLEAN]
  BY <1>1 DEF InverseMonomial, Coeffs
<1>5. QED
  BY <1>1, <1>3, <1>4

LEMMA EncodeShardType ==
  ASSUME TypeOK, EncodeShard, offset <= Entries(database)
  PROVE  shards' \in Seq(Shard) /\ offset' \in Nat /\ shardId' \in ShardIds
<1>1. EncodeColumns(database, config, offset) \in Seq(Polynomial)
  BY EncodeColumnsType, DatabaseType DEF TypeOK
<1>2. [id |-> shardId, polynomials |-> EncodeColumns(database, config, offset)] \in Shard
  BY <1>1 DEF Shard, TypeOK
<1>3. shards' \in Seq(Shard)
  BY <1>2 DEF EncodeShard, TypeOK
<1>4. EntriesPerShard(config) \in Nat /\ Entries(database) \in Nat /\ offset \in Nat
  BY ConfigType, DatabaseType DEF TypeOK
<1>5. offset' \in Nat
  BY <1>4 DEF EncodeShard, Advanced, ActualEntries
<1>6. shardId' \in ShardIds
  <2>1. IdSpace \in Nat \ {0} /\ shardId \in Nat
    BY ShardingAssumption DEF TypeOK, ShardIds
  <2>2. (shardId + 1) % IdSpace \in 0 .. IdSpace - 1
    BY <2>1
  <2>3. QED
    BY <2>2 DEF EncodeShard, NextShardId, TypeOK, ShardIds
<1>7. QED
  BY <1>3, <1>5, <1>6

LEMMA AnswerType ==
  ASSUME TypeOK, Answer
  PROVE  query' \in Queries
<1>1. CASE query' = NotFound
  BY <1>1 DEF Queries
<1>2. CASE query' # NotFound
  <2>1. query.size \in Nat /\ query.rotation \in [position : Coeffs, negative : BOOLEAN]
    <3>1. query \in Queries /\ query.phase = "sent"
      BY DEF Answer, TypeOK
    <3>2. NoQuery.phase = "none" /\ NotFound.phase = "not found"
      BY DEF NoQuery, NotFound
    <3>2a. ASSUME NEW S, query \in [phase : {"read"}, entry : S]
           PROVE  FALSE
      BY <3>1, <3>2a
    <3>3. query \in [phase : {"sent"}, index : Nat, perShard : Nat, size : Nat,
                     shard : ShardIds, rotation : [position : Coeffs, negative : BOOLEAN]]
      BY <3>1, <3>2, <3>2a DEF Queries
    <3>4. QED
      BY <3>3
  <2> DEFINE columns(j) == served.shards[j].polynomials
             count(j) == IF NumColumns(query.size) < Len(columns(j))
                         THEN NumColumns(query.size) ELSE Len(columns(j))
             values(j) == [c \in 1 .. count(j) |-> ConstantTerm(columns(j)[c], query.rotation)]
  <2>2. PICK j \in DOMAIN served.shards :
          query' = [phase |-> "read", entry |-> ReconstructEntry(values(j), query.size)]
    BY <1>2 DEF Answer
  <2>3. columns(j) \in Seq(Polynomial)
    <3>1. served.shards[j] \in Shard
      BY DEF TypeOK
    <3>2. QED
      BY <3>1 DEF Shard
  <2>4. count(j) \in Nat /\ count(j) <= Len(columns(j))
    BY <2>1, <2>3 DEF NumColumns
  <2>5. values(j) \in [1 .. count(j) -> Nat]
    <3>1. ASSUME NEW c \in 1 .. count(j)
          PROVE  ConstantTerm(columns(j)[c], query.rotation) \in Nat
      <4>1. columns(j)[c] \in Polynomial
        BY <2>3, <2>4
      <4>2. QED
        BY <2>1, <4>1, ConstantTermType
    <3> HIDE DEF columns, count
    <3>2. QED
      BY <3>1
  <2> HIDE DEF values
  <2>6. values(j) \in Seq(Nat)
    BY <2>4, <2>5, FunctionIsSequence
  <2>7. ReconstructEntry(values(j), query.size) \in Seq(Byte)
    BY <2>1, <2>6, ReconstructType
  <2>8. QED
    BY <2>2, <2>7 DEF Queries
<1>3. QED
  BY <1>1, <1>2

\* The two ways into encode_database, and the configurations of the clients.
LEMMA Starts ==
  ASSUME NEW db \in Databases, Setup(db) \/ \E cfg \in Configs : EncodeDatabase(db, cfg)
  PROVE  \E cfg \in ShardConfig : EncodeDatabase(db, cfg)
<1>1. CASE Setup(db)
  BY <1>1, SetupConfigType DEF Setup
<1>2. CASE \E cfg \in Configs : EncodeDatabase(db, cfg)
  BY <1>2, EncodeAssumption
<1>3. QED
  BY <1>1, <1>2

LEMMA ClientConfigsType == ClientConfigs \subseteq ShardConfig
BY SetupConfigType, EncodeAssumption DEF ClientConfigs

\* The encoder's locals, the database in service and the query on its way keep
\* their types: encode_database, setup, query, respond and extract stay in range.
THEOREM TypeCorrect == Spec => []TypeOK
<1>1. Init => TypeOK
  <2> SUFFICES ASSUME Init PROVE TypeOK
    OBVIOUS
  <2>1. SetupConfig(NoDatabase) \in ShardConfig /\ NoDatabase \in Databases \cup {NoDatabase}
    BY SetupConfigType
  <2>2. 0 \in ShardIds
    BY ShardingAssumption DEF ShardIds
  <2>3. <<>> \in Seq(Shard)
    OBVIOUS
  <2>4. served.database = NoDatabase /\ served.config = SetupConfig(NoDatabase)
        /\ served.shards = <<>>
    BY DEF Init
  <2>5. QED
    BY <2>1, <2>2, <2>3, <2>4 DEF Init, TypeOK, Phases, Queries
<1>2. TypeOK /\ [Next]_vars => TypeOK'
  <2> SUFFICES ASSUME TypeOK, [Next]_vars PROVE TypeOK'
    OBVIOUS
  <2>0. 0 \in ShardIds
    BY ShardingAssumption DEF ShardIds
  <2>1. ASSUME NEW db \in Databases, NEW cfg \in ShardConfig, EncodeDatabase(db, cfg)
        PROVE  TypeOK'
    BY <2>0, <2>1 DEF EncodeDatabase, TypeOK, Phases
  <2>2. ASSUME EncodeShard
        PROVE  TypeOK'
    <3>1. offset <= Entries(database)
      BY <2>2, DatabaseType DEF EncodeShard, TypeOK
    <3>2. shards' \in Seq(Shard) /\ offset' \in Nat /\ shardId' \in ShardIds
      BY <2>2, <3>1, EncodeShardType
    <3>3. phase' \in Phases
      BY <2>2 DEF EncodeShard, Phases
    <3>4. QED
      BY <2>2, <3>2, <3>3 DEF EncodeShard, TypeOK
  <2>3. ASSUME Publish
        PROVE  TypeOK'
    <3>1. SetupConfig(NoDatabase) \in ShardConfig
      BY SetupConfigType
    <3>2. served'.database = database /\ served'.config = config /\ served'.shards = shards
      BY <2>3 DEF Publish
    <3>3. phase' \in Phases /\ shards' \in Seq(Shard)
      BY <2>3 DEF Publish, Phases
    <3>4. QED
      BY <2>0, <2>3, <3>1, <3>2, <3>3 DEF Publish, TypeOK
  <2>4. ASSUME NEW i \in Indices, NEW cfg \in ClientConfigs, Query(i, cfg)
        PROVE  TypeOK'
    <3>1. i \in Nat /\ cfg \in ShardConfig /\ cfg.entrySize \in Nat
      BY EncodeAssumption, ClientConfigsType DEF ShardConfig
    <3>2. /\ EntriesPerShard(cfg) \in Nat
          /\ Coordinates(cfg, i).shard \in ShardIds
          /\ InverseMonomial(Coordinates(cfg, i).local)
               \in [position : Coeffs, negative : BOOLEAN]
      BY <2>4, <3>1, QueryType DEF Query
    <3>3. query' \in Queries
      BY <2>4, <3>1, <3>2 DEF Query, Queries
    <3>4. QED
      BY <2>4, <3>3 DEF Query, loopVars, TypeOK
  <2>5. ASSUME Answer
        PROVE  TypeOK'
    <3>1. query' \in Queries
      BY <2>5, AnswerType
    <3>2. QED
      BY <2>5, <3>1 DEF Answer, loopVars, TypeOK
  <2>6. CASE UNCHANGED vars
    BY <2>6 DEF vars, TypeOK
  <2>7. QED
    BY <2>1, <2>2, <2>3, <2>4, <2>5, <2>6, Starts DEF Next
<1>3. QED
  BY <1>1, <1>2, PTL DEF Spec
-----------------------------------------------------------------------------
(* The layout of the shards                                                *)

\* The shards ss hold the first n entries of db under cfg, the ids are the positions,
\* modulo the space of ids, and shard j starts at entry (j - 1) * EntriesPerShard(cfg).
Encoded(ss, db, cfg, n) ==
  /\ n \in 0 .. Entries(db)
  /\ Entries(db) > 0 => EntriesPerShard(cfg) \in 1 .. RingDim
  /\ n <= Len(ss) * EntriesPerShard(cfg)
  /\ Len(ss) > 0 => n > (Len(ss) - 1) * EntriesPerShard(cfg)
  /\ n < Entries(db) => n = Len(ss) * EntriesPerShard(cfg)
  /\ \A j \in 1 .. Len(ss) :
       /\ ss[j].id = (j - 1) % IdSpace
       /\ ss[j].polynomials = EncodeColumns(db, cfg, (j - 1) * EntriesPerShard(cfg))

LEMMA NothingEncoded ==
  ASSUME NEW db \in Databases \cup {NoDatabase}, NEW cfg \in ShardConfig,
         Entries(db) > 0 => EntriesPerShard(cfg) \in 1 .. RingDim
  PROVE  Encoded(<<>>, db, cfg, 0)
<1>1. EntriesPerShard(cfg) \in Nat /\ Entries(db) \in Nat
  BY ConfigType, DatabaseType
<1>2. Len(<<>>) = 0 /\ Len(<<>>) * EntriesPerShard(cfg) = 0
  BY <1>1
<1>3. QED
  BY <1>1, <1>2 DEF Encoded

\* One more iteration of the loop.
LEMMA OneMoreShard ==
  ASSUME NEW ss \in Seq(Shard), NEW db \in Databases \cup {NoDatabase},
         NEW cfg \in ShardConfig, NEW n \in Nat, Encoded(ss, db, cfg, n), n < Entries(db),
         NEW s \in Shard, s.id = Len(ss) % IdSpace,
         s.polynomials = EncodeColumns(db, cfg, n)
  PROVE  Encoded(Append(ss, s), db, cfg, Advanced(db, cfg, n))
<1> DEFINE e == EntriesPerShard(cfg)
           t == Entries(db)
           l == Len(ss)
           m == Advanced(db, cfg, n)
<1>1. e \in 1 .. RingDim /\ t \in Nat /\ l \in Nat /\ RingDim \in Nat
  BY DatabaseType, ShardingAssumption DEF Encoded
<1>2. n = l * e
  BY DEF Encoded
<1>3. m = IF e < t - n THEN n + e ELSE t
  BY <1>1 DEF Advanced, ActualEntries
<1>4. Len(Append(ss, s)) = l + 1 /\ Append(ss, s)[l + 1] = s
      /\ \A j \in 1 .. l : Append(ss, s)[j] = ss[j]
  OBVIOUS
<1>5. \A j \in 1 .. l : /\ ss[j].id = (j - 1) % IdSpace
                        /\ ss[j].polynomials = EncodeColumns(db, cfg, (j - 1) * e)
  BY DEF Encoded
<1> DEFINE as == Append(ss, s)
<1>6. ASSUME NEW j \in 1 .. l + 1
      PROVE  as[j].id = (j - 1) % IdSpace /\ as[j].polynomials = EncodeColumns(db, cfg, (j - 1) * e)
  <2>1. CASE j \in 1 .. l
    BY <1>4, <1>5, <2>1
  <2>2. CASE j = l + 1
    <3>1. j - 1 = l
      BY <1>1, <2>2
    <3>2. QED
      BY <1>2, <1>4, <2>2, <3>1
  <2>3. QED
    BY <1>1, <2>1, <2>2
<1>7. (l + 1) * e = l * e + e /\ ((l + 1) - 1) * e = l * e /\ l * e \in Nat
  BY <1>1
<1> DEFINE le == l * e
<1>8. m \in 0 .. t /\ m <= le + e /\ m > le /\ (m < t => m = le + e)
  <2>1. le \in Nat /\ n = le
    BY <1>2, <1>7
  <2> HIDE DEF le, m
  <2>2. QED
    BY <1>1, <1>3, <2>1
<1>9. Len(as) = l + 1
  BY <1>4
<1> HIDE DEF e, t, l, m, as
<1>10. /\ m <= Len(as) * e
       /\ m > (Len(as) - 1) * e
       /\ m < t => m = Len(as) * e
  BY <1>7, <1>8, <1>9
<1>11. \A j \in 1 .. Len(as) :
         as[j].id = (j - 1) % IdSpace /\ as[j].polynomials = EncodeColumns(db, cfg, (j - 1) * e)
  BY <1>6, <1>9
<1>12. Encoded(as, db, cfg, m)
  BY <1>1, <1>8, <1>10, <1>11 DEF Encoded, e, t
<1>13. QED
  BY <1>12 DEF as, m

\* The inductive invariant: the shards of the loop, also of one that panicked, and
\* those in service are laid out that way.
LayoutInv ==
  /\ phase \in {"encoding", "panicked"} => Encoded(shards, database, config, offset)
  /\ phase = "encoding" => shardId = Len(shards) % IdSpace
  /\ phase = "panicked" => Len(shards) >= IdSpace
  /\ Encoded(served.shards, served.database, served.config, Entries(served.database))

LEMMA LayoutStep ==
  TypeOK /\ LayoutInv /\ [Next]_vars => LayoutInv'
<1> SUFFICES ASSUME TypeOK, LayoutInv, [Next]_vars
             PROVE  LayoutInv'
  OBVIOUS
<1>0. IdSpace \in Nat \ {0}
  BY ShardingAssumption
<1>1. ASSUME NEW db \in Databases, NEW cfg \in ShardConfig, EncodeDatabase(db, cfg)
      PROVE  LayoutInv'
  <2>1. served' = served
    BY <1>1 DEF EncodeDatabase
  <2>2. CASE phase' = "encoding"
    <3>1. EntriesPerShard(cfg) \in Nat /\ RingDim \in Nat /\ Entries(db) \in Nat
      BY ConfigType, DatabaseType, ShardingAssumption
    <3>2. Entries(db) > 0 => EntriesPerShard(cfg) \in 1 .. RingDim
      BY <1>1, <2>2, <3>1 DEF EncodeDatabase
    <3>3. Encoded(<<>>, db, cfg, 0)
      BY <3>2, NothingEncoded
    <3>4. 0 % IdSpace = 0
      BY <1>0
    <3>5. QED
      BY <1>1, <2>1, <2>2, <3>3, <3>4 DEF EncodeDatabase, LayoutInv
  <2>3. CASE phase' = "refused"
    BY <2>1, <2>3 DEF LayoutInv
  <2>4. QED
    BY <1>1, <2>2, <2>3 DEF EncodeDatabase
<1>2. ASSUME EncodeShard
      PROVE  LayoutInv'
  <2> DEFINE s == [id |-> shardId, polynomials |-> EncodeColumns(database, config, offset)]
  <2>1. Encoded(shards, database, config, offset) /\ shardId = Len(shards) % IdSpace
    BY <1>2 DEF EncodeShard, LayoutInv
  <2>2. offset < Entries(database) /\ shards' = Append(shards, s)
        /\ offset' = Advanced(database, config, offset)
        /\ database' = database /\ config' = config /\ served' = served
    BY <1>2 DEF EncodeShard
  <2>3. shards \in Seq(Shard) /\ offset \in Nat /\ config \in ShardConfig /\ shardId \in ShardIds
        /\ database \in Databases \cup {NoDatabase}
    BY DEF TypeOK
  <2>4. s \in Shard /\ s.id = Len(shards) % IdSpace
        /\ s.polynomials = EncodeColumns(database, config, offset)
    <3>1. EncodeColumns(database, config, offset) \in Seq(Polynomial)
      BY <2>2, <2>3, EncodeColumnsType, DatabaseType
    <3>2. QED
      BY <2>1, <2>3, <3>1 DEF Shard
  <2> HIDE DEF s
  <2>5. Encoded(shards', database', config', offset')
    BY <2>1, <2>2, <2>3, <2>4, OneMoreShard
  <2>6. Len(shards) \in Nat /\ Len(shards') = Len(shards) + 1
    BY <2>2, <2>3
  <2>7. CASE shardId' = NextShardId /\ phase' = phase
    <3>1. NextShardId = Len(shards') % IdSpace
      BY <1>0, <2>1, <2>6, RemainderOfSuccessor DEF NextShardId
    <3>2. QED
      BY <1>2, <2>2, <2>5, <2>7, <3>1 DEF LayoutInv, EncodeShard
  <2>8. CASE shardId + 1 = IdSpace /\ phase' = "panicked"
    <3>1. Len(shards) % IdSpace <= Len(shards)
      BY <1>0, <2>6
    <3>2. Len(shards') >= IdSpace
      BY <1>0, <2>1, <2>3, <2>6, <2>8, <3>1 DEF ShardIds
    <3>3. QED
      BY <2>2, <2>5, <2>8, <3>2 DEF LayoutInv
  <2>9. QED
    BY <1>2, <2>7, <2>8 DEF EncodeShard
<1>3. ASSUME Publish
      PROVE  LayoutInv'
  <2>1. Encoded(shards, database, config, offset) /\ offset >= Entries(database)
    BY <1>3 DEF Publish, LayoutInv
  <2>2. offset = Entries(database)
    BY <2>1, DatabaseType DEF Encoded, TypeOK
  <2>3. phase' = "idle" /\ served'.shards = shards /\ served'.database = database
        /\ served'.config = config
    BY <1>3 DEF Publish
  <2>4. QED
    BY <2>1, <2>2, <2>3 DEF LayoutInv
<1>4. ASSUME NEW i \in Indices, NEW cfg \in ClientConfigs, Query(i, cfg)
      PROVE  LayoutInv'
  BY <1>4 DEF Query, LayoutInv, loopVars
<1>5. ASSUME Answer
      PROVE  LayoutInv'
  BY <1>5 DEF Answer, LayoutInv, loopVars
<1>6. CASE UNCHANGED vars
  BY <1>6 DEF LayoutInv, vars
<1>7. QED
  BY <1>1, <1>2, <1>3, <1>4, <1>5, <1>6, Starts DEF Next

LEMMA LayoutInvariant == Spec => []LayoutInv
<1>1. Init => LayoutInv
  <2>1. Entries(NoDatabase) = 0
    BY DEF Entries, NoDatabase
  <2>2. Encoded(<<>>, NoDatabase, SetupConfig(NoDatabase), 0)
    BY <2>1, SetupConfigType, NothingEncoded
  <2>3. QED
    BY <2>1, <2>2 DEF Init, LayoutInv
<1>2. QED
  BY <1>1, LayoutStep, TypeCorrect, PTL DEF Spec
-----------------------------------------------------------------------------
(* Where the entries are                                                   *)

\* The first shard with an id is the one at that position.
LEMMA FirstIsPosition ==
  ASSUME NEW ss \in Seq(Shard), NEW db, NEW cfg, NEW n, Encoded(ss, db, cfg, n),
         NEW s \in ShardIds, NEW j \in DOMAIN ss
  PROVE  IsFirst(ss, s, j) <=> j = s + 1
<1>1. IdSpace \in Nat \ {0} /\ s \in 0 .. IdSpace - 1 /\ Len(ss) \in Nat /\ j \in 1 .. Len(ss)
  BY ShardingAssumption DEF ShardIds
<1>2. \A i \in 1 .. Len(ss) : ss[i].id = (i - 1) % IdSpace
  BY DEF Encoded
<1>3. ASSUME NEW i \in 1 .. Len(ss), i <= s + 1
      PROVE  ss[i].id = i - 1
  <2>1. i - 1 \in 0 .. IdSpace - 1
    BY <1>1, <1>3
  <2>2. (i - 1) % IdSpace = i - 1
    BY <1>1, <2>1, SmallRemainder
  <2>3. QED
    BY <1>2, <2>2
<1>4. ASSUME j = s + 1
      PROVE  IsFirst(ss, s, j)
  BY <1>1, <1>3, <1>4 DEF IsFirst
<1>5. ASSUME IsFirst(ss, s, j)
      PROVE  j = s + 1
  <2>1. ~(j < s + 1)
    <3>1. SUFFICES ASSUME j < s + 1 PROVE FALSE
      OBVIOUS
    <3>2. ss[j].id = j - 1
      BY <1>1, <1>3, <3>1
    <3>3. QED
      BY <1>1, <1>5, <3>1, <3>2 DEF IsFirst
  <2>2. ~(j > s + 1)
    <3>1. SUFFICES ASSUME j > s + 1 PROVE FALSE
      OBVIOUS
    <3>2. s + 1 \in 1 .. Len(ss) /\ s + 1 \in 1 .. j - 1
      BY <1>1, <3>1
    <3>3. ss[s + 1].id = s
      BY <1>1, <1>3, <3>2
    <3>4. QED
      BY <1>5, <3>2, <3>3 DEF IsFirst
  <2>3. QED
    BY <1>1, <2>1, <2>2
<1>6. QED
  BY <1>4, <1>5

\* Each of the first n entries is in the shard and at the coefficient index_to_shard
\* names.
LEMMA Located ==
  ASSUME NEW ss \in Seq(Shard), NEW db \in Databases \cup {NoDatabase},
         NEW cfg \in ShardConfig, NEW n \in Nat, Encoded(ss, db, cfg, n),
         NEW i \in 0 .. n - 1
  PROVE  /\ EntriesPerShard(cfg) \in 1 .. RingDim
         /\ Coordinates(cfg, i).shard + 1 \in DOMAIN ss
         /\ Coordinates(cfg, i).local \in Coeffs
         /\ LET columns == ss[Coordinates(cfg, i).shard + 1].polynomials
            IN  /\ Len(columns) = NumColumns(db.size)
                /\ \A c \in 1 .. NumColumns(db.size) :
                     columns[c][Coordinates(cfg, i).local] = ColumnValue(Entry(db, i), c)
<1> DEFINE e == EntriesPerShard(cfg)
           t == Entries(db)
           l == Len(ss)
           s == i \div e
           k == i % e
           first == s * e
<1>1. e \in 1 .. RingDim /\ RingDim \in Nat /\ t \in Nat /\ l \in Nat /\ n \in 0 .. t
      /\ n <= l * e
  BY DatabaseType, ShardingAssumption DEF Encoded
<1>2. Coordinates(cfg, i).shard = s /\ Coordinates(cfg, i).local = k
  BY DEF Coordinates
<1>3. \A j \in 1 .. l : ss[j].polynomials = EncodeColumns(db, cfg, (j - 1) * e)
  BY DEF Encoded
<1>4. ActualEntries(db, cfg, first) = IF e < t - first THEN e ELSE t - first
  BY DEF ActualEntries
<1> HIDE DEF e, t, l
<1>5. s \in Nat /\ k \in 0 .. e - 1 /\ i = e * s + k
  <2>1. i \in Nat /\ e \in Nat \ {0}
    BY <1>1
  <2>2. QED
    BY <2>1, Euclid
<1> HIDE DEF s, k
<1>6. s < l
  <2>1. ~(l < s)
    <3>1. SUFFICES ASSUME l < s PROVE FALSE
      OBVIOUS
    <3>2. e * l + e <= e * s
      BY <1>1, <1>5, <3>1, NextMultiple
    <3>3. l * e = e * l
      BY <1>1
    <3>4. QED
      BY <1>1, <1>5, <3>2, <3>3
  <2>2. s # l
    <3>1. SUFFICES ASSUME s = l PROVE FALSE
      OBVIOUS
    <3>2. e * s = l * e
      BY <1>1, <3>1
    <3>3. QED
      BY <1>1, <1>5, <3>2
  <2>3. QED
    BY <1>1, <1>5, <2>1, <2>2
<1>7. s + 1 \in 1 .. l /\ (s + 1) - 1 = s
  BY <1>1, <1>5, <1>6
<1>8. ss[s + 1].polynomials = EncodeColumns(db, cfg, first)
  BY <1>3, <1>7
<1>9. first \in Nat /\ first + k = i
  BY <1>1, <1>5
<1> HIDE DEF first
<1>10. first \in 0 .. t /\ k < ActualEntries(db, cfg, first) /\ k \in Coeffs
  BY <1>1, <1>4, <1>5, <1>9 DEF Coeffs
<1>11. Len(EncodeColumns(db, cfg, first)) = NumColumns(db.size)
  BY <1>10, EncodeColumnsType DEF t
<1>12. ASSUME NEW c \in 1 .. NumColumns(db.size)
       PROVE  EncodeColumns(db, cfg, first)[c][k] = ColumnValue(Entry(db, i), c)
  BY <1>9, <1>10 DEF EncodeColumns
<1>13. QED
  BY <1>1, <1>2, <1>7, <1>8, <1>10, <1>11, <1>12 DEF e, l

LEMMA Found ==
  ASSUME NEW ss \in Seq(Shard), NEW db \in Databases \cup {NoDatabase},
         NEW cfg \in ShardConfig, NEW n \in Nat, Encoded(ss, db, cfg, n),
         NEW i \in 0 .. n - 1
  PROVE  HoldsEntry(ss, cfg, db, i)
<1> SUFFICES ASSUME Addressable(cfg, i)
             PROVE  LET at == Coordinates(cfg, i)
                    IN  \E j \in DOMAIN ss :
                          /\ IsFirst(ss, at.shard, j)
                          /\ Len(ss[j].polynomials) = NumColumns(db.size)
                          /\ \A c \in DOMAIN ss[j].polynomials :
                               ss[j].polynomials[c][at.local] = ColumnValue(Entry(db, i), c)
  BY DEF HoldsEntry
<1> DEFINE at == Coordinates(cfg, i)
           j == at.shard + 1
           columns == ss[j].polynomials
<1>1. /\ EntriesPerShard(cfg) \in 1 .. RingDim /\ j \in DOMAIN ss /\ at.local \in Coeffs
      /\ Len(columns) = NumColumns(db.size)
      /\ \A c \in 1 .. NumColumns(db.size) :
           columns[c][at.local] = ColumnValue(Entry(db, i), c)
  BY Located
<1>2. at.shard \in ShardIds
  <2>1. i \in Nat /\ RingDim \in Nat /\ EntriesPerShard(cfg) \in Nat
    BY ConfigType, ShardingAssumption
  <2>2. at.local <= RingDim
    BY <1>1, <2>1 DEF Coeffs
  <2>3. QED
    BY <2>1, <2>2, QueryType
<1>3. columns \in Seq(Polynomial)
  <2>1. ss[j] \in Shard
    BY <1>1
  <2>2. QED
    BY <2>1 DEF Shard
<1> HIDE DEF at, columns
<1>4. IsFirst(ss, at.shard, j)
  BY <1>1, <1>2, FirstIsPosition
<1>5. DOMAIN columns = 1 .. NumColumns(db.size)
  BY <1>1, <1>3
<1>6. QED
  BY <1>1, <1>4, <1>5 DEF at, columns

\* Every entry encoded so far, and every entry of the database in service, is where
\* index_to_shard says it is.
THEOREM EntriesAreFound == Spec => []EntriesFound
<1>1. TypeOK /\ LayoutInv => EntriesFound
  <2> SUFFICES ASSUME TypeOK, LayoutInv PROVE EntriesFound
    OBVIOUS
  <2>1. ASSUME phase = "encoding", NEW i \in 0 .. offset - 1
        PROVE  HoldsEntry(shards, config, database, i)
    <3>1. Encoded(shards, database, config, offset)
      BY <2>1 DEF LayoutInv
    <3>2. QED
      BY <3>1, Found DEF TypeOK
  <2>2. ASSUME NEW i \in 0 .. Entries(served.database) - 1
        PROVE  HoldsEntry(served.shards, served.config, served.database, i)
    <3>1. Entries(served.database) \in Nat
      BY DatabaseType DEF TypeOK
    <3>2. QED
      BY <3>1, Found DEF TypeOK, LayoutInv
  <2>3. QED
    BY <2>1, <2>2 DEF EntriesFound
<1>2. QED
  BY <1>1, TypeCorrect, LayoutInvariant, PTL
-----------------------------------------------------------------------------
(* How many shards there are                                               *)

LEMMA Counted ==
  ASSUME NEW ss \in Seq(Shard), NEW db \in Databases \cup {NoDatabase},
         NEW cfg \in ShardConfig, NEW n \in Nat, Encoded(ss, db, cfg, n)
  PROVE  Len(ss) = NumShards([cfg EXCEPT !.total = n])
<1> DEFINE e == EntriesPerShard(cfg)
           l == Len(ss)
           c == [cfg EXCEPT !.total = n]
<1>1. EntriesPerShard(c) = e /\ c.total = n
  <2>1. c.shardSize = cfg.shardSize /\ c.entrySize = cfg.entrySize /\ c.total = n
    BY Zenon DEF ShardConfig
  <2>2. QED
    BY <2>1 DEF EntriesPerShard
<1>2. /\ e \in Nat /\ l \in Nat /\ n \in 0 .. Entries(db) /\ Entries(db) \in Nat
      /\ Entries(db) > 0 => e # 0
      /\ n <= l * e
      /\ l > 0 => n > (l - 1) * e
      /\ NumShards(c) = IF EntriesPerShard(c) = 0 THEN 0
                        ELSE CeilDiv(c.total, EntriesPerShard(c))
  BY ConfigType, DatabaseType, ShardingAssumption DEF Encoded, NumShards
<1> HIDE DEF e, l, c
<1>3. CASE e = 0
  <2>1. n = 0
    BY <1>2, <1>3
  <2>2. ~(l > 0)
    <3>1. SUFFICES ASSUME l > 0 PROVE FALSE
      OBVIOUS
    <3>2. (l - 1) * e = 0
      BY <1>2, <1>3
    <3>3. QED
      BY <1>2, <2>1, <3>1, <3>2
  <2>3. QED
    BY <1>1, <1>2, <1>3, <2>2 DEF c, l
<1>4. CASE e # 0
  <2>1. n > (l - 1) * e
    <3>1. CASE l = 0
      <4>1. (l - 1) * e = 0 - e
        BY <1>2, <3>1
      <4>2. QED
        BY <1>2, <1>4, <4>1
    <3>2. CASE l > 0
      BY <1>2, <3>2
    <3>3. QED
      BY <1>2, <3>1, <3>2
  <2>2. CeilDiv(n, e) = l
    BY <1>2, <1>4, <2>1, CeilDivIs
  <2>3. QED
    BY <1>1, <1>2, <1>4, <2>2 DEF c, l
<1>5. QED
  BY <1>3, <1>4

\* At every iteration there are as many shards as num_shards counts for the entries
\* encoded so far, and the database in service has as many as it counts for all.
THEOREM LoopCountsShards == Spec => []ShardsCounted
<1>1. TypeOK /\ LayoutInv => ShardsCounted
  <2> SUFFICES ASSUME TypeOK, LayoutInv PROVE ShardsCounted
    OBVIOUS
  <2>1. ASSUME phase = "encoding"
        PROVE  Len(shards) = NumShards([config EXCEPT !.total = offset])
    <3>1. /\ Encoded(shards, database, config, offset) /\ shards \in Seq(Shard)
          /\ database \in Databases \cup {NoDatabase}
          /\ config \in ShardConfig /\ offset \in Nat
      BY <2>1 DEF TypeOK, LayoutInv
    <3>2. QED
      BY <3>1, Counted, Zenon
  <2>2. Len(served.shards)
          = NumShards([served.config EXCEPT !.total = Entries(served.database)])
    <3>1. /\ Encoded(served.shards, served.database, served.config,
                     Entries(served.database))
          /\ served.shards \in Seq(Shard)
          /\ served.database \in Databases \cup {NoDatabase}
          /\ served.config \in ShardConfig
      BY DEF TypeOK, LayoutInv
    <3>2. Entries(served.database) \in Nat
      BY <3>1, DatabaseType
    <3>3. QED
      BY <3>1, <3>2, Counted
  <2>3. QED
    BY <2>1, <2>2 DEF ShardsCounted
<1>2. QED
  BY <1>1, TypeCorrect, LayoutInvariant, PTL

\* A configuration that passes validate never overflows the shard id: validate
\* refuses the configurations with as many shards as there are ids.
THEOREM ValidDatabasesEncode == Spec => []ValidNeverPanics
<1>1. TypeOK /\ LayoutInv => ValidNeverPanics
  <2> SUFFICES ASSUME TypeOK, LayoutInv, phase = "panicked", Valid(config),
                      config.total = Entries(database)
               PROVE  FALSE
    BY DEF ValidNeverPanics
  <2> DEFINE c == [config EXCEPT !.total = offset]
             e == EntriesPerShard(config)
             t == Entries(database)
  <2>1. Encoded(shards, database, config, offset) /\ Len(shards) >= IdSpace
        /\ config \in ShardConfig /\ Len(shards) \in Nat /\ offset \in Nat
    BY DEF LayoutInv, TypeOK
  <2>2. e \in Nat /\ e # 0 /\ t \in Nat /\ IdSpace \in Nat
        /\ offset \in 0 .. t /\ offset > (Len(shards) - 1) * e
    BY <2>1, ConfigType, DatabaseType, ShardingAssumption DEF TypeOK, Valid, Encoded
  <2>3. NumShards(config) = CeilDiv(t, e) /\ NumShards(config) <= IdSpace - 1
    BY <2>2 DEF NumShards, Valid
  <2> HIDE DEF e, t
  <2>4. CeilDiv(t, e) \in Nat /\ CeilDiv(t, e) >= Len(shards)
    <3> DEFINE m == t + e - 1
               l == Len(shards)
    <3>1. m \in Nat /\ m >= (l - 1) * e + e
      BY <2>1, <2>2
    <3>2. (l - 1) * e + e = e * l
      BY <2>1, <2>2
    <3>3. m \div e \in Nat /\ m % e \in 0 .. e - 1 /\ m = e * (m \div e) + (m % e)
      BY <2>2, <3>1, Euclid
    <3> HIDE DEF m, l
    <3>4. ~(m \div e < l)
      BY <2>1, <2>2, <3>1, <3>2, <3>3, NextMultiple DEF l
    <3>5. QED
      BY <2>1, <3>3, <3>4 DEF m, l, CeilDiv
  <2>5. QED
    BY <2>1, <2>2, <2>3, <2>4
<1>2. QED
  BY <1>1, TypeCorrect, LayoutInvariant, PTL
-----------------------------------------------------------------------------
(* What a client reads                                                     *)

\* A query on its way names the shard and the rotation of its index, for the entries
\* per shard its client counts on.
QueryInv ==
  query.phase = "sent" =>
    /\ query.index \in Nat /\ query.size \in Nat /\ query.perShard \in Nat \ {0}
    /\ query.shard = query.index \div query.perShard /\ query.shard \in ShardIds
    /\ query.index % query.perShard <= RingDim
    /\ query.rotation = InverseMonomial(query.index % query.perShard)

LEMMA QueryInvariant == Spec => []QueryInv
<1>1. Init => QueryInv
  BY DEF Init, QueryInv, NoQuery
<1>2. TypeOK /\ QueryInv /\ [Next]_vars => QueryInv'
  <2> SUFFICES ASSUME TypeOK, QueryInv, [Next]_vars PROVE QueryInv'
    OBVIOUS
  <2>1. ASSUME NEW db \in Databases, NEW cfg \in ShardConfig, EncodeDatabase(db, cfg)
        PROVE  QueryInv'
    BY <2>1 DEF EncodeDatabase, QueryInv
  <2>2. ASSUME EncodeShard
        PROVE  QueryInv'
    BY <2>2 DEF EncodeShard, QueryInv
  <2>3. ASSUME Publish
        PROVE  QueryInv'
    BY <2>3 DEF Publish, QueryInv
  <2>4. ASSUME NEW i \in Indices, NEW cfg \in ClientConfigs, Query(i, cfg)
        PROVE  QueryInv'
    <3>1. i \in Nat /\ cfg \in ShardConfig /\ cfg.entrySize \in Nat
      BY EncodeAssumption, ClientConfigsType DEF ShardConfig
    <3>2. Addressable(cfg, i) /\ Coordinates(cfg, i).local <= RingDim
      BY <2>4 DEF Query
    <3>3. EntriesPerShard(cfg) \in Nat \ {0} /\ Coordinates(cfg, i).shard \in ShardIds
      BY <3>1, <3>2, QueryType
    <3>4. /\ query'.index = i /\ query'.size = cfg.entrySize
          /\ query'.perShard = EntriesPerShard(cfg)
          /\ query'.shard = Coordinates(cfg, i).shard
          /\ query'.rotation = InverseMonomial(Coordinates(cfg, i).local)
      BY <2>4 DEF Query
    <3>5. /\ Coordinates(cfg, i).shard = i \div EntriesPerShard(cfg)
          /\ Coordinates(cfg, i).local = i % EntriesPerShard(cfg)
      BY DEF Coordinates
    <3>6. /\ query'.index \in Nat /\ query'.size \in Nat /\ query'.perShard \in Nat \ {0}
          /\ query'.shard = query'.index \div query'.perShard /\ query'.shard \in ShardIds
          /\ query'.index % query'.perShard <= RingDim
          /\ query'.rotation = InverseMonomial(query'.index % query'.perShard)
      BY <3>1, <3>2, <3>3, <3>4, <3>5, Zenon
    <3>7. QED
      BY <3>6 DEF QueryInv
  <2>5. ASSUME Answer
        PROVE  QueryInv'
    <3>1. CASE query' = NotFound
      BY <3>1 DEF QueryInv, NotFound
    <3>2. CASE query' # NotFound
      <4>1. PICK e : query' = [phase |-> "read", entry |-> e]
        BY <2>5, <3>2 DEF Answer
      <4>2. QED
        BY <4>1 DEF QueryInv
    <3>3. QED
      BY <3>1, <3>2
  <2>6. CASE UNCHANGED vars
    BY <2>6 DEF vars, QueryInv
  <2>7. QED
    BY <2>1, <2>2, <2>3, <2>4, <2>5, <2>6, Starts DEF Next
<1>3. QED
  BY <1>1, <1>2, TypeCorrect, PTL DEF Spec

\* The bytes of columns that hold entry i, or zeros, are the entry, cut or filled up
\* to the size the client knows.
LEMMA Reconstructed ==
  ASSUME NEW db \in Databases \cup {NoDatabase}, NEW i \in Nat, NEW size \in Nat,
         NEW count \in Nat, NEW values, values = [c \in 1 .. count |-> values[c]],
         count = NumColumns(size) \/ count = NumColumns(db.size),
         count <= NumColumns(db.size),
         \A c \in 1 .. count : values[c] = IF i < Entries(db)
                                           THEN ColumnValue(Entry(db, i), c) ELSE 0
  PROVE  ReconstructEntry(values, size) = EntryAtSize(db, i, size)
<1> DEFINE byte(b) == LET value == At(values, (b + 1) \div 2)
                      IN  IF b % 2 = 1 THEN value % 256 ELSE (value \div 256) % 256
           expected(b) == IF i < Entries(db) /\ b <= db.size THEN Entry(db, i)[b] ELSE 0
<1>1. ASSUME NEW b \in 1 .. size
      PROVE  byte(b) = expected(b)
  <2> DEFINE c == (b + 1) \div 2
  <2>1. c \in Nat \ {0} /\ (b % 2 = 1 => b = 2 * c - 1) /\ (b % 2 # 1 => b = 2 * c)
    OBVIOUS
  <2>1a. byte(b) = IF b % 2 = 1 THEN At(values, c) % 256 ELSE (At(values, c) \div 256) % 256
    OBVIOUS
  <2> HIDE DEF c, byte
  <2>2. Len(values) = count
    BY FunctionIsSequence
  <2>3. db.size \in Nat \ {0} /\ Entries(db) \in Nat
    BY DatabaseType
  <2>4. CASE c <= count /\ i < Entries(db)
    <3> DEFINE x == At(Entry(db, i), 2 * c - 1)
               y == At(Entry(db, i), 2 * c)
    <3>1. Entry(db, i) \in Seq(Byte) /\ Len(Entry(db, i)) = db.size
      BY <2>3, <2>4, DatabaseType
    <3>2. x \in Byte /\ y \in Byte
      <4>1. 0 \in Byte /\ 2 * c - 1 \in Nat \ {0} /\ 2 * c \in Nat \ {0}
        BY <2>1 DEF Byte
      <4>2. ASSUME NEW p \in Nat \ {0}
            PROVE  At(Entry(db, i), p) \in Byte
        BY <3>1, <4>1, AtType
      <4>3. QED
        BY <4>1, <4>2
    <3>3. At(values, c) = x + 256 * y
      <4>1. At(values, c) = values[c] /\ c \in 1 .. count
        BY <2>1, <2>2, <2>4 DEF At
      <4>2. QED
        BY <2>4, <4>1 DEF ColumnValue
    <3>4. byte(b) = IF b % 2 = 1 THEN x ELSE y
      <4>1. (x + 256 * y) % 256 = x /\ ((x + 256 * y) \div 256) % 256 = y
        BY <3>2, ByteSplit
      <4> HIDE DEF x, y
      <4>2. QED
        BY <2>1a, <3>3, <4>1
    <3>5. expected(b) = At(Entry(db, i), b)
      BY <2>4, <3>1 DEF At
    <3> HIDE DEF expected
    <3>6. QED
      BY <2>1, <3>4, <3>5
  <2>5. CASE ~(c <= count /\ i < Entries(db))
    <3>1. At(values, c) = 0
      <4>1. CASE c <= count
        <5>1. ~(i < Entries(db)) /\ c \in 1 .. count
          BY <2>1, <2>5, <4>1
        <5>2. QED
          BY <2>2, <4>1, <5>1 DEF At
      <4>2. CASE ~(c <= count)
        BY <2>2, <4>2 DEF At
      <4>3. QED
        BY <4>1, <4>2
    <3>2. byte(b) = 0
      <4>1. 0 % 256 = 0 /\ (0 \div 256) % 256 = 0
        OBVIOUS
      <4>2. QED
        BY <2>1a, <3>1, <4>1
    <3>3. ~(i < Entries(db) /\ b <= db.size)
      BY <2>3, <2>5 DEF NumColumns, c
    <3>4. QED
      BY <3>2, <3>3
  <2>6. QED
    BY <2>4, <2>5
<1>2. ReconstructEntry(values, size) = [b \in 1 .. size |-> byte(b)]
  BY DEF ReconstructEntry
<1>3. EntryAtSize(db, i, size) = [b \in 1 .. size |-> expected(b)]
  BY DEF EntryAtSize
<1> HIDE DEF byte, expected
<1>4. QED
  BY <1>1, <1>2, <1>3

\* A column of a shard, rotated for a local index, reads the entry there, or zero
\* past the last entry.
LEMMA RotatedColumn ==
  ASSUME NEW db \in Databases \cup {NoDatabase}, NEW cfg \in ShardConfig,
         EntriesPerShard(cfg) \in 1 .. RingDim, NEW i \in Nat,
         EntriesPerShard(cfg) * (i \div EntriesPerShard(cfg)) <= Entries(db),
         NEW c \in 1 .. NumColumns(db.size)
  PROVE  LET first == (i \div EntriesPerShard(cfg)) * EntriesPerShard(cfg)
             k == i % EntriesPerShard(cfg)
         IN  ConstantTerm(EncodeColumns(db, cfg, first)[c], InverseMonomial(k))
               = IF i < Entries(db) THEN ColumnValue(Entry(db, i), c) ELSE 0
<1> DEFINE e == EntriesPerShard(cfg)
           s == i \div e
           first == s * e
           k == i % e
           columns == EncodeColumns(db, cfg, first)
<1>1. e \in 1 .. RingDim /\ RingDim \in Nat /\ Entries(db) \in Nat
  <2>1. Entries(db) \in Nat
    BY DatabaseType
  <2>2. QED
    BY <2>1, ShardingAssumption
<1>2. s \in Nat /\ k \in 0 .. e - 1 /\ i = e * s + k /\ e * s <= Entries(db)
  <2>1. e \in Nat \ {0} /\ e * s <= Entries(db)
    BY <1>1
  <2> HIDE DEF e
  <2>2. QED
    BY <2>1, Euclid
<1>3. columns[c] \in Polynomial /\ columns[c] = [a \in Coeffs |->
         IF a < ActualEntries(db, cfg, first) THEN ColumnValue(Entry(db, first + a), c) ELSE 0]
  <2>1. first \in 0 .. Entries(db)
    <3> HIDE DEF s, e
    <3>1. QED
      BY <1>1, <1>2
  <2>2. columns \in Seq(Polynomial) /\ Len(columns) = NumColumns(db.size)
    <3> HIDE DEF first
    <3>1. QED
      BY <2>1, EncodeColumnsType
  <2>3. columns[c] \in Polynomial
    <3> HIDE DEF columns
    <3>1. QED
      BY <2>2
  <2>4. QED
    BY <2>3 DEF EncodeColumns
<1>4. ActualEntries(db, cfg, first) = IF e < Entries(db) - first THEN e ELSE Entries(db) - first
  BY DEF ActualEntries
<1> HIDE DEF e, s, k, columns
<1>5. first \in Nat /\ first + k = i /\ k \in Coeffs
  BY <1>1, <1>2 DEF Coeffs
<1> HIDE DEF first
<1>6. k < ActualEntries(db, cfg, first) <=> i < Entries(db)
  BY <1>1, <1>2, <1>4, <1>5
<1>7. ConstantTerm(columns[c], InverseMonomial(k)) = columns[c][k]
  BY <1>3, <1>5, RotationReads
<1>8. QED
  BY <1>3, <1>5, <1>6, <1>7 DEF e, s, k, columns, first

\* The entries of a shard start within the database.
LEMMA StartsWithin ==
  ASSUME NEW ss \in Seq(Shard), NEW db \in Databases \cup {NoDatabase},
         NEW cfg \in ShardConfig, NEW n \in Nat, Encoded(ss, db, cfg, n),
         NEW s \in Nat, s + 1 \in DOMAIN ss
  PROVE  /\ EntriesPerShard(cfg) \in 1 .. RingDim
         /\ EntriesPerShard(cfg) * s <= Entries(db)
<1> DEFINE e == EntriesPerShard(cfg)
           l == Len(ss)
<1>1. /\ e \in Nat /\ l \in Nat /\ Entries(db) \in Nat /\ n \in 0 .. Entries(db)
      /\ l > 0 /\ n > (l - 1) * e /\ s <= l - 1
      /\ Entries(db) > 0 => e \in 1 .. RingDim
  BY ConfigType, DatabaseType DEF Encoded
<1> HIDE DEF e, l
<1>2. (l - 1) * e \in Nat
  BY <1>1
<1>3. e * s <= (l - 1) * e
  <2>1. (l - 1) * e = e * (l - 1)
    BY <1>1
  <2>2. CASE s = l - 1
    BY <1>1, <1>2, <2>1, <2>2
  <2>3. CASE s # l - 1
    <3>1. s < l - 1 /\ l - 1 \in Nat
      BY <1>1, <2>3
    <3>2. e * s + e <= e * (l - 1)
      BY <1>1, <3>1, NextMultiple
    <3>3. QED
      BY <1>1, <2>1, <3>2
  <2>4. QED
    BY <2>2, <2>3
<1>4. QED
  BY <1>1, <1>2, <1>3 DEF e

LEMMA AnswerIsRight ==
  ASSUME TypeOK, LayoutInv, QueryInv, Answer,
         query.perShard = EntriesPerShard(served.config)
  PROVE  \/ query' = NotFound /\ query.index >= Entries(served.database)
         \/ query' = [phase |-> "read",
                      entry |-> EntryAtSize(served.database, query.index, query.size)]
<1> DEFINE ss == served.shards
           db == served.database
           cfg == served.config
           e == EntriesPerShard(cfg)
           i == query.index
           s == i \div e
           k == i % e
<1>1. /\ ss \in Seq(Shard) /\ db \in Databases \cup {NoDatabase} /\ cfg \in ShardConfig
      /\ Entries(db) \in Nat /\ Encoded(ss, db, cfg, Entries(db))
  BY DatabaseType DEF TypeOK, LayoutInv
<1>2. /\ query.phase = "sent" /\ i \in Nat /\ query.size \in Nat /\ e \in Nat \ {0}
      /\ query.shard = s /\ s \in ShardIds /\ query.rotation = InverseMonomial(k)
  <2>1. query.phase = "sent"
    BY DEF Answer
  <2>2. /\ i \in Nat /\ query.size \in Nat /\ query.perShard \in Nat \ {0}
        /\ query.shard = i \div query.perShard /\ query.shard \in ShardIds
        /\ query.rotation = InverseMonomial(i % query.perShard)
    BY <2>1, Zenon DEF QueryInv
  <2>3. query.perShard = e
    OBVIOUS
  <2>4. s = i \div query.perShard /\ k = i % query.perShard
    BY <2>3
  <2> HIDE DEF e, i, s, k
  <2>5. QED
    BY <2>1, <2>2, <2>3, <2>4
<1>3. s \in Nat /\ k \in Nat
  <2>1. ASSUME NEW a \in Nat, NEW b \in Nat \ {0}
        PROVE  a \div b \in Nat /\ a % b \in Nat
    OBVIOUS
  <2> HIDE DEF e, i
  <2>2. QED
    BY <1>2, <2>1, Zenon
<1>4. CASE /\ \A j \in DOMAIN ss : ss[j].id # s
           /\ query' = NotFound
  <2>1. ~(i < Entries(db))
    <3>1. SUFFICES ASSUME i < Entries(db) PROVE FALSE
      OBVIOUS
    <3>2. Coordinates(cfg, i).shard + 1 \in DOMAIN ss
      <4> HIDE DEF ss, db, cfg, i
      <4>1. i \in 0 .. Entries(db) - 1
        BY <1>1, <1>2, <3>1
      <4>2. QED
        BY <1>1, <4>1, Located
    <3>3. s + 1 \in DOMAIN ss
      BY <3>2 DEF Coordinates
    <3>4. IsFirst(ss, s, s + 1)
      <4> HIDE DEF ss, db, cfg, s
      <4>1. QED
        BY <1>1, <1>2, <3>3, FirstIsPosition
    <3>5. QED
      BY <1>4, <3>3, <3>4 DEF IsFirst
  <2>2. QED
    BY <1>1, <1>2, <1>4, <2>1
<1>5. ASSUME NEW j \in DOMAIN ss, IsFirst(ss, s, j),
             LET columns == ss[j].polynomials
                 count == IF NumColumns(query.size) < Len(columns)
                          THEN NumColumns(query.size) ELSE Len(columns)
                 values == [c \in 1 .. count |-> ConstantTerm(columns[c], InverseMonomial(k))]
             IN  query' = [phase |-> "read", entry |-> ReconstructEntry(values, query.size)]
      PROVE  query' = [phase |-> "read", entry |-> EntryAtSize(db, i, query.size)]
  <2> DEFINE columns == EncodeColumns(db, cfg, s * e)
             count == IF NumColumns(query.size) < NumColumns(db.size)
                      THEN NumColumns(query.size) ELSE NumColumns(db.size)
             values == [c \in 1 .. count |-> ConstantTerm(columns[c], InverseMonomial(k))]
  <2>1. j = s + 1
    <3> HIDE DEF ss, db, cfg, s
    <3>1. QED
      BY <1>1, <1>2, <1>5, FirstIsPosition
  <2>2. e \in 1 .. RingDim /\ e * s <= Entries(db)
    <3> HIDE DEF ss, db, cfg, s
    <3>1. QED
      BY <1>1, <1>3, <1>5, <2>1, StartsWithin
  <2>3. ss[j].polynomials = columns
    <3> HIDE DEF ss, db, cfg, s, e
    <3>1. j \in 1 .. Len(ss) /\ j - 1 = s
      BY <1>1, <1>3, <1>5, <2>1
    <3>2. QED
      BY <1>1, <3>1 DEF Encoded, e
  <2>4. Len(columns) = NumColumns(db.size)
    <3> HIDE DEF ss, db, cfg, s, e
    <3>1. s * e \in 0 .. Entries(db)
      BY <1>1, <1>2, <1>3, <2>2
    <3>2. QED
      BY <1>1, <3>1, EncodeColumnsType
  <2>5. query' = [phase |-> "read", entry |-> ReconstructEntry(values, query.size)]
    BY <1>5, <2>3, <2>4
  <2>6. NumColumns(db.size) \in Nat /\ NumColumns(query.size) \in Nat
    <3> HIDE DEF db
    <3>1. NumColumns(db.size) \in Nat
      BY <1>1, DatabaseType
    <3>2. NumColumns(query.size) \in Nat
      BY <1>2 DEF NumColumns
    <3>3. QED
      BY <3>1, <3>2
  <2>7. /\ count \in Nat /\ count <= NumColumns(db.size)
        /\ count = NumColumns(query.size) \/ count = NumColumns(db.size)
    <3> HIDE DEF db
    <3>1. QED
      BY <2>6
  <2>8. ASSUME NEW c \in 1 .. count
        PROVE  values[c] = IF i < Entries(db) THEN ColumnValue(Entry(db, i), c) ELSE 0
    <3>1. c \in 1 .. NumColumns(db.size)
      <4> HIDE DEF db, count
      <4>1. QED
        BY <2>6, <2>7
    <3>2. values[c] = ConstantTerm(columns[c], InverseMonomial(k))
      <4> HIDE DEF count, columns, k
      <4>1. QED
        OBVIOUS
    <3>3. ConstantTerm(columns[c], InverseMonomial(k))
            = IF i < Entries(db) THEN ColumnValue(Entry(db, i), c) ELSE 0
      <4> HIDE DEF db, cfg, i
      <4>1. QED
        BY <1>1, <1>2, <2>2, <3>1, RotatedColumn
    <3>4. QED
      BY <3>2, <3>3
  <2>9. values = [c \in 1 .. count |-> values[c]]
    <3> HIDE DEF count, columns, k
    <3>1. QED
      OBVIOUS
  <2>10. ReconstructEntry(values, query.size) = EntryAtSize(db, i, query.size)
    <3> HIDE DEF db, i, count, values
    <3>1. QED
      BY <1>1, <1>2, <2>7, <2>8, <2>9, Reconstructed
  <2>11. QED
    BY <2>5, <2>10
<1>6. \/ /\ \A j \in DOMAIN ss : ss[j].id # s
         /\ query' = NotFound
      \/ \E j \in DOMAIN ss :
           /\ IsFirst(ss, s, j)
           /\ LET columns == ss[j].polynomials
                  count == IF NumColumns(query.size) < Len(columns)
                           THEN NumColumns(query.size) ELSE Len(columns)
                  values == [c \in 1 .. count |-> ConstantTerm(columns[c], InverseMonomial(k))]
              IN  query' = [phase |-> "read", entry |-> ReconstructEntry(values, query.size)]
  <2>1. query.shard = s /\ query.rotation = InverseMonomial(k)
    BY <1>2
  <2> HIDE DEF s, k
  <2>2. QED
    BY <2>1, Zenon DEF Answer
<1>7. QED
  <2> HIDE DEF s, k
  <2>1. QED
    BY <1>4, <1>5, <1>6, Zenon

\* A client whose shards hold as many entries as those of the database in service
\* reads the entry it asked for, or nothing past the end.
THEOREM ClientsReadRight == Spec => ReadsRight
<1>1. TypeOK /\ LayoutInv /\ QueryInv
        => (Answer /\ query.perShard = EntriesPerShard(served.config)
            => \/ query' = NotFound /\ query.index >= Entries(served.database)
               \/ query' = [phase |-> "read",
                            entry |-> EntryAtSize(served.database, query.index, query.size)])
  BY AnswerIsRight
<1>2. QED
  BY <1>1, TypeCorrect, LayoutInvariant, QueryInvariant, PTL DEF ReadsRight
=============================================================================
