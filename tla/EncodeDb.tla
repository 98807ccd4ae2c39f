------------------------------ MODULE EncodeDb ------------------------------
(***************************************************************************)
(* A server that encodes databases into shards, one loop iteration of      *)
(* encode_database at a time, and swaps the result in; and a client that   *)
(* reads entries with a ShardConfig of its own, which may be of another   *)
(* database or of another geometry, and whose queries wait across swaps.   *)
(* Encryption, packing and noise are left out: a response column is the    *)
(* constant term of the rotated column polynomial.                         *)
(***************************************************************************)
EXTENDS Sharding

CONSTANTS
  Databases,    \* databases: an entry size and a sequence of entries
  Configs,      \* configurations that clients and callers of encode_database build
  Indices       \* entry indices that clients ask for

NoQuery == [phase |-> "none"]

Entries(db) == Len(db.entries)
Entry(db, i) == db.entries[i + 1]

Database(db) ==
  /\ db.size \in Nat \ {0}
  /\ db.entries \in Seq([1 .. db.size -> Byte])

ASSUME EncodeAssumption ==
  /\ \A db \in Databases : db = [size |-> db.size, entries |-> db.entries] /\ Database(db)
  /\ Configs \subseteq ShardConfig
  /\ Indices \subseteq Nat

VARIABLES
  phase,       \* of encode_database: "idle", "encoding", "refused" or "panicked"
  database,    \* its arguments
  config,
  offset,      \* entry_offset
  shardId,     \* shard_id
  shards,      \* the shards encoded so far
  served,      \* the EncodedDatabase in service, and the database it is of
  query        \* a query on its way, with its answer once there is one

loopVars == <<phase, database, config, offset, shardId, shards>>
vars == <<phase, database, config, offset, shardId, shards, served, query>>

NoDatabase == [size |-> 1, entries |-> <<>>]

\* The configuration setup gives a database.
SetupConfig(db) == Config(RingDim, db.size, Entries(db))

Init ==
  /\ phase = "idle"
  /\ database = NoDatabase /\ config = SetupConfig(NoDatabase)
  /\ offset = 0 /\ shardId = 0 /\ shards = <<>>
  /\ served = [database |-> NoDatabase, config |-> SetupConfig(NoDatabase), shards |-> <<>>]
  /\ query = NoQuery
-----------------------------------------------------------------------------
(* encode_database                                                         *)

\* encode_database(db, cfg): the early returns (an empty database has no shards,
\* whatever the configuration), or the start of the loop. Shards that hold nothing
\* are left out when there are entries: the loop would not end.
EncodeDatabase(db, cfg) ==
  /\ phase # "encoding"
  /\ Entries(db) > 0 => EntriesPerShard(cfg) # 0
  /\ phase' = IF Entries(db) > 0 /\ EntriesPerShard(cfg) > RingDim
              THEN "refused" ELSE "encoding"
  /\ database' = db /\ config' = cfg
  /\ offset' = 0 /\ shardId' = 0 /\ shards' = <<>>
  /\ UNCHANGED <<served, query>>

IsPowerOfTwo(n) == n > 0 /\ \A k \in 2 .. n : n % k = 0 => k % 2 = 0

\* setup, once it has checked the packing width, encodes with the configuration of
\* the database. It does not call validate.
Setup(db) ==
  /\ IsPowerOfTwo(NumColumns(db.size)) /\ NumColumns(db.size) <= RingDim \div 2
  /\ EncodeDatabase(db, SetupConfig(db))

\* The entries of db that go into the shard that starts at entry first.
ActualEntries(db, cfg, first) ==
  IF EntriesPerShard(cfg) < Entries(db) - first
  THEN EntriesPerShard(cfg) ELSE Entries(db) - first

AdvancedByRingDim(db, cfg, first) == first + RingDim   \* mutated form: a full ring

\* entry_offset after the shard that starts at first.
Advanced(db, cfg, first) == first + ActualEntries(db, cfg, first)

\* The column polynomials of that shard, zero where there is no entry.
EncodeColumns(db, cfg, first) ==
  [c \in 1 .. NumColumns(db.size) |->
     [k \in Coeffs |-> IF k < ActualEntries(db, cfg, first)
                       THEN ColumnValue(Entry(db, first + k), c)
                       ELSE 0]]

WideShardId == shardId + 1   \* mutated form: an id of a wider type

\* shard_id += 1, where it does not overflow or wraps.
NextShardId == (shardId + 1) % IdSpace

\* One iteration of the loop. The increment of the u32 shard_id wraps in a release
\* build and panics in a debug build, after the last shard id as well.
EncodeShard ==
  /\ phase = "encoding" /\ offset < Entries(database)
  /\ shards' = Append(shards, [id |-> shardId,
                              polynomials |-> EncodeColumns(database, config, offset)])
  /\ offset' = Advanced(database, config, offset)
  /\ \/ shardId' = NextShardId /\ phase' = phase
     \/ shardId + 1 = IdSpace /\ shardId' = shardId /\ phase' = "panicked"
  /\ UNCHANGED <<database, config, served, query>>

\* The loop ends, its locals are gone, and the server takes the encoded database
\* into service.
Publish ==
  /\ phase = "encoding" /\ offset >= Entries(database)
  /\ served' = [database |-> database, config |-> config, shards |-> shards]
  /\ phase' = "idle"
  /\ database' = NoDatabase /\ config' = SetupConfig(NoDatabase)
  /\ offset' = 0 /\ shardId' = 0 /\ shards' = <<>>
  /\ UNCHANGED query
-----------------------------------------------------------------------------
(* Reading                                                                 *)

\* What a client may have: the configuration of a database that is, was or will be
\* in service, or one it built.
ClientConfigs == {SetupConfig(db) : db \in Databases} \cup Configs

\* query, under configuration cfg: the shard in the clear and the rotation for the
\* local index, and what the client remembers for extract. Without coordinates, or
\* with a local index above d, the client panics and sends nothing.
Query(i, cfg) ==
  /\ query.phase # "sent"
  /\ Addressable(cfg, i) /\ Coordinates(cfg, i).local <= RingDim
  /\ query' = [phase |-> "sent", index |-> i,
               perShard |-> EntriesPerShard(cfg), size |-> cfg.entrySize,
               shard |-> Coordinates(cfg, i).shard,
               rotation |-> InverseMonomial(Coordinates(cfg, i).local)]
  /\ UNCHANGED <<loopVars, served>>

NotFound == [phase |-> "not found"]

IsFirst(s, id, j) == s[j].id = id /\ \A i \in 1 .. j - 1 : s[i].id # id

\* respond: the first shard with that id, each column of it rotated; then extract
\* with the entry size the client knows.
Answer ==
  /\ query.phase = "sent"
  /\ \/ /\ \A j \in DOMAIN served.shards : served.shards[j].id # query.shard
        /\ query' = NotFound
     \/ \E j \in DOMAIN served.shards :
          /\ IsFirst(served.shards, query.shard, j)
          /\ LET columns == served.shards[j].polynomials
                 count == IF NumColumns(query.size) < Len(columns)
                          THEN NumColumns(query.size) ELSE Len(columns)
                 values == [c \in 1 .. count |-> ConstantTerm(columns[c], query.rotation)]
             IN  query' = [phase |-> "read", entry |-> ReconstructEntry(values, query.size)]
  /\ UNCHANGED <<loopVars, served>>

Next ==
  \/ \E db \in Databases : Setup(db) \/ \E cfg \in Configs : EncodeDatabase(db, cfg)
  \/ EncodeShard
  \/ Publish
  \/ \E i \in Indices, cfg \in ClientConfigs : Query(i, cfg)
  \/ Answer

Spec == Init /\ [][Next]_vars
-----------------------------------------------------------------------------
(* Properties                                                              *)

Phases == {"idle", "encoding", "refused", "panicked"}

\* Column values, as encoded.
Polynomial == [Coeffs -> ColumnValues]
Shard == [id : ShardIds, polynomials : Seq(Polynomial)]

Queries ==
  {NoQuery, NotFound}
    \cup [phase : {"sent"}, index : Nat, perShard : Nat, size : Nat,
          shard : ShardIds, rotation : [position : Coeffs, negative : BOOLEAN]]
    \cup [phase : {"read"}, entry : Seq(Byte)]

\* Types of the encoder's locals, the database in service and the query on its way.
TypeOK ==
  /\ phase \in Phases
  /\ database \in Databases \cup {NoDatabase}
  /\ config \in ShardConfig
  /\ offset \in Nat /\ shardId \in ShardIds
  /\ shards \in Seq(Shard)
  /\ served.database \in Databases \cup {NoDatabase}
  /\ served.config \in ShardConfig
  /\ served.shards \in Seq(Shard)
  /\ query \in Queries

\* The shards ss hold entry i of db where a client with configuration cfg looks for
\* it: in the first shard with that id, in every column, at the local index.
HoldsEntry(ss, cfg, db, i) ==
  Addressable(cfg, i) =>
    LET at == Coordinates(cfg, i)
    IN  \E j \in DOMAIN ss :
          /\ IsFirst(ss, at.shard, j)
          /\ Len(ss[j].polynomials) = NumColumns(db.size)
          /\ \A c \in DOMAIN ss[j].polynomials :
               ss[j].polynomials[c][at.local] = ColumnValue(Entry(db, i), c)

\* Every entry encoded so far, and every entry of the database in service, is where
\* index_to_shard says it is, past the last shard id too, where ids are given out
\* again and the index is refused (encode_db.rs, encode_database).
EntriesFound ==
  /\ phase = "encoding" =>
       \A i \in 0 .. offset - 1 : HoldsEntry(shards, config, database, i)
  /\ \A i \in 0 .. Entries(served.database) - 1 :
       HoldsEntry(served.shards, served.config, served.database, i)

\* There are as many shards as num_shards counts, at every iteration for the entries
\* encoded so far: the loop neither skips nor repeats one (params.rs, num_shards).
ShardsCounted ==
  /\ phase = "encoding" => Len(shards) = NumShards([config EXCEPT !.total = offset])
  /\ Len(served.shards) =
       NumShards([served.config EXCEPT !.total = Entries(served.database)])

\* A database whose configuration passes validate is encoded without an overflow of
\* the shard id, in a debug build too (params.rs, validate).
ValidNeverPanics ==
  phase = "panicked" => ~(Valid(config) /\ config.total = Entries(database))

\* Entry i of db for a client that takes entries to have that size; zero where the
\* database has none.
EntryAtSize(db, i, size) ==
  [b \in 1 .. size |-> IF i < Entries(db) /\ b <= db.size THEN Entry(db, i)[b] ELSE 0]

\* A client whose shards hold as many entries as those of the database in service
\* reads the entry it asked for, or nothing past the end, whatever database its
\* configuration was made for and however long its query waited (query.rs, query;
\* respond.rs, respond; extract.rs, extract).
ReadsRight ==
  [][ Answer /\ query.perShard = EntriesPerShard(served.config)
      => \/ query' = NotFound /\ query.index >= Entries(served.database)
         \/ query' = [phase |-> "read",
                      entry |-> EntryAtSize(served.database, query.index, query.size)] ]_vars
=============================================================================
