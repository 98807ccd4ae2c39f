----------------------------- MODULE MCEncodeDb -----------------------------
(* Databases of a few entry sizes whose number of entries is at, before and  *)
(* after the boundaries of shards and of the space of shard ids, and the     *)
(* configurations the two constructors of ShardConfig give for them.         *)
EXTENDS EncodeDb

CONSTANTS Sizes, Totals, ConfigRingDims, ConfigTotals

\* No two entries of a database are the same, nor those of two databases of
\* different lengths; 0 and 255 occur.
MCEntry(size, total, i) == [b \in 1 .. size |-> (256 - 7 * total + 17 * i + 128 * b) % 256]

MCDatabases ==
  {[size |-> s, entries |-> [i \in 1 .. n |-> MCEntry(s, n, i)]] : s \in Sizes, n \in Totals}

MCConfigs ==
  {cfg \in {Config(d, s, n) : d \in ConfigRingDims, s \in Sizes, n \in ConfigTotals} :
     Buildable(cfg.shardSize \div cfg.entrySize, cfg.entrySize, cfg.total)}
    \cup {ForFlatDb(s, n) : s \in Sizes, n \in ConfigTotals}
=============================================================================
