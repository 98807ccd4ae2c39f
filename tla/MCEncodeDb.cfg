\* d = 4 and three shard ids: 12 entries fill them, 13 reuse the first.
SPECIFICATION Spec
CONSTANTS
  RingDim = 4
  PlainMod = 65537
  DefaultRingDim = 8
  IdSpace = 3
  WordSpace = 64
  Sizes = {1, 3}
  Totals = {0, 5, 12, 13}
  ConfigRingDims = {3}
  ConfigTotals = {5}
  Databases <- MCDatabases
  Configs <- MCConfigs
  Indices = {3, 4, 11}
INVARIANTS TypeOK EntriesFound ShardsCounted ValidNeverPanics
PROPERTY ReadsRight
