\* Three levels of butterflies in words of 10 bits; 241 is the Solinas prime.
SPECIFICATION MCSpec
CONSTANTS
  Moduli = {17, 241}
  Bits = 10
  Top = 8
  Low = 4
  Split = 6
  N = 8
  Inputs <- MCInputs
  LimbModuli <- MCLimbModuli
  Draws <- MCDraws
INVARIANTS
  TransformsMultiply TablesArePermutations TablesCommute
  EvaluatesRight PointsAreRoots
  LegacyColumnsDecrypt OnlineAgrees TreeCarries InspiringCarries
PROPERTY TablesRecovered
