\* Words of eight bits for parameters, and bodies of CRSs on both sides of the limit;
\* answers of two coefficients under 29 * 37.
SPECIFICATION MCSpec
CONSTANTS
  Bits = 8
  ColumnValueCeiling = 3
  Derived <- MCDerived
  HandWritten <- MCHandWritten
  Overrides <- MCOverrides
  Shapes <- MCShapes
  EntrySizes = {0, 1, 2, 5, 8}
  WireWidths = {0, 1, 2, 3, 4, 8}
  DecodeLimit = 5000
  Q = 1073
  SourceLimbs = 2
  Targets <- MCTargets
  Secrets <- MCSecrets
  Messages <- MCMessages
  Masks <- MCMasks
  Errors <- MCErrors
  N = 2
  P = 5
  TailMult = 1
  Sigma = 1
  ByteBits = 3
  Columns = {0, 2}
  WordBits = 11
  MaxSwitches = 2
INVARIANTS
  GadgetCovers WidthsPack OwnParametersPass SwitchedAnswersSound IdentitySwitchReads
