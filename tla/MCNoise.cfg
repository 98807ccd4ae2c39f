\* Two registers of four coefficients, three operations in a row; floats of one fraction bit
\* with 1.0 at the third exponent, a tail of two on each side, samples lifted into sixteen
\* words.
SPECIFICATION MCSpec
CONSTANTS
  N = 4
  Q = 4099
  P = 5
  Base = 4
  Digits = 7
  Regs = {"first", "second"}
  Secrets <- MCSecrets
  Messages <- MCMessages
  Mask <- MCMask
  Seeds = 2
  Noise <- MCErrors
  NoiseSize = 1
  Multipliers <- MCMultipliers
  Scalars = {3}
  Rotations = {1, 6}
  Galois = {3, 5}
  LweNoise <- MCLweNoise
  MaxOps = 3
  Mantissa = 1
  OneExponent = 3
  Step = 1
  TailCut = 2
  WordSpace = 16
  Modulus = 7
  VectorLen = 2
INVARIANTS NoiseWithinBound DecryptsRight LiftsStandForSamples
PROPERTIES DecidesAsFloats SamplesReturn
