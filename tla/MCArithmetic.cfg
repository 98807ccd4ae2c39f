\* Words of 7 bits; the Solinas prime is 29, and 5 and 13 are the moduli of polynomials,
\* so that larger pairs of moduli have a product that saturates.
SPECIFICATION MCSpec
CONSTANTS
  Moduli = {5, 13, 29}
  Bits = 7
  Top = 5
  Low = 2
  Split = 4
  N = 2
  Loads <- MCLoads
  Samples <- MCSamples
  Operands = {0, 14, 28}
  Exponents = {0, 1, 6, 27}
  Chain <- MCChain
  Regs = {"first", "second"}
  Given <- MCGiven
  Vectors <- MCVectors
  Wires <- MCWires
  Leftover <- MCLeftover
  Scalars = {100}
  MaxOps = 3
INVARIANTS WordsReduced RegistersSound
PROPERTIES WordsImplementResidues PolynomialsImplementRing
