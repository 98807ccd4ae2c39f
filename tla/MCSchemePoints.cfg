\* Six points among the residues modulo 43, and other orders that divide q - 1.
SPECIFICATION MCSpec
CONSTANTS
  Moduli = {17, 241}
  Bits = 10
  Top = 8
  Low = 4
  Split = 6
  N = 8
  Inputs <- MCInputs
  LimbModuli <- MCLimbModuli
  Draws <- MCDraws
INVARIANT PointsDiffer
