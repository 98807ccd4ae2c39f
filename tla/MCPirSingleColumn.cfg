\* A record of a single column, tree-packed.
SPECIFICATION Spec
CONSTANTS
  g1 = g1  g2 = g2  g3 = g3  k1 = k1  k2 = k2
  Columns1 = 1  Columns2 = 2  Published1 = 1  Published2 = 2  Gadget2 = 3
  SecretKeys = {k1, k2}
  Seeds = {g1, g2}
  NoSetup = NoSetup
  Widths = {1, 2}
  Digits = {3}
  HandleSpace = 2
  RingDim = 4
  PlainMod = 17
  Columns <- MCColumns
  Published <- MCPublished
  GadgetLen <- MCGadgetLen
  SetupKey <- MCSetupKey
  Record <- MCRecord
  Clients = {c1}
  MaxRestarts = 1
PROPERTY TreePackingReadBack
