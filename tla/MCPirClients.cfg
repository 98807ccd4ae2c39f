\* Two clients that share a store through one restart, under one setup.
SPECIFICATION Spec
CONSTANTS
  g1 = g1  g2 = g2  g3 = g3  k1 = k1  k2 = k2
  Columns1 = 2  Columns2 = 2  Published1 = 2  Published2 = 2  Gadget2 = 3
  SecretKeys = {k1, k2}
  Seeds = {g1}
  NoSetup = NoSetup
  Widths = {2}
  Digits = {3}
  HandleSpace = 2
  RingDim = 4
  PlainMod = 17
  Columns <- MCColumns
  Published <- MCPublished
  GadgetLen <- MCGadgetLen
  SetupKey <- MCSetupKey
  Record <- MCRecord
  Clients = {c1, c2}
  MaxRestarts = 1
SYMMETRY Symmetry
INVARIANTS TypeOK HandlesResolve
