\* The walk in waves over a diamond with an imported leaf.
CONSTANTS
  a = a
  b = b
  c = c
  d = d
  t = t
  Module = {a, b, c, d, t}
  Stage <- Stages
  Inst <- DiamondInst
  Walk <- FullWalk
  Order <- DiamondOrder
  Level <- DiamondLevel
  Parallel = TRUE
  Imported = {d}
  Top = t
  MaxReflows = 1
  NoModule = NoModule
  SavesMayFail = FALSE
  MaxVersion <- OnceEach
  MaxRuns = 2
SPECIFICATION Spec
INVARIANT NoRelatedWorkers
PROPERTIES WalksInOrder RunEnds
CHECK_DEADLOCK FALSE
