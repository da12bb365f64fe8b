\* Does exit code 0 of a resumed run mean that integration passed?
CONSTANTS
  a = a
  b = b
  c = c
  d = d
  t = t
  Module = {a, t}
  Stage <- Stages
  Inst <- PairInst
  Walk <- FullWalk
  Order <- PairOrder
  Level <- PairLevel
  Parallel = FALSE
  Imported = {}
  Top = t
  MaxReflows = 1
  NoModule = NoModule
  SavesMayFail = FALSE
  MaxVersion <- OnceEach
  MaxRuns = 2
SPECIFICATION Spec
INVARIANT ExitZeroMeansIntegrated
CHECK_DEADLOCK FALSE
