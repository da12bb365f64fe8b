\* Do the workers of a wave keep their parent's record of them?
CONSTANTS
  a = a
  b = b
  c = c
  d = d
  t = t
  Module = {a, b, t}
  Stage <- Stages
  Inst <- TreeInst
  Walk <- FullWalk
  Order <- TreeOrder
  Level <- TreeLevel
  Parallel = TRUE
  Imported = {}
  Top = t
  MaxReflows = 1
  NoModule = NoModule
  SavesMayFail = FALSE
  MaxVersion <- OnceEach
  MaxRuns = 1
SPECIFICATION Spec
INVARIANT ChildHashesSettled
CHECK_DEADLOCK FALSE
