\* The walk module by module: two leaves, one of them revised, and the top; crashes,
\* resumes and checkpoints that fail.
CONSTANTS
  a = a
  b = b
  c = c
  d = d
  t = t
  Module = {a, b, t}
  Stage <- LongStages
  Inst <- TreeInst
  Walk <- LongWalk
  Order <- TreeOrder
  Level <- TreeLevel
  Parallel = FALSE
  Imported = {}
  Top = t
  MaxReflows = 1
  NoModule = NoModule
  SavesMayFail = TRUE
  MaxVersion <- LeafRevised
  MaxRuns = 2
SPECIFICATION Spec
INVARIANTS TypeOK ChildHashesCurrent FreshExitZero CompletedFollowsContract DoneMeansWalked
CHECK_DEADLOCK FALSE
