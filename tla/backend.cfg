\* Two calls that may retry once under their task id compete for one slot; the
\* bundle of one of them has two commands.
CONSTANTS
  Id = {a, b}
  Attempts = 2
  MaxConcurrent = 1
  NoTask = NoTask
  Commands <- MixedCommands
SPECIFICATION Spec
INVARIANTS TypeOK SlotsBounded FifoAdmission WorkConserving NoStrandedSlot
PROPERTIES EveryRequestAnswered
CHECK_DEADLOCK FALSE
