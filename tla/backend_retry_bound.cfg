\* Does a retry under the same task id keep the documented bound?
CONSTANTS
  Id = {a, b}
  Attempts = 2
  MaxConcurrent = 1
  NoTask = NoTask
  Commands <- OneCommand
SPECIFICATION Spec
INVARIANT ConcurrencyBounded
CHECK_DEADLOCK FALSE
